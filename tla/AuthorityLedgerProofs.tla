----------------------- MODULE AuthorityLedgerProofs ------------------------
(***************************************************************************)
(* Proofs about the authority ledger, for any receipts, keys, times,       *)
(* processes and faults.  A decision is taken from the memory of a process, *)
(* which may be older than the journal; the line it appends counts in the  *)
(* journal only if its number fits.  Two facts carry everything else: a    *)
(* line whose number fits was decided from a memory equal to the journal   *)
(* (Current), and so the guards of its operation hold of the journal too   *)
(* (Legit); and each book a decision can be taken from counts what was     *)
(* ALLOWED (Good).                                                         *)
(***************************************************************************)
EXTENDS AuthorityLedger, FoldLemmas

\* Nobody signs a child with the nonce of its parent.
DistinctNonces ==
    \A c \in Receipts : Parent(c) # None => Envelope[c].nonce # Envelope[Parent(c)].nonce

\* What the operation that writes l has made sure of, said of a book b.
Legit(b, l) ==
    /\ l \in Lines
    /\ l.seq = b.next
    /\ l.kind = "K" => b.keys[l.key] = None
    /\ l.kind \in {"T", "R"} => b.keys[l.key] # None
    /\ l.kind = "R" => b.keys[l.key].revoked = 0
    /\ l.kind = "X" => b.revoked[l.receipt] = 0
    /\ l.kind = "U" =>
        /\ l.index = b.uses[l.receipt] + 1
        /\ Registered(b, l.receipt)
        /\ Binds(b, l.receipt)
        /\ b.uses[l.receipt] + b.reserved[l.receipt] < Envelope[l.receipt].max
    /\ l.kind = "D" =>
        LET p == Parent(l.receipt) IN
        /\ p \notin {None, l.receipt}
        /\ l.index = b.uses[p] + 1
        /\ b.lineage[l.receipt] = None /\ b.uses[l.receipt] = 0
        /\ Registered(b, p)
        /\ Binds(b, p) /\ Binds(b, l.receipt)
        /\ b.uses[p] + b.reserved[p] + 1 + Envelope[l.receipt].max <= Envelope[p].max

\* The history after the operation that wrote l has returned ALLOWED.
Granted(g, l) == IF l.kind = "U" THEN [g EXCEPT ![l.receipt] = @ + 1] ELSE g
Struck(l) ==
    IF l.kind = "X" THEN {[of |-> l.receipt, at |-> l.at]}
    ELSE IF l.kind = "R" THEN {[of |-> l.key, at |-> l.at]}
    ELSE {}

\* Counts(b), of a history (g, k).
CountsOf(b, g, k) ==
    /\ \A r \in Receipts :
        /\ g[r] + Cardinality(Children(b, r)) <= b.uses[r]
        /\ g[r] > 0 => Registered(b, r)
    /\ \A x \in k :
        /\ x.of \in Receipts => b.revoked[x.of] = x.at
        /\ x.of \in Keys => b.keys[x.of] # None /\ b.keys[x.of].revoked = x.at

\* What holds of a book whatever the history.
Sane(b) ==
    /\ \A r \in Receipts :
        /\ b.uses[r] + b.reserved[r] <= Envelope[r].max
        /\ IsFiniteSet(Children(b, r))
        /\ b.lineage[r] # None =>
            b.lineage[r] = Parent(r) /\ Parent(r) # r /\ Registered(b, Parent(r))
    /\ DistinctNonces =>
        \A r \in Receipts : b.uses[r] > 0 => b.bound[Envelope[r].nonce] = r

\* What a delegation costs its parent.
Cost == [c \in Receipts |-> 1 + Envelope[c].max]

\* What a book has used and reserved covers what was granted from it.
Covers(b, g) ==
    \A r \in Receipts :
        g[r] + SumFunctionOnSet(Cost, Children(b, r)) <= b.uses[r] + b.reserved[r]

Good(b, g, k) == Sane(b) /\ CountsOf(b, g, k) /\ Covers(b, g)

Current(m, d) == m.next <= d.next /\ (m.next = d.next => m = d)

\* One ledger at a time, so far.
Alone == \A i, j \in Ledgers : mem[i] # None /\ mem[j] # None => i = j

\* The inductive invariant.
IInv ==
    /\ AuthorityTypeOK
    /\ clean => view = disk
    /\ ~shared => Alone
    /\ clean /\ disk.healthy =>
        \A i \in Ledgers : mem[i] # None =>
            /\ Current(mem[i], disk)
            /\ ~shared => mem[i] = disk
    /\ disk.healthy => Good(disk, grants, killed)
    /\ view.healthy => Good(view, grants, killed)
    /\ \A i \in Ledgers : ~shared /\ Running(i) => Good(mem[i], grants, killed)

-----------------------------------------------------------------------------
(* Lines and books.                                                        *)

LEMMA LineFields ==
    ASSUME NEW l \in Lines
    PROVE  /\ l.kind \in {"K", "T", "R", "X", "U", "D"} /\ l.seq \in Nat
           /\ l.kind \in {"K", "T", "R"} => l.key \in Keys
           /\ l.kind = "K" => l.from \in Times /\ l.until \in Times \cup {0}
           /\ l.kind \in {"T", "R", "X"} => l.at \in Times
           /\ l.kind \in {"X", "U", "D"} => l.receipt \in Receipts
           /\ l.kind \in {"U", "D"} => l.index \in Nat
BY DEF Lines

LEMMA EnvelopeFields ==
    ASSUME NEW r \in Receipts
    PROVE  /\ Parent(r) \in Receipts \cup {None}
           /\ Envelope[r].max \in Nat \ {0}
           /\ Envelope[r].nonce \in Nonces
           /\ Envelope[r].key \in Keys
BY AuthorityAssumption DEF Envelopes, Parent

LEMMA BookFields ==
    ASSUME NEW b \in Books
    PROVE  /\ b.healthy \in BOOLEAN /\ b.next \in Nat
           /\ b.keys \in [Keys -> KeyStates \cup {None}]
           /\ b.uses \in [Receipts -> Nat] /\ b.reserved \in [Receipts -> Nat]
           /\ b.revoked \in [Receipts -> Times \cup {0}]
           /\ b.bound \in [Nonces -> Receipts \cup {None}]
           /\ b.lineage \in [Receipts -> Receipts \cup {None}]
BY DEF Books

LEMMA KeyLineEffect ==
    ASSUME NEW b \in Books, NEW l \in Lines, l.kind \in {"K", "T", "R"},
           l.kind \in {"T", "R"} => b.keys[l.key] # None
    PROVE  \E s \in KeyStates :
              /\ s.revoked = CASE l.kind = "K" -> 0
                               [] l.kind = "T" -> b.keys[l.key].revoked
                               [] l.kind = "R" -> l.at
              /\ After(b, l) \in Books
              /\ After(b, l).healthy = b.healthy
              /\ After(b, l).next = b.next + 1
              /\ After(b, l).keys = [b.keys EXCEPT ![l.key] = s]
              /\ After(b, l).uses = b.uses
              /\ After(b, l).reserved = b.reserved
              /\ After(b, l).revoked = b.revoked
              /\ After(b, l).bound = b.bound
              /\ After(b, l).lineage = b.lineage
<1>. DEFINE old == b.keys[l.key]
            new == CASE l.kind = "K" -> [from |-> l.from, until |-> l.until, revoked |-> 0]
                     [] l.kind = "T" -> [old EXCEPT !.until = l.at]
                     [] l.kind = "R" -> [old EXCEPT !.revoked = l.at]
<1>1. l.key \in Keys /\ old \in KeyStates \cup {None}
  BY LineFields, BookFields
<1>2. new \in KeyStates /\ new.revoked = CASE l.kind = "K" -> 0
                               [] l.kind = "T" -> old.revoked
                               [] l.kind = "R" -> l.at
  <2>1. CASE l.kind = "K"
    BY <2>1, LineFields DEF KeyStates
  <2>2. CASE l.kind = "T"
    BY <2>2, <1>1, LineFields DEF KeyStates
  <2>3. CASE l.kind = "R"
    BY <2>3, <1>1, LineFields DEF KeyStates
  <2>. QED
    BY <2>1, <2>2, <2>3
<1>3. After(b, l) = [b EXCEPT !.next = b.next + 1, !.keys = [b.keys EXCEPT ![l.key] = new]]
  BY DEF After, AfterKeyLine, Books
<1>4. PICK s \in KeyStates : s = new
  BY <1>2
<1>5. [b.keys EXCEPT ![l.key] = s] \in [Keys -> KeyStates \cup {None}]
  BY <1>1, BookFields
<1>6. PICK ks \in [Keys -> KeyStates \cup {None}] : ks = [b.keys EXCEPT ![l.key] = s]
  BY <1>5
<1>n. PICK n \in Nat : n = b.next + 1
  BY BookFields
<1>7. After(b, l) = [b EXCEPT !.next = n, !.keys = ks]
  BY <1>3, <1>4, <1>6, <1>n
<1>. HIDE DEF new
<1>8. /\ After(b, l) \in Books
      /\ After(b, l).healthy = b.healthy
      /\ After(b, l).next = n
      /\ After(b, l).keys = ks
      /\ After(b, l).uses = b.uses
      /\ After(b, l).reserved = b.reserved
      /\ After(b, l).revoked = b.revoked
      /\ After(b, l).bound = b.bound
      /\ After(b, l).lineage = b.lineage
  BY <1>7 DEF Books
<1>. QED
  BY <1>8, <1>6, <1>4, <1>2, <1>n

LEMMA RevocationEffect ==
    ASSUME NEW b \in Books, NEW l \in Lines, l.kind = "X"
    PROVE  /\ After(b, l) \in Books
           /\ After(b, l).healthy = b.healthy
           /\ After(b, l).next = b.next + 1
           /\ After(b, l).keys = b.keys
           /\ After(b, l).uses = b.uses
           /\ After(b, l).reserved = b.reserved
           /\ After(b, l).revoked = [b.revoked EXCEPT ![l.receipt] = l.at]
           /\ After(b, l).bound = b.bound
           /\ After(b, l).lineage = b.lineage
<1>1. [b.revoked EXCEPT ![l.receipt] = l.at] \in [Receipts -> Times \cup {0}]
  BY LineFields, BookFields
<1>2. PICK v \in [Receipts -> Times \cup {0}] : v = [b.revoked EXCEPT ![l.receipt] = l.at]
  BY <1>1
<1>n. PICK n \in Nat : n = b.next + 1
  BY BookFields
<1>3. After(b, l) = [b EXCEPT !.next = n, !.revoked = v]
  BY <1>n, <1>2 DEF After, AfterRevocation, Books
<1>. QED
  BY <1>n, <1>2, <1>3 DEF Books

LEMMA UseEffect ==
    ASSUME NEW b \in Books, NEW l \in Lines, l.kind = "U"
    PROVE  /\ After(b, l) \in Books
           /\ After(b, l).healthy = b.healthy
           /\ After(b, l).next = b.next + 1
           /\ After(b, l).keys = b.keys
           /\ After(b, l).uses = [b.uses EXCEPT ![l.receipt] = l.index]
           /\ After(b, l).reserved = b.reserved
           /\ After(b, l).revoked = b.revoked
           /\ After(b, l).bound =
                [b.bound EXCEPT ![Envelope[l.receipt].nonce] = l.receipt]
           /\ After(b, l).lineage = b.lineage
<1>1. /\ [b.uses EXCEPT ![l.receipt] = l.index] \in [Receipts -> Nat]
      /\ [b.bound EXCEPT ![Envelope[l.receipt].nonce] = l.receipt]
            \in [Nonces -> Receipts \cup {None}]
  BY LineFields, BookFields
<1>2. PICK u \in [Receipts -> Nat] : u = [b.uses EXCEPT ![l.receipt] = l.index]
  BY <1>1
<1>3. PICK v \in [Nonces -> Receipts \cup {None}] :
            v = [b.bound EXCEPT ![Envelope[l.receipt].nonce] = l.receipt]
  BY <1>1
<1>n. PICK n \in Nat : n = b.next + 1
  BY BookFields
<1>4. After(b, l) = [b EXCEPT !.next = n, !.uses = u, !.bound = v]
  BY <1>n, <1>2, <1>3 DEF After, AfterUse, Books
<1>. QED
  BY <1>n, <1>2, <1>3, <1>4 DEF Books

LEMMA DelegationEffect ==
    ASSUME NEW b \in Books, NEW l \in Lines, l.kind = "D", Parent(l.receipt) # None
    PROVE  LET p == Parent(l.receipt) IN
           /\ After(b, l) \in Books
           /\ After(b, l).healthy = b.healthy
           /\ After(b, l).next = b.next + 1
           /\ After(b, l).keys = b.keys
           /\ After(b, l).uses = [b.uses EXCEPT ![p] = l.index]
           /\ After(b, l).reserved =
                [b.reserved EXCEPT ![p] = @ + Envelope[l.receipt].max]
           /\ After(b, l).revoked = b.revoked
           /\ After(b, l).bound =
                [b.bound EXCEPT ![Envelope[p].nonce] = p,
                                ![Envelope[l.receipt].nonce] = l.receipt]
           /\ After(b, l).lineage = [b.lineage EXCEPT ![l.receipt] = p]
<1>. DEFINE p == Parent(l.receipt)
<1>0. l.receipt \in Receipts /\ p \in Receipts
  BY LineFields, EnvelopeFields
<1>1. /\ [b.uses EXCEPT ![p] = l.index] \in [Receipts -> Nat]
      /\ [b.reserved EXCEPT ![p] = @ + Envelope[l.receipt].max] \in [Receipts -> Nat]
      /\ [b.bound EXCEPT ![Envelope[p].nonce] = p,
                         ![Envelope[l.receipt].nonce] = l.receipt]
            \in [Nonces -> Receipts \cup {None}]
      /\ [b.lineage EXCEPT ![l.receipt] = p] \in [Receipts -> Receipts \cup {None}]
  BY <1>0, LineFields, BookFields, EnvelopeFields
<1>2. PICK u \in [Receipts -> Nat] : u = [b.uses EXCEPT ![p] = l.index]
  BY <1>1
<1>3. PICK v \in [Nonces -> Receipts \cup {None}] :
            v = [b.bound EXCEPT ![Envelope[p].nonce] = p,
                                ![Envelope[l.receipt].nonce] = l.receipt]
  BY <1>1
<1>4. PICK w \in [Receipts -> Nat] :
            w = [b.reserved EXCEPT ![p] = @ + Envelope[l.receipt].max]
  BY <1>1
<1>5. PICK a \in [Receipts -> Receipts \cup {None}] :
            a = [b.lineage EXCEPT ![l.receipt] = p]
  BY <1>1
<1>n. PICK n \in Nat : n = b.next + 1
  BY BookFields
<1>6. After(b, l) = [b EXCEPT !.next = n, !.uses = u, !.reserved = w,
                              !.bound = v, !.lineage = a]
  BY <1>n, <1>2, <1>3, <1>4, <1>5 DEF After, AfterDelegation, Books
<1>. QED
  BY <1>n, <1>2, <1>3, <1>4, <1>5, <1>6 DEF Books

LEMMA AfterEffect ==
    ASSUME NEW b \in Books, NEW l, Legit(b, l)
    PROVE  /\ After(b, l) \in Books
           /\ After(b, l).healthy = b.healthy
           /\ After(b, l).next = b.next + 1
<1>1. l \in Lines /\ l.kind \in {"K", "T", "R", "X", "U", "D"}
  BY LineFields DEF Legit
<1>2. CASE l.kind \in {"K", "T", "R"}
  BY <1>1, <1>2, KeyLineEffect DEF Legit
<1>3. CASE l.kind = "X"
  BY <1>1, <1>3, RevocationEffect
<1>4. CASE l.kind = "U"
  BY <1>1, <1>4, UseEffect
<1>5. CASE l.kind = "D"
  BY <1>1, <1>5, DelegationEffect DEF Legit
<1>. QED
  BY <1>1, <1>2, <1>3, <1>4, <1>5

\* A delegation adds one child to its parent, and no other line adds any.
LEMMA ChildrenAfter ==
    ASSUME NEW b \in Books, NEW l, Legit(b, l), NEW r \in Receipts
    PROVE  Children(After(b, l), r) =
              IF l.kind = "D" /\ r = Parent(l.receipt)
              THEN Children(b, r) \cup {l.receipt}
              ELSE Children(b, r)
<1>1. l \in Lines /\ l.kind \in {"K", "T", "R", "X", "U", "D"}
  BY LineFields DEF Legit
<1>2. CASE l.kind = "D"
  <2>1. /\ l.receipt \in Receipts /\ Parent(l.receipt) # None
        /\ b.lineage[l.receipt] = None
    BY <1>1, <1>2, LineFields DEF Legit
  <2>2. After(b, l).lineage = [b.lineage EXCEPT ![l.receipt] = Parent(l.receipt)]
    BY <1>1, <1>2, <2>1, DelegationEffect
  <2>3. \A c \in Receipts :
            After(b, l).lineage[c] =
                IF c = l.receipt THEN Parent(l.receipt) ELSE b.lineage[c]
    BY <2>2, BookFields
  <2>4. r # None
    BY AuthorityAssumption
  <2>. QED
    BY <1>2, <2>1, <2>3, <2>4 DEF Children
<1>3. CASE l.kind # "D"
  <2>1. After(b, l).lineage = b.lineage
    BY <1>1, <1>3, KeyLineEffect, RevocationEffect, UseEffect DEF Legit
  <2>. QED
    BY <1>3, <2>1 DEF Children
<1>. QED
  BY <1>2, <1>3

\* A registered receipt stays registered.
LEMMA RegisteredAfter ==
    ASSUME NEW b \in Books, NEW l, Legit(b, l), NEW r \in Receipts
    PROVE  /\ Registered(b, r) => Registered(After(b, l), r)
           /\ After(b, l).lineage[r] =
                IF l.kind = "D" /\ r = l.receipt THEN Parent(r) ELSE b.lineage[r]
<1>1. l \in Lines /\ l.kind \in {"K", "T", "R", "X", "U", "D"}
  BY LineFields DEF Legit
<1>2. CASE l.kind = "D"
  <2>1. After(b, l).lineage = [b.lineage EXCEPT ![l.receipt] = Parent(l.receipt)]
    BY <1>1, <1>2, DelegationEffect DEF Legit
  <2>. QED
    BY <1>2, <2>1, BookFields DEF Registered
<1>3. CASE l.kind # "D"
  <2>1. After(b, l).lineage = b.lineage
    BY <1>1, <1>3, KeyLineEffect, RevocationEffect, UseEffect DEF Legit
  <2>. QED
    BY <1>3, <2>1 DEF Registered
<1>. QED
  BY <1>2, <1>3

-----------------------------------------------------------------------------
(* A line that its operation had reason to write keeps a book good.         *)

LEMMA SaneAfter ==
    ASSUME NEW b \in Books, NEW l, Legit(b, l), Sane(b)
    PROVE  Sane(After(b, l))
<1>. DEFINE d == After(b, l)
<1>1. l \in Lines /\ l.kind \in {"K", "T", "R", "X", "U", "D"} /\ d \in Books
  BY LineFields, AfterEffect DEF Legit
<1>2. \A r \in Receipts : d.uses[r] + d.reserved[r] <= Envelope[r].max
  <2>. TAKE r \in Receipts
  <2>0. /\ b.uses[r] \in Nat /\ b.reserved[r] \in Nat
        /\ b.uses[r] + b.reserved[r] <= Envelope[r].max
    BY BookFields DEF Sane
  <2>1. CASE l.kind \in {"K", "T", "R", "X"}
    BY <1>1, <2>0, <2>1, KeyLineEffect, RevocationEffect DEF Legit
  <2>2. CASE l.kind = "U"
    <3>1. d.reserved = b.reserved /\ d.uses = [b.uses EXCEPT ![l.receipt] = l.index]
      BY <1>1, <2>2, UseEffect
    <3>2. /\ l.index = b.uses[l.receipt] + 1
          /\ b.uses[l.receipt] + b.reserved[l.receipt] < Envelope[l.receipt].max
      BY <2>2 DEF Legit
    <3>. QED
      BY <2>0, <3>1, <3>2, BookFields, EnvelopeFields
  <2>3. CASE l.kind = "D"
    <3>. DEFINE p == Parent(l.receipt)
    <3>0. l.receipt \in Receipts /\ p \in Receipts
      BY <1>1, <2>3, LineFields, EnvelopeFields DEF Legit
    <3>1. /\ d.uses = [b.uses EXCEPT ![p] = l.index]
          /\ d.reserved = [b.reserved EXCEPT ![p] = @ + Envelope[l.receipt].max]
      BY <1>1, <2>3, DelegationEffect DEF Legit
    <3>2. /\ l.index = b.uses[p] + 1
          /\ b.uses[p] + b.reserved[p] + 1 + Envelope[l.receipt].max <= Envelope[p].max
      BY <2>3 DEF Legit
    <3>. HIDE DEF p
    <3>. QED
      BY <2>0, <3>0, <3>1, <3>2, BookFields, EnvelopeFields
  <2>. QED
    BY <1>1, <2>1, <2>2, <2>3
<1>3. \A r \in Receipts : IsFiniteSet(Children(d, r))
  <2>. TAKE r \in Receipts
  <2>1. IsFiniteSet(Children(b, r))
    BY DEF Sane
  <2>2. Children(d, r) = Children(b, r) \/ Children(d, r) = Children(b, r) \cup {l.receipt}
    BY ChildrenAfter
  <2>3. IsFiniteSet(Children(b, r) \cup {l.receipt})
    BY <2>1, FS_AddElement
  <2>. QED
    BY ONLY <2>1, <2>2, <2>3
<1>4. ASSUME NEW r \in Receipts, d.lineage[r] # None
      PROVE  d.lineage[r] = Parent(r) /\ Parent(r) # r /\ Registered(d, Parent(r))
  <2>1. d.lineage[r] = IF l.kind = "D" /\ r = l.receipt THEN Parent(r) ELSE b.lineage[r]
    BY RegisteredAfter
  <2>2. CASE l.kind = "D" /\ r = l.receipt
    BY <2>1, <2>2, <1>4, RegisteredAfter, EnvelopeFields DEF Legit
  <2>3. CASE ~(l.kind = "D" /\ r = l.receipt)
    BY <2>1, <2>3, <1>4, RegisteredAfter, EnvelopeFields DEF Sane
  <2>. QED
    BY <2>2, <2>3
<1>5. ASSUME DistinctNonces, NEW r \in Receipts, d.uses[r] > 0
      PROVE  d.bound[Envelope[r].nonce] = r
  <2>0. b.uses[r] > 0 => b.bound[Envelope[r].nonce] = r
    BY <1>5 DEF Sane
  <2>1. CASE l.kind \in {"K", "T", "R", "X"}
    <3>1. d.uses = b.uses /\ d.bound = b.bound
      BY <1>1, <2>1, KeyLineEffect, RevocationEffect DEF Legit
    <3>. QED
      BY <1>5, <2>0, <3>1
  <2>2. CASE l.kind = "U"
    <3>0. l.receipt \in Receipts
      BY <1>1, <2>2, LineFields
    <3>1. /\ d.uses = [b.uses EXCEPT ![l.receipt] = l.index]
          /\ d.bound = [b.bound EXCEPT ![Envelope[l.receipt].nonce] = l.receipt]
      BY <1>1, <2>2, UseEffect
    <3>2. b.bound[Envelope[l.receipt].nonce] \in {None, l.receipt}
      BY <2>2 DEF Legit, Binds
    <3>. QED
      BY <2>0, <3>0, <3>1, <3>2, <1>5, BookFields, EnvelopeFields, AuthorityAssumption
  <2>3. CASE l.kind = "D"
    <3>. DEFINE c == l.receipt
                p == Parent(l.receipt)
    <3>0. c \in Receipts /\ p \in Receipts /\ Envelope[c].nonce # Envelope[p].nonce
      BY <1>1, <1>5, <2>3, LineFields, EnvelopeFields DEF Legit, DistinctNonces
    <3>1. /\ d.uses = [b.uses EXCEPT ![p] = l.index]
          /\ d.bound = [b.bound EXCEPT ![Envelope[p].nonce] = p, ![Envelope[c].nonce] = c]
      BY <1>1, <2>3, DelegationEffect DEF Legit
    <3>2. /\ b.bound[Envelope[p].nonce] \in {None, p}
          /\ b.bound[Envelope[c].nonce] \in {None, c}
      BY <2>3 DEF Legit, Binds
    <3>. HIDE DEF p, c
    <3>. QED
      BY <2>0, <3>0, <3>1, <3>2, <1>5, BookFields, EnvelopeFields, AuthorityAssumption
  <2>. QED
    BY <1>1, <2>1, <2>2, <2>3
<1>. QED
  BY <1>2, <1>3, <1>4, <1>5 DEF Sane

LEMMA CountsAfter ==
    ASSUME NEW b \in Books, NEW l, Legit(b, l), Sane(b),
           NEW g \in [Receipts -> Nat], NEW k \in SUBSET Revocations, CountsOf(b, g, k)
    PROVE  CountsOf(After(b, l), Granted(g, l), k \cup Struck(l))
<1>. DEFINE d == After(b, l)
            h == Granted(g, l)
<1>1. l \in Lines /\ l.kind \in {"K", "T", "R", "X", "U", "D"} /\ d \in Books
  BY LineFields, AfterEffect DEF Legit
<1>2. ASSUME NEW r \in Receipts
      PROVE  /\ h[r] + Cardinality(Children(d, r)) <= d.uses[r]
             /\ h[r] > 0 => Registered(d, r)
  <2>0. /\ b.uses[r] \in Nat /\ g[r] \in Nat
        /\ g[r] + Cardinality(Children(b, r)) <= b.uses[r]
        /\ g[r] > 0 => Registered(b, r)
        /\ IsFiniteSet(Children(b, r)) /\ Cardinality(Children(b, r)) \in Nat
        /\ Registered(b, r) => Registered(d, r)
    BY BookFields, RegisteredAfter, FS_CardinalityType DEF CountsOf, Sane
  <2>1. CASE l.kind \in {"K", "T", "R", "X"}
    <3>1. d.uses = b.uses /\ h = g
      BY <1>1, <2>1, KeyLineEffect, RevocationEffect DEF Legit, Granted
    <3>2. Children(d, r) = Children(b, r)
      BY <2>1, ChildrenAfter
    <3>. QED
      BY <2>0, <3>1, <3>2
  <2>2. CASE l.kind = "U"
    <3>0. l.receipt \in Receipts
      BY <1>1, <2>2, LineFields
    <3>1. d.uses = [b.uses EXCEPT ![l.receipt] = l.index]
      BY <1>1, <2>2, UseEffect
    <3>2. h = [g EXCEPT ![l.receipt] = @ + 1]
      BY <2>2 DEF Granted
    <3>3. Children(d, r) = Children(b, r)
      BY <2>2, ChildrenAfter
    <3>4. l.index = b.uses[l.receipt] + 1 /\ Registered(b, l.receipt)
      BY <2>2 DEF Legit
    <3>. QED
      BY <2>0, <3>0, <3>1, <3>2, <3>3, <3>4, BookFields
  <2>3. CASE l.kind = "D"
    <3>. DEFINE c == l.receipt
                p == Parent(l.receipt)
    <3>0. c \in Receipts /\ p \in Receipts /\ l.index = b.uses[p] + 1 /\ b.lineage[c] = None
      BY <1>1, <2>3, LineFields, EnvelopeFields DEF Legit
    <3>1. d.uses = [b.uses EXCEPT ![p] = l.index] /\ h = g
      BY <1>1, <2>3, DelegationEffect DEF Legit, Granted
    <3>2. CASE r = p
      <4>1. Children(d, r) = Children(b, r) \cup {c}
        BY <2>3, <3>2, ChildrenAfter
      <4>2. c \notin Children(b, r)
        BY <3>0, AuthorityAssumption DEF Children
      <4>3. Cardinality(Children(d, r)) = Cardinality(Children(b, r)) + 1
        BY <2>0, <4>1, <4>2, FS_AddElement
      <4>. HIDE DEF p, c
      <4>. QED
        BY <2>0, <3>0, <3>1, <3>2, <4>3, BookFields
    <3>3. CASE r # p
      <4>1. Children(d, r) = Children(b, r)
        BY <2>3, <3>3, ChildrenAfter
      <4>. HIDE DEF p, c
      <4>. QED
        BY <2>0, <3>0, <3>1, <3>3, <4>1, BookFields
    <3>. QED
      BY <3>2, <3>3
  <2>. QED
    BY <1>1, <2>1, <2>2, <2>3
<1>3. ASSUME NEW x \in k \cup Struck(l)
      PROVE  /\ x.of \in Receipts => d.revoked[x.of] = x.at
             /\ x.of \in Keys => d.keys[x.of] # None /\ d.keys[x.of].revoked = x.at
  <2>. DEFINE Held(e) ==
                /\ x.of \in Receipts => e.revoked[x.of] = x.at
                /\ x.of \in Keys => e.keys[x.of] # None /\ e.keys[x.of].revoked = x.at
  <2>0. x \in k => Held(b) /\ x.at \in Times
    BY DEF CountsOf, Revocations
  <2>1. CASE l.kind \in {"U", "D"}
    <3>1. d.revoked = b.revoked /\ d.keys = b.keys /\ Struck(l) = {}
      BY <1>1, <2>1, UseEffect, DelegationEffect DEF Legit, Struck
    <3>. QED
      BY <2>0, <3>1
  <2>2. CASE l.kind = "X"
    <3>1. /\ d.revoked = [b.revoked EXCEPT ![l.receipt] = l.at] /\ d.keys = b.keys
          /\ l.receipt \in Receipts /\ b.revoked[l.receipt] = 0
      BY <1>1, <2>2, RevocationEffect, LineFields DEF Legit
    <3>2. CASE x \in k
      BY <2>0, <3>1, <3>2, BookFields, AuthorityAssumption
    <3>3. CASE x = [of |-> l.receipt, at |-> l.at]
      BY <3>1, <3>3, BookFields, AuthorityAssumption
    <3>. QED
      BY <2>2, <3>2, <3>3 DEF Struck
  <2>3. CASE l.kind \in {"K", "T", "R"}
    <3>0. l.key \in Keys
      BY <1>1, <2>3, LineFields
    <3>1. PICK s \in KeyStates :
            /\ s.revoked = CASE l.kind = "K" -> 0
                               [] l.kind = "T" -> b.keys[l.key].revoked
                               [] l.kind = "R" -> l.at
            /\ d.keys = [b.keys EXCEPT ![l.key] = s]
            /\ d.revoked = b.revoked
      BY <1>1, <2>3, KeyLineEffect DEF Legit
    <3>2. d.keys[l.key] = s /\ s # None
      BY <3>0, <3>1, BookFields, AuthorityAssumption
    <3>3. CASE x \in k
      <4>1. CASE x.of = l.key
        <5>1. b.keys[l.key] # None /\ b.keys[l.key].revoked # 0
          BY <2>0, <3>0, <3>3, <4>1, AuthorityAssumption
        <5>2. l.kind = "T"
          BY <2>3, <5>1 DEF Legit
        <5>. QED
          BY <2>0, <3>0, <3>1, <3>2, <3>3, <4>1, <5>2, AuthorityAssumption
      <4>2. CASE x.of # l.key
        BY <2>0, <3>0, <3>1, <3>3, <4>2, BookFields
      <4>. QED
        BY <4>1, <4>2
    <3>4. CASE x \in Struck(l)
      <4>1. l.kind = "R" /\ x.of = l.key /\ x.at = l.at
        BY <2>3, <3>4 DEF Struck
      <4>. QED
        BY <3>0, <3>1, <3>2, <4>1, AuthorityAssumption
    <3>. QED
      BY <3>3, <3>4
  <2>. QED
    BY <1>1, <2>1, <2>2, <2>3
<1>. QED
  BY <1>2, <1>3 DEF CountsOf

\* A book that counts a history counts every shorter one.
LEMMA CountsLess ==
    ASSUME NEW b \in Books, Sane(b),
           NEW g \in [Receipts -> Nat], NEW h \in [Receipts -> Nat], NEW k, NEW m,
           \A r \in Receipts : g[r] <= h[r], k \subseteq m, CountsOf(b, h, m)
    PROVE  CountsOf(b, g, k)
<1>1. ASSUME NEW r \in Receipts
      PROVE  /\ g[r] + Cardinality(Children(b, r)) <= b.uses[r]
             /\ g[r] > 0 => Registered(b, r)
  <2>1. /\ g[r] <= h[r] /\ g[r] \in Nat /\ h[r] \in Nat
        /\ Cardinality(Children(b, r)) \in Nat /\ b.uses[r] \in Nat
    BY FS_CardinalityType, BookFields DEF Sane
  <2>2. /\ h[r] + Cardinality(Children(b, r)) <= b.uses[r]
        /\ h[r] > 0 => Registered(b, r)
    BY DEF CountsOf
  <2>. QED
    BY <2>1, <2>2
<1>. QED
  BY <1>1 DEF CountsOf

LEMMA CostTyped ==
    /\ Cost \in [Receipts -> Nat]
    /\ \A c \in Receipts : Cost[c] = 1 + Envelope[c].max
BY EnvelopeFields DEF Cost

LEMMA CoversAfter ==
    ASSUME NEW b \in Books, NEW l, Legit(b, l), Sane(b),
           NEW g \in [Receipts -> Nat], Covers(b, g)
    PROVE  Covers(After(b, l), Granted(g, l))
<1>. DEFINE d == After(b, l)
            h == Granted(g, l)
<1>1. l \in Lines /\ l.kind \in {"K", "T", "R", "X", "U", "D"} /\ d \in Books
  BY LineFields, AfterEffect DEF Legit
<1>2. ASSUME NEW r \in Receipts
      PROVE  h[r] + SumFunctionOnSet(Cost, Children(d, r)) <= d.uses[r] + d.reserved[r]
  <2>0. /\ b.uses[r] \in Nat /\ b.reserved[r] \in Nat /\ g[r] \in Nat
        /\ g[r] + SumFunctionOnSet(Cost, Children(b, r)) <= b.uses[r] + b.reserved[r]
        /\ IsFiniteSet(Children(b, r)) /\ Children(b, r) \in SUBSET Receipts
    BY BookFields DEF Covers, Sane, Children
  <2>1. PICK n \in Nat : n = SumFunctionOnSet(Cost, Children(b, r))
    BY <2>0, CostTyped, SumLaws
  <2>2. CASE l.kind \in {"K", "T", "R", "X"}
    <3>1. d.uses = b.uses /\ d.reserved = b.reserved /\ h = g
      BY <1>1, <2>2, KeyLineEffect, RevocationEffect DEF Legit, Granted
    <3>2. Children(d, r) = Children(b, r)
      BY <2>2, ChildrenAfter
    <3>. QED
      BY <2>0, <3>1, <3>2
  <2>3. CASE l.kind = "U"
    <3>1. /\ d.uses = [b.uses EXCEPT ![l.receipt] = l.index]
          /\ d.reserved = b.reserved
          /\ h = [g EXCEPT ![l.receipt] = @ + 1]
          /\ l.receipt \in Receipts /\ l.index = b.uses[l.receipt] + 1
      BY <1>1, <2>3, UseEffect, LineFields DEF Granted, Legit
    <3>2. Children(d, r) = Children(b, r)
      BY <2>3, ChildrenAfter
    <3>3. h[r] + n <= d.uses[r] + d.reserved[r]
      BY <2>0, <2>1, <3>1, BookFields
    <3>. QED
      BY <2>1, <3>2, <3>3
  <2>4. CASE l.kind = "D"
    <3>. DEFINE c == l.receipt
                p == Parent(l.receipt)
    <3>0. c \in Receipts /\ p \in Receipts /\ l.index = b.uses[p] + 1 /\ b.lineage[c] = None
      BY <1>1, <2>4, LineFields, EnvelopeFields DEF Legit
    <3>1. /\ d.uses = [b.uses EXCEPT ![p] = l.index]
          /\ d.reserved = [b.reserved EXCEPT ![p] = @ + Envelope[c].max]
          /\ h = g
      BY <1>1, <2>4, DelegationEffect DEF Legit, Granted
    <3>2. CASE r = p
      <4>1. Children(d, r) = Children(b, r) \cup {c} /\ c \in Receipts \ Children(b, r)
        BY <2>4, <3>0, <3>2, ChildrenAfter, AuthorityAssumption DEF Children
      <4>2. SumFunctionOnSet(Cost, Children(d, r)) = n + Cost[c]
        BY <2>0, <2>1, <4>1, CostTyped, SumLaws
      <4>3. Cost[c] = 1 + Envelope[c].max /\ Envelope[c].max \in Nat
        BY <3>0, CostTyped, EnvelopeFields
      <4>4. d.uses[r] = b.uses[r] + 1 /\ d.reserved[r] = b.reserved[r] + Envelope[c].max
        BY <3>0, <3>1, <3>2, BookFields
      <4>. HIDE DEF p, c
      <4>. QED
        BY <2>0, <2>1, <3>1, <4>2, <4>3, <4>4
    <3>3. CASE r # p
      <4>1. Children(d, r) = Children(b, r)
        BY <2>4, <3>3, ChildrenAfter
      <4>2. d.uses[r] = b.uses[r] /\ d.reserved[r] = b.reserved[r]
        BY <3>0, <3>1, <3>3, BookFields
      <4>. QED
        BY <2>0, <3>1, <4>1, <4>2
    <3>. QED
      BY <3>2, <3>3
  <2>. QED
    BY <1>1, <2>2, <2>3, <2>4
<1>. QED
  BY <1>2 DEF Covers

LEMMA CoversLess ==
    ASSUME NEW b \in Books, Sane(b),
           NEW g \in [Receipts -> Nat], NEW h \in [Receipts -> Nat],
           \A r \in Receipts : g[r] <= h[r], Covers(b, h)
    PROVE  Covers(b, g)
<1>1. ASSUME NEW r \in Receipts
      PROVE  g[r] + SumFunctionOnSet(Cost, Children(b, r)) <= b.uses[r] + b.reserved[r]
  <2>1. /\ g[r] <= h[r] /\ g[r] \in Nat /\ h[r] \in Nat
        /\ b.uses[r] \in Nat /\ b.reserved[r] \in Nat
        /\ h[r] + SumFunctionOnSet(Cost, Children(b, r)) <= b.uses[r] + b.reserved[r]
    BY BookFields DEF Covers
  <2>2. IsFiniteSet(Children(b, r)) /\ Children(b, r) \in SUBSET Receipts
    BY DEF Sane, Children
  <2>3. SumFunctionOnSet(Cost, Children(b, r)) \in Nat
    BY <2>2, CostTyped, SumLaws
  <2>. QED
    BY <2>1, <2>3
<1>. QED
  BY <1>1 DEF Covers

LEMMA GrantedGrows ==
    ASSUME NEW g \in [Receipts -> Nat], NEW l \in Lines
    PROVE  /\ Granted(g, l) \in [Receipts -> Nat]
           /\ \A r \in Receipts : g[r] <= Granted(g, l)[r]
BY LineFields DEF Granted

LEMMA GoodAfter ==
    ASSUME NEW b \in Books, NEW l, Legit(b, l),
           NEW g \in [Receipts -> Nat], NEW k \in SUBSET Revocations, Good(b, g, k)
    PROVE  /\ Good(After(b, l), Granted(g, l), k \cup Struck(l))
           /\ Good(After(b, l), g, k)
<1>1. /\ Sane(After(b, l))
      /\ CountsOf(After(b, l), Granted(g, l), k \cup Struck(l))
      /\ Covers(After(b, l), Granted(g, l))
  BY SaneAfter, CountsAfter, CoversAfter DEF Good
<1>2. /\ After(b, l) \in Books
      /\ Granted(g, l) \in [Receipts -> Nat]
      /\ \A r \in Receipts : g[r] <= Granted(g, l)[r]
  BY AfterEffect, GrantedGrows DEF Legit
<1>3. CountsOf(After(b, l), g, k) /\ Covers(After(b, l), g)
  BY <1>1, <1>2, CountsLess, CoversLess
<1>. QED
  BY <1>1, <1>3 DEF Good
-----------------------------------------------------------------------------
(* The journal and the memories.                                            *)

LEMMA SpoilEffect ==
    ASSUME NEW b \in Books
    PROVE  Spoil(b) \in Books /\ ~Spoil(b).healthy
BY DEF Spoil, Books

\* The typing of the whole state, with the parts a proof step names.
LEMMA Typed ==
    ASSUME IInv
    PROVE  /\ disk \in Books /\ view \in Books /\ clean \in BOOLEAN
           /\ mem \in [Ledgers -> Books \cup {None}]
           /\ \A i \in Ledgers : mem[i] # None => mem[i] \in Books
           /\ now \in Times /\ shared \in BOOLEAN
           /\ grants \in [Receipts -> Nat]
           /\ issued \in SUBSET Receipts /\ killed \in SUBSET Revocations
BY DEF IInv, AuthorityTypeOK

\* A line a ledger appends counts only if the ledger knows the whole journal.
LEMMA ReplayEffect ==
    ASSUME IInv, NEW i \in Ledgers, mem[i] # None, NEW l, Legit(mem[i], l), clean
    PROVE  /\ ReplayLine(disk, l) \in Books
           /\ ReplayLine(disk, l).healthy =>
                disk.healthy /\ mem[i] = disk /\ ReplayLine(disk, l) = After(disk, l)
<1>1. disk \in Books
  BY Typed
<1>2. CASE ~disk.healthy
  BY <1>1, <1>2 DEF ReplayLine
<1>3. CASE disk.healthy /\ Accepts(disk, l)
  <2>1. l.seq = disk.next /\ l.seq = mem[i].next
    BY <1>3 DEF Accepts, Legit
  <2>2. mem[i] = disk
    BY <2>1, <1>3 DEF IInv, Current
  <2>. QED
    BY <1>1, <1>3, <2>2, AfterEffect DEF ReplayLine
<1>4. CASE disk.healthy /\ ~Accepts(disk, l)
  BY <1>1, <1>4, SpoilEffect DEF ReplayLine
<1>. QED
  BY <1>2, <1>3, <1>4

LEMMA RevocationsTyped ==
    ASSUME NEW l \in Lines
    PROVE  Struck(l) \subseteq Revocations
<1>1. CASE l.kind = "X"
  BY <1>1, LineFields DEF Struck, Revocations
<1>2. CASE l.kind = "R"
  BY <1>2, LineFields DEF Struck, Revocations
<1>. QED
  BY <1>1, <1>2 DEF Struck

LEMMA InitIInv == Init => IInv
<1>. SUFFICES ASSUME Init PROVE IInv
  OBVIOUS
<1>1. 1 \in Nat /\ 0 \in Nat
  OBVIOUS
<1>2. EmptyBook \in Books
  BY DEF EmptyBook, Books
<1>3. AuthorityTypeOK
  BY <1>2 DEF Init, AuthorityTypeOK
<1>4. \A r \in Receipts : Children(EmptyBook, r) = {}
  BY AuthorityAssumption DEF Children, EmptyBook
<1>5. Sane(EmptyBook)
  <2>1. \A r \in Receipts :
            /\ EmptyBook.uses[r] = 0 /\ EmptyBook.reserved[r] = 0
            /\ EmptyBook.lineage[r] = None
    BY DEF EmptyBook
  <2>2. \A r \in Receipts :
            0 + 0 <= Envelope[r].max /\ ~(0 > 0)
    BY EnvelopeFields
  <2>. QED
    BY <1>4, <2>1, <2>2, FS_EmptySet DEF Sane
<1>6. CountsOf(EmptyBook, grants, killed)
  <2>1. /\ grants = [r \in Receipts |-> 0] /\ killed = {}
        /\ \A r \in Receipts : EmptyBook.uses[r] = 0
    BY DEF Init, EmptyBook
  <2>. QED
    BY <1>4, <2>1, FS_EmptySet DEF CountsOf
<1>7. Covers(EmptyBook, grants)
  <2>1. \A r \in Receipts :
            grants[r] = 0 /\ EmptyBook.uses[r] = 0 /\ EmptyBook.reserved[r] = 0
    BY DEF Init, EmptyBook
  <2>2. SumFunctionOnSet(Cost, {}) = 0
    BY CostTyped, SumLaws, FS_EmptySet
  <2>. QED
    BY <1>4, <2>1, <2>2 DEF Covers
<1>. QED
  BY <1>3, <1>5, <1>6, <1>7 DEF IInv, Init, Good, Alone, Running

\* An append that succeeds.
LEMMA AppendIInv ==
    ASSUME IInv, NEW i \in Ledgers, Running(i), NEW l, Legit(mem[i], l), Append(i, l)
    PROVE  IInv'
<1>. DEFINE m == After(mem[i], l)
<1>1. /\ mem[i] # None /\ mem[i].healthy /\ mem[i] \in Books /\ l \in Lines
      /\ m \in Books /\ m.healthy /\ m.next = mem[i].next + 1
  BY Typed, AfterEffect DEF Running, Legit
<1>2. /\ view' = disk' /\ clean' = TRUE /\ now' = now /\ shared' = shared
      /\ mem' = [mem EXCEPT ![i] = m]
      /\ grants' = Granted(grants, l)
      /\ killed' = killed \cup Struck(l)
  BY DEF Append, Granted, Struck
<1>3. /\ disk' \in Books
      /\ disk'.healthy =>
            /\ clean /\ disk.healthy /\ mem[i] = disk
            /\ disk' = m
  <2>1. CASE clean
    BY <2>1, <1>1, ReplayEffect DEF Append
  <2>2. CASE ~clean
    BY <2>2, Typed, SpoilEffect DEF Append
  <2>. QED
    BY <2>1, <2>2
<1>4. mem' \in [Ledgers -> Books \cup {None}] /\ mem'[i] = m
      /\ \A j \in Ledgers \ {i} : mem'[j] = mem[j]
  BY <1>1, <1>2, Typed
<1>5. AuthorityTypeOK'
  <2>1. grants' \in [Receipts -> Nat]
    BY <1>1, <1>2, Typed, GrantedGrows
  <2>2. killed' \subseteq Revocations
    BY <1>1, <1>2, Typed, RevocationsTyped
  <2>3. issued' \subseteq Receipts
    BY <1>1, Typed, LineFields DEF Append
  <2>. QED
    BY <1>2, <1>3, <1>4, <2>1, <2>2, <2>3, Typed DEF AuthorityTypeOK
<1>6. (~shared => Alone)'
  BY <1>1, <1>2, <1>4 DEF IInv, Alone
<1>7. ASSUME disk'.healthy, NEW j \in Ledgers, mem'[j] # None
      PROVE  Current(mem'[j], disk') /\ (~shared' => mem'[j] = disk')
  <2>1. CASE j = i
    BY <1>1, <1>3, <1>4, <1>7, <2>1, BookFields DEF Current
  <2>2. CASE j # i
    <3>1. mem[j] # None /\ mem'[j] = mem[j] /\ mem[j] \in Books
      BY <1>4, <1>7, <2>2, Typed
    <3>2. mem[j].next <= disk.next /\ disk'.next = disk.next + 1 /\ disk \in Books
      BY <1>1, <1>3, <1>7, <3>1, Typed DEF IInv, Current
    <3>3. mem[j].next \in Nat /\ disk.next \in Nat
      BY <3>1, <3>2, BookFields
    <3>4. shared
      BY <1>1, <3>1, <2>2 DEF IInv, Alone
    <3>. QED
      BY <1>2, <3>1, <3>2, <3>3, <3>4 DEF Current
  <2>. QED
    BY <2>1, <2>2
<1>8. Good(mem[i], grants, killed) => Good(m, grants', killed')
  BY <1>1, <1>2, GoodAfter, Typed
<1>9. disk'.healthy => Good(disk', grants', killed')
  BY <1>3, <1>8 DEF IInv
<1>10. ASSUME NEW j \in Ledgers, ~shared', mem'[j] # None
       PROVE  Good(mem'[j], grants', killed')
  <2>1. j = i
    BY <1>1, <1>2, <1>4, <1>10 DEF IInv, Alone
  <2>2. Good(mem[i], grants, killed)
    BY <1>2, <1>10 DEF IInv
  <2>. QED
    BY <1>4, <1>8, <2>1, <2>2
<1>. HIDE DEF m
<1>. QED
  BY <1>2, <1>5, <1>6, <1>7, <1>9, <1>10 DEF IInv, Running

\* An append that fails.
LEMMA AppendFailsIInv ==
    ASSUME IInv, NEW i \in Ledgers, Running(i), NEW l, Legit(mem[i], l), AppendFails(i, l)
    PROVE  IInv'
<1>1. UNCHANGED <<disk, mem, now, shared, grants, issued, killed>>
  BY DEF AppendFails
<1>2. CASE UNCHANGED <<view, clean>>
  BY <1>1, <1>2 DEF IInv, AuthorityTypeOK, Alone, Running
<1>3. ASSUME view' \in Books, view'.healthy => Good(view', grants, killed), clean' = FALSE
      PROVE  IInv'
  BY <1>1, <1>3 DEF IInv, AuthorityTypeOK, Alone, Running
<1>4. CASE view' = Spoil(disk) /\ clean' = FALSE
  BY <1>3, <1>4, SpoilEffect, Typed
<1>5. CASE /\ view' = IF clean THEN ReplayLine(disk, l) ELSE Spoil(disk)
           /\ clean' = FALSE
  <2>1. CASE ~clean
    BY <1>4, <1>5, <2>1
  <2>2. CASE clean
    <3>1. mem[i] # None /\ mem[i] \in Books
      BY Typed DEF Running
    <3>2. /\ view' \in Books
          /\ view'.healthy => disk.healthy /\ mem[i] = disk /\ view' = After(disk, l)
      BY <1>5, <2>2, <3>1, ReplayEffect
    <3>3. view'.healthy => Good(view', grants, killed)
      BY <3>1, <3>2, GoodAfter, Typed DEF IInv
    <3>. QED
      BY <1>3, <1>5, <3>2, <3>3
  <2>. QED
    BY <2>1, <2>2
<1>. QED
  BY <1>2, <1>4, <1>5 DEF AppendFails

LEMMA StartIInv ==
    ASSUME IInv, NEW i \in Ledgers, Start(i)
    PROVE  IInv'
<1>1. /\ mem[i] = None /\ mem' = [mem EXCEPT ![i] = view]
      /\ shared' = (shared \/ \E j \in Ledgers : mem[j] # None)
      /\ UNCHANGED <<disk, view, clean, now, grants, killed>>
  BY DEF Start
<1>2. mem'[i] = view /\ \A j \in Ledgers \ {i} : mem'[j] = mem[j]
  BY <1>1, Typed
<1>3. AuthorityTypeOK'
  <2>1. issued' \subseteq Receipts
    BY Typed DEF Start
  <2>. QED
    BY <1>1, <2>1, Typed DEF AuthorityTypeOK
<1>4. ~shared' => ~shared /\ \A j \in Ledgers \ {i} : mem'[j] = None
  BY <1>1, <1>2, Typed
<1>5. (~shared => Alone)'
  BY <1>4 DEF Alone
<1>6. ASSUME clean', disk'.healthy, NEW j \in Ledgers, mem'[j] # None
      PROVE  Current(mem'[j], disk') /\ (~shared' => mem'[j] = disk')
  <2>1. CASE j = i
    BY <1>1, <1>2, <1>6, <2>1, Typed, BookFields DEF IInv, Current
  <2>2. CASE j # i
    BY <1>1, <1>2, <1>4, <1>6, <2>2 DEF IInv
  <2>. QED
    BY <2>1, <2>2
<1>7. ASSUME NEW j \in Ledgers, ~shared', Running(j)'
      PROVE  Good(mem'[j], grants', killed')
  <2>1. mem'[j] # None /\ mem'[j].healthy
    BY <1>7 DEF Running
  <2>2. mem'[j] = view
    BY <1>2, <1>4, <1>7, <2>1
  <2>. QED
    BY <1>1, <2>1, <2>2 DEF IInv
<1>. QED
  BY <1>1, <1>3, <1>5, <1>6, <1>7 DEF IInv

LEMMA StopIInv ==
    ASSUME IInv, NEW i \in Ledgers, Stop(i)
    PROVE  IInv'
<1>1. \A j \in Ledgers : mem'[j] = mem[j] \/ mem'[j] = None
  BY Typed DEF Stop
<1>2. AuthorityTypeOK'
  BY Typed DEF Stop, AuthorityTypeOK
<1>. QED
  BY <1>1, <1>2 DEF IInv, Alone, Running, Stop
LEMMA WriteIInv ==
    ASSUME IInv, NEW i \in Ledgers, Running(i), NEW l, Legit(mem[i], l), Write(i, l)
    PROVE  IInv'
BY AppendIInv, AppendFailsIInv DEF Write

-----------------------------------------------------------------------------
(* Each operation has reason to write its line.                             *)

\* The line and the operation that wrote it.
Wrote(i, l) == Running(i) /\ Legit(mem[i], l) /\ Write(i, l)

LEMMA TrustKeyWrites ==
    ASSUME IInv, NEW i \in Ledgers, NEW k \in Keys, NEW t \in Times,
           NEW u \in Times \cup {0}, TrustKey(i, k, t, u)
    PROVE  \E l : Wrote(i, l) /\ l.kind = "K"
<1>. DEFINE l == [kind |-> "K", seq |-> mem[i].next, key |-> k, from |-> t, until |-> u]
<1>1. mem[i].next \in Nat
  BY Typed, BookFields DEF TrustKey, Running
<1>2. l \in Lines
  BY <1>1 DEF Lines
<1>3. Legit(mem[i], l)
  BY <1>2 DEF TrustKey, Legit
<1>. QED
  BY <1>3 DEF TrustKey, Wrote

LEMMA RetireKeyWrites ==
    ASSUME IInv, NEW i \in Ledgers, NEW k \in Keys, NEW t \in Times, RetireKey(i, k, t)
    PROVE  \E l : Wrote(i, l) /\ l.kind = "T"
<1>. DEFINE l == [kind |-> "T", seq |-> mem[i].next, key |-> k, at |-> t]
<1>1. mem[i].next \in Nat
  BY Typed, BookFields DEF RetireKey, Running
<1>2. l \in Lines
  BY <1>1 DEF Lines
<1>3. Legit(mem[i], l)
  BY <1>2 DEF RetireKey, Legit
<1>. QED
  BY <1>3 DEF RetireKey, Wrote

LEMMA RevokeKeyWrites ==
    ASSUME IInv, NEW i \in Ledgers, NEW k \in Keys, NEW t \in Times, RevokeKey(i, k, t)
    PROVE  \E l : Wrote(i, l) /\ l.kind = "R"
<1>. DEFINE l == [kind |-> "R", seq |-> mem[i].next, key |-> k, at |-> t]
<1>1. mem[i].next \in Nat
  BY Typed, BookFields DEF RevokeKey, Running
<1>2. l \in Lines
  BY <1>1 DEF Lines
<1>3. Legit(mem[i], l)
  BY <1>2 DEF RevokeKey, Legit
<1>. QED
  BY <1>3 DEF RevokeKey, Wrote

LEMMA RevokeReceiptWrites ==
    ASSUME IInv, NEW i \in Ledgers, NEW r \in Receipts, NEW t \in Times,
           RevokeReceipt(i, r, t)
    PROVE  \E l : Wrote(i, l) /\ l.kind = "X"
<1>. DEFINE l == [kind |-> "X", seq |-> mem[i].next, receipt |-> r, at |-> t]
<1>1. mem[i].next \in Nat
  BY Typed, BookFields DEF RevokeReceipt, Running
<1>2. l \in Lines
  BY <1>1 DEF Lines
<1>3. Legit(mem[i], l)
  BY <1>2 DEF RevokeReceipt, Legit
<1>. QED
  BY <1>3 DEF RevokeReceipt, Wrote

LEMMA RegisterDelegationWrites ==
    ASSUME IInv, NEW i \in Ledgers, NEW c \in Receipts, RegisterDelegation(i, c)
    PROVE  \E l : Wrote(i, l) /\ l.kind = "D" /\ l.receipt = c
<1>. DEFINE l == [kind |-> "D", seq |-> mem[i].next, receipt |-> c,
                  index |-> mem[i].uses[Parent(c)] + 1]
<1>1. mem[i] \in Books /\ MayDelegate(mem[i], c) /\ Parent(c) \in Receipts
  BY Typed, EnvelopeFields DEF RegisterDelegation, Running, MayDelegate
<1>2. mem[i].next \in Nat /\ mem[i].uses[Parent(c)] + 1 \in Nat
  BY <1>1, BookFields
<1>3. l \in Lines
  BY <1>2 DEF Lines
<1>4. Legit(mem[i], l)
  <2>1. Parent(c) # c
    <3>1. Envelope[c].depth = Envelope[Parent(c)].depth + 1
      BY <1>1 DEF MayDelegate, Attenuates
    <3>2. Envelope[c].depth \in Nat
      BY AuthorityAssumption DEF Envelopes
    <3>. QED
      BY <3>1, <3>2
  <2>. QED
    BY <1>1, <1>3, <2>1 DEF MayDelegate, Legit
<1>. QED
  BY <1>4 DEF RegisterDelegation, Wrote

LEMMA AuthorizeWrites ==
    ASSUME IInv, NEW i \in Ledgers, NEW r \in Receipts, AuthorizeAndConsume(i, r)
    PROVE  \E l : Wrote(i, l) /\ l.kind = "U" /\ l.receipt = r /\ MayUse(mem[i], r)
<1>. DEFINE l == [kind |-> "U", seq |-> mem[i].next, receipt |-> r,
                  index |-> mem[i].uses[r] + 1]
<1>1. mem[i] \in Books /\ MayUse(mem[i], r)
  BY Typed DEF AuthorizeAndConsume, Running
<1>2. mem[i].next \in Nat /\ mem[i].uses[r] + 1 \in Nat
  BY <1>1, BookFields
<1>3. l \in Lines
  BY <1>2 DEF Lines
<1>4. Legit(mem[i], l)
  BY <1>1, <1>3 DEF MayUse, Legit
<1>. QED
  BY <1>1, <1>4 DEF AuthorizeAndConsume, Wrote

\* Whatever happens is a change of the clock, the start or the end of a
\* process, or an operation that writes its line.
LEMMA Steps ==
    ASSUME IInv, Next
    PROVE  \/ \E t \in Times : Clock(t)
           \/ \E i \in Ledgers : Start(i) \/ Stop(i)
           \/ \E i \in Ledgers, l \in Lines :
                /\ Wrote(i, l)
                /\ l.kind = "U" => MayUse(mem[i], l.receipt)
<1>1. \A i, l : Wrote(i, l) => l \in Lines
  BY DEF Wrote, Legit
<1>. QED
  BY <1>1, TrustKeyWrites, RetireKeyWrites, RevokeKeyWrites, RevokeReceiptWrites,
     RegisterDelegationWrites, AuthorizeWrites DEF Next

LEMMA NextIInv == IInv /\ [Next]_vars => IInv'
<1>. SUFFICES ASSUME IInv, [Next]_vars PROVE IInv'
  OBVIOUS
<1>1. CASE UNCHANGED vars
  BY <1>1 DEF vars, IInv, AuthorityTypeOK, Alone, Running
<1>2. ASSUME NEW t \in Times, Clock(t) PROVE IInv'
  BY <1>2 DEF Clock, IInv, AuthorityTypeOK, Alone, Running
<1>3. ASSUME NEW i \in Ledgers, NEW l \in Lines, Wrote(i, l) PROVE IInv'
  BY <1>3, WriteIInv DEF Wrote
<1>. QED
  BY <1>1, <1>2, <1>3, Steps, StartIInv, StopIInv

-----------------------------------------------------------------------------
(* The theorems.                                                            *)

THEOREM Invariant == Spec => []IInv
BY InitIInv, NextIInv, PTL DEF Spec

\* The maps of every ledger keep their types, whatever it replays.
THEOREM TypeCorrect == Spec => []AuthorityTypeOK
<1>1. IInv => AuthorityTypeOK
  BY DEF IInv
<1>. QED
  BY <1>1, Invariant, PTL

\* A restart changes nothing: the memory of a ledger is the replay of its
\* journal.
THEOREM RestartChangesNothing == Spec => []MemoryIsJournal
<1>1. IInv => MemoryIsJournal
  BY DEF IInv, MemoryIsJournal
<1>. QED
  BY <1>1, Invariant, PTL

LEMMA KnownGood ==
    ASSUME IInv, NEW b \in Known
    PROVE  b \in Books /\ Good(b, grants, killed)
<1>1. CASE b = view /\ view.healthy
  BY <1>1, Typed DEF IInv
<1>2. CASE \E i \in Ledgers : ~shared /\ Running(i) /\ b = mem[i]
  BY <1>2, Typed DEF IInv, Running
<1>. QED
  BY <1>1, <1>2 DEF Known

\* Durable before side effects: what was ALLOWED is in every book a decision
\* can be taken from.
THEOREM NothingForgotten == Spec => []AcknowledgedCounts
<1>1. IInv => AcknowledgedCounts
  BY KnownGood DEF AcknowledgedCounts, Good, CountsOf, Counts
<1>. QED
  BY <1>1, Invariant, PTL

\* The signed number of uses bounds what is used, delegated and reserved.
THEOREM BudgetIsKept == Spec => []BudgetKept
<1>1. ASSUME IInv, NEW b \in Known, NEW r \in Receipts
      PROVE  grants[r] + Cardinality(Children(b, r)) + b.reserved[r] <= Envelope[r].max
  <2>1. /\ grants[r] + Cardinality(Children(b, r)) <= b.uses[r]
        /\ b.uses[r] + b.reserved[r] <= Envelope[r].max
        /\ IsFiniteSet(Children(b, r)) /\ b \in Books
    BY <1>1, KnownGood DEF Good, CountsOf, Sane
  <2>2. /\ grants[r] \in Nat /\ Cardinality(Children(b, r)) \in Nat
        /\ b.uses[r] \in Nat /\ b.reserved[r] \in Nat /\ Envelope[r].max \in Nat
    BY <1>1, <2>1, FS_CardinalityType, BookFields, EnvelopeFields, Typed
  <2>. QED
    BY <2>1, <2>2
<1>2. IInv => BudgetKept
  BY <1>1 DEF BudgetKept
<1>. QED
  BY <1>2, Invariant, PTL

\* Where no child repeats the nonce of its parent, a nonce is consumed by one
\* receipt only.  (Where one does, both are: the run SharedNonce.)
THEOREM NonceConsumedOnce ==
    ASSUME DistinctNonces
    PROVE  Spec => []OneReceiptPerNonce
<1>1. ASSUME IInv PROVE OneReceiptPerNonce
  <2>1. ASSUME NEW b \in Known, NEW r \in Receipts, b.uses[r] > 0
        PROVE  b.bound[Envelope[r].nonce] = r
    BY <1>1, <2>1, KnownGood DEF Good, Sane
  <2>. QED
    BY <2>1 DEF OneReceiptPerNonce
<1>. QED
  BY <1>1, Invariant, PTL

\* The receipts above r in the signed chain are above it in the book of any
\* ledger that has it registered.
LEMMA SignedAbove ==
    ASSUME NEW b, Sane(b), NEW r \in Receipts, Registered(b, r)
    PROVE  Above(SignedParents, r) \subseteq Above(b.lineage, r)
<1>. SUFFICES ASSUME NEW a \in Above(SignedParents, r), NEW S \in SUBSET Receipts,
                     Closed(b.lineage, S),
                     b.lineage[r] # None => b.lineage[r] \in S
              PROVE  a \in S
  BY DEF Above
<1>. DEFINE T == {x \in S : Registered(b, x)}
<1>1. \A x \in Receipts : SignedParents[x] = Parent(x)
  BY DEF SignedParents
<1>2. ASSUME NEW x \in Receipts, Registered(b, x), Parent(x) # None,
             b.lineage[x] \in S
      PROVE  Parent(x) \in T
  <2>1. b.lineage[x] = Parent(x)
    BY <1>2 DEF Registered
  <2>2. Registered(b, Parent(x))
    BY <1>2, <2>1 DEF Sane
  <2>. QED
    BY <1>2, <2>1, <2>2
<1>3. Closed(SignedParents, T)
  BY <1>1, <1>2 DEF Closed, Registered
<1>4. SignedParents[r] # None => SignedParents[r] \in T
  BY <1>1, <1>2 DEF Registered
<1>5. T \in SUBSET Receipts
  OBVIOUS
<1>6. a \in T
  BY <1>3, <1>4, <1>5 DEF Above
<1>. QED
  BY <1>6

\* No use is ALLOWED against an acknowledged revocation that is in effect.
THEOREM RevocationsHold == Spec => RevocationHonored
<1>. DEFINE Step ==
        \A r \in Receipts :
            grants'[r] > grants[r] /\ (~shared \/ view'.healthy) =>
                \A k \in killed :
                    k.of \in {r, Envelope[r].key} \cup Above(SignedParents, r) =>
                        ~InEffect(k.at)
<1>1. ASSUME IInv, Next, NEW r \in Receipts, grants'[r] > grants[r],
             ~shared \/ view'.healthy,
             NEW k \in killed,
             k.of \in {r, Envelope[r].key} \cup Above(SignedParents, r)
      PROVE  ~InEffect(k.at)
  <2>1. ~(grants' = grants)
    BY <1>1, Typed
  <2>2. PICK i \in Ledgers, l \in Lines :
            Wrote(i, l) /\ (l.kind = "U" => MayUse(mem[i], l.receipt))
    BY <1>1, <2>1, Steps DEF Clock, Start, Stop
  <2>3. Append(i, l)
    BY <2>1, <2>2 DEF Wrote, Write, AppendFails
  <2>4. l.kind = "U" /\ l.receipt = r /\ MayUse(mem[i], r)
    BY <1>1, <2>1, <2>2, <2>3, Typed, LineFields DEF Append
  <2>5. mem[i] # None /\ mem[i] \in Books /\ Running(i) /\ Legit(mem[i], l)
    BY <1>1, <2>2, Typed DEF Wrote, Running
  <2>6. Good(mem[i], grants, killed)
    <3>1. CASE ~shared
      BY <1>1, <2>5, <3>1 DEF IInv
    <3>2. CASE view'.healthy
      <4>1. disk'.healthy
        BY <3>2, <2>3 DEF Append
      <4>2. clean
        BY <1>1, <4>1, <2>3, SpoilEffect, Typed DEF Append
      <4>3. disk.healthy /\ mem[i] = disk
        BY <1>1, <4>1, <4>2, <2>3, <2>5, ReplayEffect DEF Append
      <4>. QED
        BY <1>1, <4>3 DEF IInv
    <3>. QED
      BY <1>1, <3>1, <3>2
  <2>7. /\ k.of \in Receipts => mem[i].revoked[k.of] = k.at
        /\ k.of \in Keys => mem[i].keys[k.of].revoked = k.at
    BY <2>6 DEF Good, CountsOf
  <2>8. CASE k.of = r
    BY <2>4, <2>7, <2>8 DEF MayUse, RevokedHere
  <2>9. CASE k.of = Envelope[r].key
    BY <2>4, <2>7, <2>9, EnvelopeFields DEF MayUse, KeyAdmits
  <2>10. CASE k.of \in Above(SignedParents, r)
    <3>1. k.of \in Above(mem[i].lineage, r)
      BY <2>4, <2>6, <2>10, SignedAbove DEF MayUse, Good
    <3>2. k.of \in Receipts
      BY <3>1 DEF Above
    <3>. QED
      BY <2>4, <2>7, <3>1, <3>2 DEF MayUse, RevokedHere
  <2>. QED
    BY <1>1, <2>8, <2>9, <2>10
<1>2. ASSUME IInv, UNCHANGED vars, NEW r \in Receipts
      PROVE  ~(grants'[r] > grants[r])
  BY <1>2, Typed DEF vars
<1>3. IInv /\ [Next]_vars => [Step]_vars
  BY <1>1, <1>2
<1>. QED
  BY <1>3, Invariant, PTL DEF Spec, RevocationHonored
-----------------------------------------------------------------------------
(* The abstract budget.                                                     *)

Lineage(b) == {c \in Receipts : b.lineage[c] # None}

\* The delegations that were taken for registered are those of the journal.  A
\* delegation whose line arrived without its newline is in the view alone,
\* until a ledger starts from it.
Issues ==
    /\ clean /\ disk.healthy => issued = Lineage(disk)
    /\ view.healthy =>
        /\ issued \subseteq Lineage(view)
        /\ \E c \in Receipts \cup {None} : Lineage(view) \subseteq issued \cup {c}
    /\ \A i \in Ledgers : ~shared /\ Running(i) => issued = Lineage(mem[i])

LEMMA LineageAfter ==
    ASSUME NEW b \in Books, NEW l, Legit(b, l)
    PROVE  Lineage(After(b, l)) =
              IF l.kind = "D" THEN Lineage(b) \cup {l.receipt} ELSE Lineage(b)
<1>1. CASE l.kind = "D"
  <2>1. l.receipt \in Receipts /\ Parent(l.receipt) # None
    BY <1>1, LineFields DEF Legit
  <2>. QED
    BY <1>1, <2>1, RegisteredAfter DEF Lineage
<1>2. CASE l.kind # "D"
  BY <1>2, RegisteredAfter DEF Lineage
<1>. QED
  BY <1>1, <1>2

LEMMA InitIssues == Init => Issues
<1>. SUFFICES ASSUME Init PROVE Issues
  OBVIOUS
<1>1. Lineage(EmptyBook) = {}
  BY DEF Lineage, EmptyBook
<1>. QED
  BY <1>1 DEF Init, Issues, Running

LEMMA AppendIssues ==
    ASSUME IInv, Issues, NEW i \in Ledgers, Running(i), NEW l, Legit(mem[i], l),
           Append(i, l)
    PROVE  Issues'
<1>. DEFINE m == After(mem[i], l)
            new == IF l.kind = "D" THEN {l.receipt} ELSE {}
<1>1. /\ mem[i] # None /\ mem[i].healthy /\ mem[i] \in Books
      /\ Lineage(m) = Lineage(mem[i]) \cup new
  BY Typed, LineageAfter DEF Running
<1>2. /\ view' = disk' /\ shared' = shared /\ mem' = [mem EXCEPT ![i] = m]
      /\ issued' = issued \cup new
  BY DEF Append
<1>3. disk'.healthy => clean /\ disk.healthy /\ mem[i] = disk /\ disk' = m
  <2>1. CASE clean
    BY <2>1, <1>1, ReplayEffect DEF Append
  <2>2. CASE ~clean
    BY <2>2, Typed, SpoilEffect DEF Append
  <2>. QED
    BY <2>1, <2>2
<1>4. mem'[i] = m /\ \A j \in Ledgers \ {i} : mem'[j] = mem[j]
  BY <1>2, Typed
<1>. HIDE DEF m, new
<1>5. disk'.healthy => issued' = Lineage(disk')
  BY <1>1, <1>2, <1>3 DEF Issues
<1>6. ASSUME NEW j \in Ledgers, ~shared', Running(j)' PROVE issued' = Lineage(mem'[j])
  <2>1. j = i
    BY <1>1, <1>2, <1>4, <1>6 DEF IInv, Alone, Running
  <2>2. issued = Lineage(mem[i])
    BY <1>2, <1>6 DEF Issues
  <2>. QED
    BY <1>1, <1>2, <1>4, <2>1, <2>2
<1>. QED
  BY <1>2, <1>5, <1>6 DEF Issues

LEMMA AppendFailsIssues ==
    ASSUME IInv, Issues, NEW i \in Ledgers, Running(i), NEW l, Legit(mem[i], l),
           AppendFails(i, l)
    PROVE  Issues'
<1>1. UNCHANGED <<disk, mem, shared, issued>>
  BY DEF AppendFails
<1>2. CASE UNCHANGED <<view, clean>>
  BY <1>1, <1>2 DEF Issues, Running
<1>3. ASSUME view'.healthy =>
                /\ issued \subseteq Lineage(view')
                /\ \E c \in Receipts \cup {None} : Lineage(view') \subseteq issued \cup {c},
             clean' = FALSE
      PROVE  Issues'
  BY <1>1, <1>3 DEF Issues, Running
<1>4. CASE view' = Spoil(disk) /\ clean' = FALSE
  BY <1>3, <1>4, SpoilEffect, Typed
<1>5. CASE /\ view' = IF clean THEN ReplayLine(disk, l) ELSE Spoil(disk)
           /\ clean' = FALSE
  <2>1. CASE ~clean
    BY <1>4, <1>5, <2>1
  <2>2. CASE clean
    <3>1. mem[i] # None /\ mem[i] \in Books
      BY Typed DEF Running
    <3>2. view'.healthy => disk.healthy /\ mem[i] = disk /\ view' = After(disk, l)
      BY <1>5, <2>2, <3>1, ReplayEffect
    <3>3. ASSUME view'.healthy
          PROVE  /\ issued \subseteq Lineage(view')
                 /\ \E c \in Receipts \cup {None} : Lineage(view') \subseteq issued \cup {c}
      <4>1. issued = Lineage(disk) /\ Legit(disk, l) /\ disk \in Books
        BY <2>2, <3>1, <3>2, <3>3 DEF Issues
      <4>2. Lineage(view') = IF l.kind = "D" THEN issued \cup {l.receipt} ELSE issued
        BY <3>2, <3>3, <4>1, LineageAfter
      <4>3. l.kind = "D" => l.receipt \in Receipts
        BY <4>1, LineFields DEF Legit
      <4>. QED
        BY <4>2, <4>3
    <3>. QED
      BY <1>3, <1>5, <3>3
  <2>. QED
    BY <2>1, <2>2
<1>. QED
  BY <1>2, <1>4, <1>5 DEF AppendFails

LEMMA StartIssues ==
    ASSUME IInv, Issues, NEW i \in Ledgers, Start(i)
    PROVE  Issues'
<1>1. /\ mem[i] = None /\ mem' = [mem EXCEPT ![i] = view]
      /\ shared' = (shared \/ \E j \in Ledgers : mem[j] # None)
      /\ UNCHANGED <<disk, view, clean>>
      /\ issued' = IF view.healthy THEN issued \cup Lineage(view) ELSE issued
  BY DEF Start, Lineage
<1>2. mem'[i] = view /\ \A j \in Ledgers \ {i} : mem'[j] = mem[j]
  BY <1>1, Typed
<1>3. view.healthy => issued' = Lineage(view)
  BY <1>1 DEF Issues
<1>4. clean /\ disk.healthy => issued' = Lineage(disk)
  BY <1>3 DEF IInv
<1>5. view.healthy => \E c \in Receipts \cup {None} : Lineage(view) \subseteq issued' \cup {c}
  BY <1>3
<1>6. ASSUME NEW j \in Ledgers, ~shared', Running(j)' PROVE issued' = Lineage(mem'[j])
  <2>1. mem'[j] # None /\ mem'[j].healthy
    BY <1>6 DEF Running
  <2>2. mem'[j] = view
    BY <1>1, <1>2, <1>6, <2>1
  <2>. QED
    BY <1>3, <2>1, <2>2
<1>. QED
  BY <1>1, <1>3, <1>4, <1>5, <1>6 DEF Issues

LEMMA NextIssues == IInv /\ Issues /\ [Next]_vars => Issues'
<1>. SUFFICES ASSUME IInv, Issues, [Next]_vars PROVE Issues'
  OBVIOUS
<1>1. CASE UNCHANGED vars
  BY <1>1 DEF vars, Issues, Running
<1>2. ASSUME NEW t \in Times, Clock(t) PROVE Issues'
  BY <1>2 DEF Clock, Issues, Running
<1>3. ASSUME NEW i \in Ledgers, Stop(i) PROVE Issues'
  <2>1. \A j \in Ledgers : mem'[j] = mem[j] \/ mem'[j] = None
    BY <1>3, Typed DEF Stop
  <2>. QED
    BY <1>3, <2>1 DEF Stop, Issues, Running
<1>4. ASSUME NEW i \in Ledgers, NEW l \in Lines, Wrote(i, l) PROVE Issues'
  BY <1>4, AppendIssues, AppendFailsIssues DEF Wrote, Write
<1>. QED
  BY <1>1, <1>2, <1>3, <1>4, Steps, StartIssues

\* What the budget has committed of r, read in a book whose delegations are
\* those of the budget.
LEMMA CommittedWithin ==
    ASSUME IInv, NEW b \in Books, Good(b, grants, killed), issued \subseteq Lineage(b),
           NEW r \in Receipts
    PROVE  /\ Children(b, r) = {c \in Lineage(b) : SignedParents[c] = r}
           /\ Budget!Committed(r) \in Nat
           /\ Budget!Committed(r) <= b.uses[r] + b.reserved[r]
           /\ \A c \in Receipts : SignedParents[c] = r /\ Lineage(b) = issued \cup {c}
                                    /\ c \notin issued =>
                Budget!Committed(r) + 1 + Envelope[c].max <= b.uses[r] + b.reserved[r]
<1>. DEFINE K == {c \in issued : SignedParents[c] = r}
<1>1. /\ Budget!Cost = Cost
      /\ Budget!Committed(r) = grants[r] + SumFunctionOnSet(Cost, K)
  <2>1. \A c \in Receipts :
            1 + [x \in Receipts |-> Envelope[x].max][c] = 1 + Envelope[c].max
    OBVIOUS
  <2>2. Budget!Cost = Cost
    BY <2>1 DEF Budget!Cost, Cost
  <2>3. Budget!Committed(r) = grants[r] + SumFunctionOnSet(Budget!Cost, K)
    <3>1. Budget!SumFunctionOnSet(Budget!Cost, K) = SumFunctionOnSet(Budget!Cost, K)
      BY DEF Budget!SumFunctionOnSet, Budget!FoldFunctionOnSet, Budget!MapThenFoldSet,
             SumFunctionOnSet, FoldFunctionOnSet, MapThenFoldSet
    <3>. QED
      BY <3>1 DEF Budget!Committed
  <2>. QED
    BY <2>2, <2>3
<1>2. \A c \in Receipts : SignedParents[c] = Parent(c)
  BY DEF SignedParents
<1>3. Children(b, r) = {c \in Lineage(b) : SignedParents[c] = r}
  <2>1. ASSUME NEW c \in Receipts
        PROVE  b.lineage[c] = r <=> (b.lineage[c] # None /\ SignedParents[c] = r)
    <3>1. b.lineage[c] # None => b.lineage[c] = Parent(c)
      BY DEF Good, Sane
    <3>2. r # None
      BY AuthorityAssumption
    <3>3. SignedParents[c] = Parent(c)
      BY <1>2
    <3>. QED
      BY ONLY <3>1, <3>2, <3>3
  <2>. QED
    BY <2>1 DEF Children, Lineage
<1>4. /\ IsFiniteSet(Children(b, r)) /\ Children(b, r) \in SUBSET Receipts
      /\ K \in SUBSET Children(b, r)
  BY <1>3 DEF Good, Sane, Children
<1>5. IsFiniteSet(K) /\ K \in SUBSET Receipts
  BY <1>4, FS_Subset
<1>6. /\ SumFunctionOnSet(Cost, K) \in Nat
      /\ SumFunctionOnSet(Cost, Children(b, r)) \in Nat
      /\ SumFunctionOnSet(Cost, K) <= SumFunctionOnSet(Cost, Children(b, r))
  <2>1. \A c \in K : Cost[c] <= Cost[c]
    BY <1>5, CostTyped
  <2>. HIDE DEF K
  <2>. QED
    BY <1>4, <1>5, <2>1, CostTyped, SumLaws, SumGrows
<1>7. /\ grants[r] + SumFunctionOnSet(Cost, Children(b, r)) <= b.uses[r] + b.reserved[r]
      /\ grants[r] \in Nat /\ b.uses[r] \in Nat /\ b.reserved[r] \in Nat
  BY BookFields, Typed DEF Good, Covers
<1>8. ASSUME NEW c \in Receipts, SignedParents[c] = r, Lineage(b) = issued \cup {c},
             c \notin issued
      PROVE  Budget!Committed(r) + 1 + Envelope[c].max <= b.uses[r] + b.reserved[r]
  <2>1. Children(b, r) = K \cup {c} /\ c \in Receipts \ K
    BY <1>3, <1>8
  <2>. HIDE DEF K
  <2>2. SumFunctionOnSet(Cost, Children(b, r)) = SumFunctionOnSet(Cost, K) + Cost[c]
    BY <1>5, <2>1, CostTyped, SumLaws
  <2>3. Cost[c] = 1 + Envelope[c].max /\ Envelope[c].max \in Nat
    BY CostTyped, EnvelopeFields
  <2>. QED
    BY <1>1, <1>6, <1>7, <2>2, <2>3
<1>. QED
  BY <1>1, <1>3, <1>6, <1>7, <1>8

\* A receipt that a book has registered is known to the budget.
LEMMA RegisteredKnown ==
    ASSUME NEW b, NEW r \in Receipts, Registered(b, r)
    PROVE  /\ SignedParents[r] # None => r \in Lineage(b)
           /\ Lineage(b) \subseteq issued => Budget!Known(r)
BY DEF Registered, Lineage, SignedParents, Budget!Known

LEMMA UseRefines ==
    ASSUME IInv, Issues, ~shared, NEW i \in Ledgers, Running(i), NEW l, Legit(mem[i], l),
           Append(i, l), l.kind = "U"
    PROVE  \E r \in Receipts : Budget!Use(r)
<1>. DEFINE r == l.receipt
            b == mem[i]
<1>1. b \in Books /\ Good(b, grants, killed) /\ issued = Lineage(b) /\ r \in Receipts
  BY Typed, LineFields DEF IInv, Issues, Running, Legit
<1>2. Registered(b, r) /\ b.uses[r] + b.reserved[r] < Envelope[r].max
  BY DEF Legit
<1>3. Budget!Committed(r) \in Nat /\ Budget!Committed(r) <= b.uses[r] + b.reserved[r]
  BY <1>1, CommittedWithin
<1>4. Budget!Known(r)
  BY <1>1, <1>2, RegisteredKnown
<1>5. Budget!Committed(r) + 1 <= [x \in Receipts |-> Envelope[x].max][r]
  BY <1>1, <1>2, <1>3, BookFields, EnvelopeFields
<1>6. grants' = [grants EXCEPT ![r] = @ + 1] /\ issued' = issued
  BY DEF Append
<1>. QED
  BY <1>1, <1>4, <1>5, <1>6 DEF Budget!Use

LEMMA DelegateRefines ==
    ASSUME IInv, Issues, ~shared, NEW i \in Ledgers, Running(i), NEW l, Legit(mem[i], l),
           Append(i, l), l.kind = "D"
    PROVE  \E c \in Receipts : Budget!Delegate(c)
<1>. DEFINE c == l.receipt
            p == Parent(c)
            b == mem[i]
<1>1. b \in Books /\ Good(b, grants, killed) /\ issued = Lineage(b) /\ c \in Receipts
  BY Typed, LineFields DEF IInv, Issues, Running, Legit
<1>2. /\ p \in Receipts /\ Registered(b, p) /\ c \notin issued
      /\ b.uses[p] + b.reserved[p] + 1 + Envelope[c].max <= Envelope[p].max
  BY <1>1, EnvelopeFields DEF Legit, Lineage
<1>3. Budget!Committed(p) \in Nat /\ Budget!Committed(p) <= b.uses[p] + b.reserved[p]
  BY <1>1, <1>2, CommittedWithin
<1>4. Budget!Known(p)
  BY <1>1, <1>2, RegisteredKnown
<1>5. Budget!Committed(p) + 1 + [x \in Receipts |-> Envelope[x].max][c]
            <= [x \in Receipts |-> Envelope[x].max][p]
  BY <1>1, <1>2, <1>3, BookFields, EnvelopeFields
<1>6. grants' = grants /\ issued' = issued \cup {c}
  BY DEF Append
<1>7. SignedParents[c] = p /\ p # None
  BY <1>1, <1>2, AuthorityAssumption DEF SignedParents
<1>. HIDE DEF p, c
<1>. QED
  BY <1>1, <1>2, <1>4, <1>5, <1>6, <1>7 DEF Budget!Delegate

\* A ledger that starts may learn of one delegation nobody was told of.
LEMMA StartRefines ==
    ASSUME IInv, Issues, NEW i \in Ledgers, Start(i)
    PROVE  (\E c \in Receipts : Budget!Delegate(c)) \/ UNCHANGED <<grants, issued>>
<1>1. grants' = grants /\ issued' = IF view.healthy THEN issued \cup Lineage(view) ELSE issued
  BY DEF Start, Lineage
<1>2. SUFFICES ASSUME view.healthy, ~(Lineage(view) \subseteq issued)
               PROVE  \E c \in Receipts : Budget!Delegate(c)
  BY <1>1
<1>3. PICK c \in Receipts : c \notin issued /\ Lineage(view) = issued \cup {c}
  BY <1>2 DEF Issues, Lineage
<1>. DEFINE p == Parent(c)
<1>4. view \in Books /\ Good(view, grants, killed) /\ issued \subseteq Lineage(view)
  BY <1>2, Typed DEF IInv, Issues
<1>5. /\ view.lineage[c] = p /\ p # None /\ p # c /\ p \in Receipts /\ Registered(view, p)
  BY <1>3, <1>4, EnvelopeFields DEF Good, Sane, Lineage
<1>6. SignedParents[c] = p /\ SignedParents[p] = Parent(p)
  BY <1>5 DEF SignedParents
<1>7. Budget!Committed(p) + 1 + Envelope[c].max <= view.uses[p] + view.reserved[p]
  BY <1>3, <1>4, <1>5, <1>6, CommittedWithin
<1>8. /\ view.uses[p] + view.reserved[p] <= Envelope[p].max
      /\ view.uses[p] \in Nat /\ view.reserved[p] \in Nat /\ Envelope[p].max \in Nat
      /\ Envelope[c].max \in Nat /\ Budget!Committed(p) \in Nat
  BY <1>4, <1>5, BookFields, EnvelopeFields, CommittedWithin DEF Good, Sane
<1>9. Budget!Committed(p) + 1 + [x \in Receipts |-> Envelope[x].max][c]
            <= [x \in Receipts |-> Envelope[x].max][p]
  BY <1>5, <1>7, <1>8
<1>10. Budget!Known(p)
  BY <1>3, <1>4, <1>5, <1>6, RegisteredKnown DEF Budget!Known
<1>11. issued' = issued \cup {c} /\ grants' = grants
  BY <1>1, <1>2, <1>3
<1>. HIDE DEF p
<1>. QED
  BY <1>3, <1>5, <1>6, <1>9, <1>10, <1>11 DEF Budget!Delegate

LEMMA StepRefines ==
    ASSUME IInv, Issues, ~shared, [Next]_vars
    PROVE  [Budget!Next]_(Budget!budget)
<1>1. CASE UNCHANGED vars
  BY <1>1 DEF vars, Budget!budget
<1>2. CASE \E t \in Times : Clock(t)
  BY <1>2 DEF Clock, Budget!budget
<1>3. ASSUME NEW i \in Ledgers, Start(i) PROVE [Budget!Next]_(Budget!budget)
  BY <1>3, StartRefines DEF Budget!Next, Budget!budget
<1>4. ASSUME NEW i \in Ledgers, Stop(i) PROVE [Budget!Next]_(Budget!budget)
  BY <1>4 DEF Stop, Budget!budget
<1>5. ASSUME NEW i \in Ledgers, NEW l \in Lines, Wrote(i, l)
      PROVE  [Budget!Next]_(Budget!budget)
  <2>1. CASE AppendFails(i, l)
    BY <2>1 DEF AppendFails, Budget!budget
  <2>2. CASE Append(i, l) /\ l.kind \notin {"U", "D"}
    BY <2>2 DEF Append, Budget!budget
  <2>3. CASE Append(i, l) /\ l.kind = "U"
    BY <1>5, <2>3, UseRefines DEF Wrote, Budget!Next
  <2>4. CASE Append(i, l) /\ l.kind = "D"
    BY <1>5, <2>4, DelegateRefines DEF Wrote, Budget!Next
  <2>. QED
    BY <1>5, <2>1, <2>2, <2>3, <2>4 DEF Wrote, Write
<1>. QED
  BY <1>1, <1>2, <1>3, <1>4, <1>5, Steps

\* As long as no two ledgers have run at the same time, the ledger implements
\* the abstract budget, across restarts, failed appends and a journal that has
\* become unreadable under the process that runs.
THEOREM BudgetImplemented == Spec /\ []~shared => ImplementsBudget
<1>1. Init => Budget!Init
  BY DEF Init, Budget!Init
<1>2. IInv /\ Issues /\ ~shared /\ [Next]_vars => [Budget!Next]_(Budget!budget)
  BY StepRefines
<1>. QED
  BY <1>1, <1>2, InitIInv, NextIInv, InitIssues, NextIssues, PTL
     DEF Spec, ImplementsBudget, Budget!Spec
=============================================================================
