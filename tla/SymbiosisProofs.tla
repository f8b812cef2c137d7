--------------------------- MODULE SymbiosisProofs --------------------------
(***************************************************************************)
(* Proofs about the symbiosis ledger, for any grants, retention policies,  *)
(* observations, memories and faults, over any number of restarts.         *)
(*                                                                         *)
(* The properties speak of the running ledger and of what a replay would   *)
(* read.  What the next line is appended to is neither: Fits states them   *)
(* of `disk' too.  And a line is harmless because the ledger that wrote it *)
(* agrees with the file it goes to (Agreement), as long as no line of the  *)
(* file is bad.                                                            *)
(***************************************************************************)
EXTENDS SymbiosisLedger, FiniteSetTheorems, SequenceTheorems, TLAPS

Events ==
    [kind : {"G"}, of : Grants]
        \cup [kind : {"R"}, of : Grants, at : Times]
        \cup [kind : {"S"}, of : Observations]
        \cup [kind : {"P", "F"}, of : Memories]

\* Whether the ledger writes a line for an event.
Persistent(e) ==
    /\ e.kind \in {"G", "R"} => Policy[e.of].persist
    /\ e.kind = "S" => Policy[GrantOf[e.of]].stamps
    /\ e.kind \in {"P", "F"} => Policy[GrantOfMemory(e.of)].persist

\* What the operations check in memory before an event.
Asked(e) ==
    /\ mem # None
    /\ e.kind = "G" => mem.grants[e.of] = None
    /\ e.kind = "R" => mem.grants[e.of] = 0 /\ e.at = now
    /\ e.kind = "S" => mem.grants[GrantOf[e.of]] # None
    /\ e.kind = "P" =>
        /\ mem.grants[GrantOfMemory(e.of)] # None
        /\ Policy[GrantOfMemory(e.of)].promote
        /\ Live(mem, e.of) = {}
    /\ e.kind = "F" => CanForget(mem, e.of)

Operation(e) == Asked(e) /\ Perform(e, Persistent(e))

-----------------------------------------------------------------------------
(* The invariant.                                                           *)

\* What a book owes to the revocations and the forgotten memories, and to the
\* grants of its promotions.
Fits(b, rev, forgot, t) ==
    /\ \A m \in Memories :
        b.promotions[m] # <<>> =>
            Policy[GrantOfMemory(m)].promote /\ b.grants[GrantOfMemory(m)] # None
    /\ b.sound =>
        /\ \A g \in rev : b.grants[g] \in Times /\ b.grants[g] <= t
        /\ \A m \in Memories :
            /\ m \in forgot => Live(b, m) = {}
            /\ \A i, j \in Live(b, m) : i = j

\* No line is written for a memory of a grant that is not kept.
Filed(b) ==
    \A m \in Memories : ~Policy[GrantOfMemory(m)].persist => b.promotions[m] = <<>>

Same(a, b) ==
    /\ \A g \in Grants : Policy[g].persist => a.grants[g] = b.grants[g]
    /\ \A g \in Grants : Policy[g].stamps => a.stamps[g] = b.stamps[g]
    /\ \A m \in Memories : Policy[GrantOfMemory(m)].persist => a.promotions[m] = b.promotions[m]

\* Memory and a journal without a bad line agree on what is persistent.
Agreement == clean /\ disk.sound /\ mem # None => mem.sound /\ Same(mem, disk)

IInv ==
    /\ SymbiosisTypeOK
    /\ clean => view = disk
    /\ Agreement
    /\ Filed(disk) /\ Filed(view)
    /\ Fits(disk, revoked, gone, now)
    /\ Fits(view, revoked, gone, now)
    /\ mem # None => Fits(mem, revoked, gone, now)

-----------------------------------------------------------------------------
(* The effect of an event, field by field.                                  *)

\* The stamps that retain_stamp leaves.
LEMMA RetainType ==
    ASSUME NEW o \in Observations, NEW s \in Seq(Observations)
    PROVE  Retain(s, o) \in Seq(Observations)
<1> DEFINE all == Append(s, o)
<1>1. all \in Seq(Observations) /\ all # << >>
  BY AppendProperties
<1>2. Tail(all) \in Seq(Observations)
  BY <1>1, HeadTailProperties
<1> QED BY <1>1, <1>2 DEF Retain

\* Forgetting keeps a memory's promotions a sequence.
LEMMA ForgetType ==
    ASSUME NEW s \in Seq(BOOLEAN), s # << >>
    PROVE  /\ [s EXCEPT ![1] = TRUE] \in Seq(BOOLEAN)
           /\ DOMAIN [s EXCEPT ![1] = TRUE] = DOMAIN s
           /\ 1 \in DOMAIN s
<1>1. 1 \in 1 .. Len(s) /\ DOMAIN s = 1 .. Len(s)
  BY EmptySeq, LenProperties
<1> QED BY <1>1, ExceptSeq

\* Every event makes a book of a book, and this is what it changes.
LEMMA Effects ==
    ASSUME NEW b \in Books, NEW e \in Events,
           e.kind = "F" => CanForget(b, e.of)
    PROVE  /\ After(b, e) \in Books
           /\ After(b, e).sound = b.sound
           /\ \A g \in Grants : After(b, e).grants[g] =
                IF e.kind = "G" /\ e.of = g THEN 0
                ELSE IF e.kind = "R" /\ e.of = g THEN e.at ELSE b.grants[g]
           /\ \A g \in Grants : After(b, e).stamps[g] =
                IF e.kind = "S" /\ GrantOf[e.of] = g THEN Retain(b.stamps[g], e.of)
                ELSE b.stamps[g]
           /\ \A m \in Memories : After(b, e).promotions[m] =
                IF e.kind = "P" /\ e.of = m THEN Append(b.promotions[m], FALSE)
                ELSE IF e.kind = "F" /\ e.of = m THEN [b.promotions[m] EXCEPT ![1] = TRUE]
                ELSE b.promotions[m]
<1>1. /\ b.grants \in [Grants -> Times \cup {0, None}]
      /\ b.stamps \in [Grants -> Seq(Observations)]
      /\ b.promotions \in [Memories -> Seq(BOOLEAN)]
      /\ b.sound \in BOOLEAN
  BY DEF Books
<1>2. CASE e.kind = "G"
  <2>1. e.of \in Grants
    BY <1>2 DEF Events
  <2>2. After(b, e) = [b EXCEPT !.grants[e.of] = 0]
    BY <1>2 DEF After
  <2>3. PICK v : v = [b.grants EXCEPT ![e.of] = 0]
    OBVIOUS
  <2>4. After(b, e) = [b EXCEPT !.grants = v]
    BY <2>2, <2>3
  <2>5. v \in [Grants -> Times \cup {0, None}]
    BY <2>1, <2>3, <1>1
  <2>6. After(b, e) \in Books /\ After(b, e).sound = b.sound /\ After(b, e).grants = v
        /\ After(b, e).stamps = b.stamps /\ After(b, e).promotions = b.promotions
    BY <2>4, <2>5 DEF Books
  <2> QED BY <1>1, <1>2, <2>1, <2>3, <2>6
<1>3. CASE e.kind = "R"
  <2>1. e.of \in Grants /\ e.at \in Times
    BY <1>3 DEF Events
  <2>2. After(b, e) = [b EXCEPT !.grants[e.of] = e.at]
    BY <1>3 DEF After
  <2>3. PICK v : v = [b.grants EXCEPT ![e.of] = e.at]
    OBVIOUS
  <2>4. After(b, e) = [b EXCEPT !.grants = v]
    BY <2>2, <2>3
  <2>5. v \in [Grants -> Times \cup {0, None}]
    BY <2>1, <2>3, <1>1
  <2>6. After(b, e) \in Books /\ After(b, e).sound = b.sound /\ After(b, e).grants = v
        /\ After(b, e).stamps = b.stamps /\ After(b, e).promotions = b.promotions
    BY <2>4, <2>5 DEF Books
  <2> QED BY <1>1, <1>3, <2>1, <2>3, <2>6
<1>4. CASE e.kind = "S"
  <2>1. e.of \in Observations /\ GrantOf[e.of] \in Grants
    BY <1>4, SymbiosisAssumption DEF Events
  <2>2. After(b, e) = [b EXCEPT !.stamps[GrantOf[e.of]] = Retain(@, e.of)]
    BY <1>4 DEF After
  <2>3. PICK v : v = [b.stamps EXCEPT ![GrantOf[e.of]] = Retain(b.stamps[GrantOf[e.of]], e.of)]
    OBVIOUS
  <2>4. After(b, e) = [b EXCEPT !.stamps = v]
    BY <2>2, <2>3
  <2>5. v \in [Grants -> Seq(Observations)]
    BY <2>1, <2>3, <1>1, RetainType
  <2>6. After(b, e) \in Books /\ After(b, e).sound = b.sound /\ After(b, e).stamps = v
        /\ After(b, e).grants = b.grants /\ After(b, e).promotions = b.promotions
    BY <2>4, <2>5 DEF Books
  <2> QED BY <1>1, <1>4, <2>1, <2>3, <2>6
<1>5. CASE e.kind = "P"
  <2>1. e.of \in Memories
    BY <1>5 DEF Events
  <2>2. After(b, e) = [b EXCEPT !.promotions[e.of] = Append(@, FALSE)]
    BY <1>5 DEF After
  <2>3. PICK v : v = [b.promotions EXCEPT ![e.of] = Append(b.promotions[e.of], FALSE)]
    OBVIOUS
  <2>4. After(b, e) = [b EXCEPT !.promotions = v]
    BY <2>2, <2>3
  <2>5. Append(b.promotions[e.of], FALSE) \in Seq(BOOLEAN)
    BY <2>1, <1>1, AppendProperties
  <2>6. v \in [Memories -> Seq(BOOLEAN)]
    BY <2>1, <2>3, <2>5, <1>1
  <2>7. After(b, e) \in Books /\ After(b, e).sound = b.sound /\ After(b, e).promotions = v
        /\ After(b, e).grants = b.grants /\ After(b, e).stamps = b.stamps
    BY <2>4, <2>6 DEF Books
  <2> QED BY <1>1, <1>5, <2>1, <2>3, <2>7
<1>6. CASE e.kind = "F"
  <2>1. e.of \in Memories
    BY <1>6 DEF Events
  <2>2. After(b, e) = [b EXCEPT !.promotions[e.of][1] = TRUE]
    BY <1>6 DEF After
  <2>3. PICK v : v = [b.promotions EXCEPT ![e.of] = [b.promotions[e.of] EXCEPT ![1] = TRUE]]
    OBVIOUS
  <2>4. After(b, e) = [b EXCEPT !.promotions = v]
    BY <2>2, <2>3
  <2>5. b.promotions[e.of] \in Seq(BOOLEAN) /\ b.promotions[e.of] # << >>
    BY <1>6, <2>1, <1>1 DEF CanForget
  <2>6. [b.promotions[e.of] EXCEPT ![1] = TRUE] \in Seq(BOOLEAN)
    BY <2>5, ForgetType
  <2>7. v \in [Memories -> Seq(BOOLEAN)]
    BY <2>1, <2>3, <2>6, <1>1
  <2>8. After(b, e) \in Books /\ After(b, e).sound = b.sound /\ After(b, e).promotions = v
        /\ After(b, e).grants = b.grants /\ After(b, e).stamps = b.stamps
    BY <2>4, <2>7 DEF Books
  <2> QED BY <1>1, <1>6, <2>1, <2>3, <2>8
<1> QED BY <1>2, <1>3, <1>4, <1>5, <1>6 DEF Events

\* A skipped line only spoils the replay's answer.
LEMMA SkipEffects ==
    ASSUME NEW b \in Books
    PROVE  /\ Skip(b) \in Books
           /\ ~Skip(b).sound
           /\ Skip(b).grants = b.grants
           /\ Skip(b).stamps = b.stamps
           /\ Skip(b).promotions = b.promotions
BY DEF Skip, Books

LEMMA ReplayType ==
    ASSUME NEW b \in Books, NEW e \in Events
    PROVE  ReplayEvent(b, e) \in Books
<1>1. CASE Usable(b, e)
  <2>1. e.kind = "F" => CanForget(b, e.of)
    BY <1>1 DEF Usable
  <2> QED BY <1>1, <2>1, Effects DEF ReplayEvent
<1>2. CASE ~Usable(b, e)
  BY <1>2, SkipEffects DEF ReplayEvent
<1> QED BY <1>1, <1>2

-----------------------------------------------------------------------------
(* What the events do to the parts of the invariant.                        *)

LEMMA FitsAfter ==
    ASSUME NEW b \in Books, NEW e \in Events, NEW t \in Times,
           NEW rev \in SUBSET Grants, NEW rev1 \in SUBSET Grants,
           NEW forgot \in SUBSET Memories, NEW forgot1 \in SUBSET Memories,
           Fits(b, rev, forgot, t), Usable(b, e),
           e.kind = "R" => e.at <= t,
           e.kind = "P" =>
               /\ Policy[GrantOfMemory(e.of)].promote
               /\ b.sound => Live(b, e.of) = {}
               /\ e.of \notin forgot1,
           \A g \in rev1 : g \in rev \/ (e.kind = "R" /\ e.of = g),
           \A m \in forgot1 : m \in forgot \/ (e.kind = "F" /\ e.of = m)
    PROVE  Fits(After(b, e), rev1, forgot1, t)
<1>1. e.kind = "F" => CanForget(b, e.of)
  BY DEF Usable
<1>a. PICK c : c = After(b, e)
  OBVIOUS
<1>b. /\ After(b, e).sound = b.sound
      /\ \A g \in Grants : After(b, e).grants[g] =
            IF e.kind = "G" /\ e.of = g THEN 0
            ELSE IF e.kind = "R" /\ e.of = g THEN e.at ELSE b.grants[g]
      /\ \A m \in Memories : After(b, e).promotions[m] =
            IF e.kind = "P" /\ e.of = m THEN Append(b.promotions[m], FALSE)
            ELSE IF e.kind = "F" /\ e.of = m THEN [b.promotions[m] EXCEPT ![1] = TRUE]
            ELSE b.promotions[m]
  BY <1>1, Effects
<1>2. /\ c.sound = b.sound
      /\ \A g \in Grants : c.grants[g] =
            IF e.kind = "G" /\ e.of = g THEN 0
            ELSE IF e.kind = "R" /\ e.of = g THEN e.at ELSE b.grants[g]
      /\ \A m \in Memories : c.promotions[m] =
            IF e.kind = "P" /\ e.of = m THEN Append(b.promotions[m], FALSE)
            ELSE IF e.kind = "F" /\ e.of = m THEN [b.promotions[m] EXCEPT ![1] = TRUE]
            ELSE b.promotions[m]
  BY <1>a, <1>b
<1>3. \A m \in Memories : GrantOfMemory(m) \in Grants
  BY SymbiosisAssumption DEF GrantOfMemory
<1>4. \A g \in Grants : b.grants[g] # None => c.grants[g] # None
  BY <1>2, SymbiosisAssumption DEF Events
<1>5. ASSUME NEW m \in Memories, c.promotions[m] # << >>
      PROVE  Policy[GrantOfMemory(m)].promote /\ c.grants[GrantOfMemory(m)] # None
  <2>1. CASE e.kind = "P" /\ e.of = m
    BY <2>1, <1>3, <1>4 DEF Usable
  <2>2. CASE ~(e.kind = "P" /\ e.of = m)
    <3>1. b.promotions[m] # << >>
      BY <2>2, <1>1, <1>2, <1>5 DEF CanForget
    <3> QED BY <3>1, <1>3, <1>4 DEF Fits
  <2> QED BY <2>1, <2>2
<1>6. ASSUME c.sound, NEW g \in rev1
      PROVE  c.grants[g] \in Times /\ c.grants[g] <= t
  <2>1. b.sound
    BY <1>2, <1>6
  <2>2. CASE e.kind = "R" /\ e.of = g
    BY <2>2, <1>2 DEF Events
  <2>3. CASE ~(e.kind = "R" /\ e.of = g)
    <3>1. b.grants[g] \in Times /\ b.grants[g] <= t
      BY <2>1, <2>3, <1>6 DEF Fits
    <3>2. ~(e.kind = "G" /\ e.of = g)
      BY <3>1, SymbiosisAssumption DEF Usable
    <3> QED BY <2>3, <3>1, <3>2, <1>2
  <2> QED BY <2>2, <2>3
<1>7. ASSUME c.sound, NEW m \in Memories
      PROVE  /\ m \in forgot1 => Live(c, m) = {}
             /\ \A i, j \in Live(c, m) : i = j
  <2>1. /\ b.sound
        /\ b.promotions[m] \in Seq(BOOLEAN)
        /\ m \in forgot => Live(b, m) = {}
        /\ \A i, j \in Live(b, m) : i = j
    BY <1>2, <1>7 DEF Fits, Books
  <2>2. CASE e.kind = "P" /\ e.of = m
    <3>1. Live(b, m) = {} /\ m \notin forgot1 /\ c.promotions[m] = Append(b.promotions[m], FALSE)
      BY <2>1, <2>2, <1>2
    <3>2. \A i \in Live(c, m) : i = Len(b.promotions[m]) + 1
      <4> SUFFICES ASSUME NEW i \in Live(c, m)
                   PROVE  i = Len(b.promotions[m]) + 1
        OBVIOUS
      <4>1. PICK s \in Seq(BOOLEAN) : s = b.promotions[m]
        BY <2>1
      <4>2. i \in DOMAIN Append(s, FALSE) /\ ~Append(s, FALSE)[i]
        BY <3>1, <4>1 DEF Live
      <4>3. i \in 1 .. Len(s) + 1 /\ DOMAIN s = 1 .. Len(s)
        BY <4>2, AppendProperties, LenProperties
      <4>4. i \in 1 .. Len(s) => Append(s, FALSE)[i] = s[i]
        BY AppendProperties
      <4>5. i \notin 1 .. Len(s)
        BY <3>1, <4>1, <4>2, <4>3, <4>4 DEF Live
      <4> QED BY <4>1, <4>3, <4>5, LenProperties
    <3> QED BY <3>1, <3>2
  <2>3. CASE e.kind = "F" /\ e.of = m
    <3>1. /\ c.promotions[m] = [b.promotions[m] EXCEPT ![1] = TRUE]
          /\ b.promotions[m] # << >> /\ ~b.promotions[m][1]
      BY <2>3, <1>1, <1>2 DEF CanForget
    <3>2. DOMAIN c.promotions[m] = DOMAIN b.promotions[m] /\ 1 \in DOMAIN b.promotions[m]
      BY <2>1, <3>1, ForgetType
    <3>3. 1 \in Live(b, m)
      BY <3>1, <3>2 DEF Live
    <3>4. \A i \in Live(c, m) : i \in Live(b, m) /\ i # 1
      BY <3>1, <3>2 DEF Live
    <3> QED BY <2>1, <3>3, <3>4
  <2>4. CASE ~(e.kind = "P" /\ e.of = m) /\ ~(e.kind = "F" /\ e.of = m)
    <3>1. c.promotions[m] = b.promotions[m]
      BY <2>4, <1>2
    <3>2. Live(c, m) = Live(b, m)
      BY <3>1 DEF Live
    <3> QED BY <2>1, <2>4, <3>2
  <2> QED BY <2>2, <2>3, <2>4
<1>8. Fits(c, rev1, forgot1, t)
  BY <1>5, <1>6, <1>7 DEF Fits
<1> QED BY <1>8, <1>a

\* A skipped line takes nothing from what a book owes.
LEMMA FitsSkip ==
    ASSUME NEW b \in Books, NEW rev, NEW rev1, NEW forgot, NEW forgot1, NEW t,
           Fits(b, rev, forgot, t)
    PROVE  Fits(Skip(b), rev1, forgot1, t)
BY SkipEffects DEF Fits

\* Time passes, and a memory is asked for anew.
LEMMA FitsStays ==
    ASSUME NEW b \in Books, NEW rev, NEW forgot, NEW forgot1 \in SUBSET forgot,
           NEW t \in Times, NEW t1 \in Times, t <= t1,
           Fits(b, rev, forgot, t)
    PROVE  Fits(b, rev, forgot1, t1)
<1>1. \A x \in Times : x \in Nat
  BY SymbiosisAssumption
<1>2. b.sound => \A g \in rev : b.grants[g] \in Times /\ b.grants[g] <= t1
  <2> SUFFICES ASSUME b.sound, NEW g \in rev
               PROVE  b.grants[g] \in Times /\ b.grants[g] <= t1
    OBVIOUS
  <2>1. PICK x : x = b.grants[g]
    OBVIOUS
  <2>2. x \in Times /\ x <= t
    BY <2>1 DEF Fits
  <2>3. x \in Nat /\ t \in Nat /\ t1 \in Nat
    BY <2>2, <1>1
  <2> QED BY <2>1, <2>2, <2>3
<1> QED BY <1>2 DEF Fits

\* A book without promotions of a memory owes nothing more when it is forgotten.
LEMMA FitsForgets ==
    ASSUME NEW b, NEW rev, NEW forgot, NEW t, NEW m \in Memories,
           Fits(b, rev, forgot, t), b.promotions[m] = << >>
    PROVE  Fits(b, rev, forgot \cup {m}, t)
<1>1. Live(b, m) = {}
  BY EmptySeq DEF Live
<1> QED BY <1>1 DEF Fits

LEMMA FiledAfter ==
    ASSUME NEW b \in Books, NEW e \in Events, Filed(b), Persistent(e)
    PROVE  Filed(Skip(b)) /\ Filed(ReplayEvent(b, e))
<1>1. Filed(Skip(b))
  BY SkipEffects DEF Filed
<1>2. CASE Usable(b, e)
  <2>1. e.kind = "F" => CanForget(b, e.of)
    BY <1>2 DEF Usable
  <2>2. \A m \in Memories : After(b, e).promotions[m] =
            IF e.kind = "P" /\ e.of = m THEN Append(b.promotions[m], FALSE)
            ELSE IF e.kind = "F" /\ e.of = m THEN [b.promotions[m] EXCEPT ![1] = TRUE]
            ELSE b.promotions[m]
    BY <2>1, Effects
  <2>3. \A m \in Memories : ~Policy[GrantOfMemory(m)].persist =>
            ~(e.kind \in {"P", "F"} /\ e.of = m)
    BY DEF Persistent
  <2>4. Filed(After(b, e))
    BY <2>2, <2>3 DEF Filed
  <2> QED BY <1>1, <1>2, <2>4 DEF ReplayEvent
<1>3. CASE ~Usable(b, e)
  BY <1>1, <1>3 DEF ReplayEvent
<1> QED BY <1>1, <1>2, <1>3

\* A persistent event is usable in the file exactly as in an agreeing memory.
LEMMA UsableSame ==
    ASSUME NEW a \in Books, NEW b \in Books, NEW e \in Events,
           Same(a, b), Persistent(e), Usable(a, e)
    PROVE  Usable(b, e)
<1>1. /\ \A m \in Memories : GrantOfMemory(m) \in Grants
      /\ \A o \in Observations : GrantOf[o] \in Grants
      /\ \A g \in Grants : Policy[g].stamps => Policy[g].persist
  BY SymbiosisAssumption DEF GrantOfMemory
<1>2. CASE e.kind = "G"
  BY <1>2 DEF Same, Persistent, Usable, Events
<1>3. CASE e.kind = "R"
  BY <1>3 DEF Same, Persistent, Usable, Events
<1>4. CASE e.kind = "S"
  <2>1. e.of \in Observations
    BY <1>4 DEF Events
  <2>2. Policy[GrantOf[e.of]].persist
    BY <2>1, <1>1, <1>4 DEF Persistent
  <2>3. a.grants[GrantOf[e.of]] = b.grants[GrantOf[e.of]]
    BY <2>1, <2>2, <1>1 DEF Same
  <2> QED BY <2>3, <1>4 DEF Usable
<1>5. CASE e.kind = "P"
  <2>1. e.of \in Memories
    BY <1>5 DEF Events
  <2>2. a.grants[GrantOfMemory(e.of)] = b.grants[GrantOfMemory(e.of)]
    BY <2>1, <1>1, <1>5 DEF Same, Persistent
  <2> QED BY <2>2, <1>5 DEF Usable
<1>6. CASE e.kind = "F"
  <2>1. e.of \in Memories
    BY <1>6 DEF Events
  <2>2. a.promotions[e.of] = b.promotions[e.of]
    BY <2>1, <1>6 DEF Same, Persistent
  <2> QED BY <2>2, <1>6 DEF Usable, CanForget
<1> QED BY <1>2, <1>3, <1>4, <1>5, <1>6 DEF Events

LEMMA SameAfter ==
    ASSUME NEW a \in Books, NEW b \in Books, NEW e \in Events,
           Same(a, b), Usable(a, e), Usable(b, e)
    PROVE  Same(After(a, e), After(b, e))
<1>1. e.kind = "F" => CanForget(a, e.of) /\ CanForget(b, e.of)
  BY DEF Usable
<1>2. /\ \A g \in Grants : After(a, e).grants[g] =
            IF e.kind = "G" /\ e.of = g THEN 0
            ELSE IF e.kind = "R" /\ e.of = g THEN e.at ELSE a.grants[g]
      /\ \A g \in Grants : After(a, e).stamps[g] =
            IF e.kind = "S" /\ GrantOf[e.of] = g THEN Retain(a.stamps[g], e.of)
            ELSE a.stamps[g]
      /\ \A m \in Memories : After(a, e).promotions[m] =
            IF e.kind = "P" /\ e.of = m THEN Append(a.promotions[m], FALSE)
            ELSE IF e.kind = "F" /\ e.of = m THEN [a.promotions[m] EXCEPT ![1] = TRUE]
            ELSE a.promotions[m]
  BY <1>1, Effects
<1>3. /\ \A g \in Grants : After(b, e).grants[g] =
            IF e.kind = "G" /\ e.of = g THEN 0
            ELSE IF e.kind = "R" /\ e.of = g THEN e.at ELSE b.grants[g]
      /\ \A g \in Grants : After(b, e).stamps[g] =
            IF e.kind = "S" /\ GrantOf[e.of] = g THEN Retain(b.stamps[g], e.of)
            ELSE b.stamps[g]
      /\ \A m \in Memories : After(b, e).promotions[m] =
            IF e.kind = "P" /\ e.of = m THEN Append(b.promotions[m], FALSE)
            ELSE IF e.kind = "F" /\ e.of = m THEN [b.promotions[m] EXCEPT ![1] = TRUE]
            ELSE b.promotions[m]
  BY <1>1, Effects
<1>4. \A g \in Grants : Policy[g].persist => After(a, e).grants[g] = After(b, e).grants[g]
  BY <1>2, <1>3 DEF Same
<1>5. \A g \in Grants : Policy[g].stamps => After(a, e).stamps[g] = After(b, e).stamps[g]
  BY <1>2, <1>3 DEF Same
<1>6. \A m \in Memories : Policy[GrantOfMemory(m)].persist =>
          After(a, e).promotions[m] = After(b, e).promotions[m]
  <2> SUFFICES ASSUME NEW m \in Memories, Policy[GrantOfMemory(m)].persist
               PROVE  After(a, e).promotions[m] = After(b, e).promotions[m]
    OBVIOUS
  <2>1. PICK p : p = a.promotions[m]
    OBVIOUS
  <2>2. p = b.promotions[m]
    BY <2>1 DEF Same
  <2>3. After(a, e).promotions[m] =
            IF e.kind = "P" /\ e.of = m THEN Append(p, FALSE)
            ELSE IF e.kind = "F" /\ e.of = m THEN [p EXCEPT ![1] = TRUE] ELSE p
    BY <1>2, <2>1
  <2>4. After(b, e).promotions[m] =
            IF e.kind = "P" /\ e.of = m THEN Append(p, FALSE)
            ELSE IF e.kind = "F" /\ e.of = m THEN [p EXCEPT ![1] = TRUE] ELSE p
    BY <1>3, <2>2
  <2> QED BY <2>3, <2>4
<1> QED BY <1>4, <1>5, <1>6 DEF Same

\* An event that writes no line leaves the agreement with the file alone.
LEMMA SameNote ==
    ASSUME NEW a \in Books, NEW b, NEW e \in Events,
           Same(a, b), Usable(a, e), ~Persistent(e)
    PROVE  Same(After(a, e), b)
<1>1. e.kind = "F" => CanForget(a, e.of)
  BY DEF Usable
<1>2. /\ \A g \in Grants : After(a, e).grants[g] =
            IF e.kind = "G" /\ e.of = g THEN 0
            ELSE IF e.kind = "R" /\ e.of = g THEN e.at ELSE a.grants[g]
      /\ \A g \in Grants : After(a, e).stamps[g] =
            IF e.kind = "S" /\ GrantOf[e.of] = g THEN Retain(a.stamps[g], e.of)
            ELSE a.stamps[g]
      /\ \A m \in Memories : After(a, e).promotions[m] =
            IF e.kind = "P" /\ e.of = m THEN Append(a.promotions[m], FALSE)
            ELSE IF e.kind = "F" /\ e.of = m THEN [a.promotions[m] EXCEPT ![1] = TRUE]
            ELSE a.promotions[m]
  BY <1>1, Effects
<1>3. /\ \A g \in Grants : Policy[g].persist => ~(e.kind \in {"G", "R"} /\ e.of = g)
      /\ \A g \in Grants : Policy[g].stamps => ~(e.kind = "S" /\ GrantOf[e.of] = g)
      /\ \A m \in Memories : Policy[GrantOfMemory(m)].persist =>
            ~(e.kind \in {"P", "F"} /\ e.of = m)
  BY DEF Persistent
<1>4. \A g \in Grants : Policy[g].persist => After(a, e).grants[g] = b.grants[g]
  BY <1>2, <1>3 DEF Same
<1>5. \A g \in Grants : Policy[g].stamps => After(a, e).stamps[g] = b.stamps[g]
  BY <1>2, <1>3 DEF Same
<1>6. \A m \in Memories : Policy[GrantOfMemory(m)].persist =>
          After(a, e).promotions[m] = b.promotions[m]
  BY <1>2, <1>3 DEF Same
<1> QED BY <1>4, <1>5, <1>6 DEF Same

-----------------------------------------------------------------------------
(* The operations are events of the ledger.                                 *)

LEMMA CreateIsEvent ==
    ASSUME NEW g \in Grants, CreateGrant(g)
    PROVE  \E e \in Events : Operation(e)
<1> DEFINE e == [kind |-> "G", of |-> g]
<1>1. e \in Events
  BY DEF Events
<1>2. Persistent(e) = Policy[g].persist
  BY SymbiosisAssumption DEF Persistent, Policies
<1>3. Asked(e) /\ Perform(e, Policy[g].persist)
  BY DEF Asked, CreateGrant
<1> QED BY <1>1, <1>2, <1>3 DEF Operation

LEMMA RevokeIsEvent ==
    ASSUME NEW g \in Grants, RevokeGrant(g), now \in Times
    PROVE  \E e \in Events : Operation(e)
<1> DEFINE e == [kind |-> "R", of |-> g, at |-> now]
<1>1. e \in Events
  BY DEF Events
<1>2. Persistent(e) = Policy[g].persist
  BY SymbiosisAssumption DEF Persistent, Policies
<1>3. Asked(e) /\ Perform(e, Policy[g].persist)
  BY DEF Asked, RevokeGrant
<1> QED BY <1>1, <1>2, <1>3 DEF Operation

LEMMA StampIsEvent ==
    ASSUME NEW o \in Observations, StampObservation(o)
    PROVE  \E e \in Events : Operation(e)
<1> DEFINE e == [kind |-> "S", of |-> o]
<1>1. e \in Events
  BY DEF Events
<1>2. Persistent(e) = Policy[GrantOf[o]].stamps
  BY SymbiosisAssumption DEF Persistent, Policies
<1>3. Asked(e) /\ Perform(e, Policy[GrantOf[o]].stamps)
  BY DEF Asked, StampObservation, Active
<1> QED BY <1>1, <1>2, <1>3 DEF Operation

LEMMA PromoteIsEvent ==
    ASSUME NEW m \in Memories, PromoteMemory(m)
    PROVE  \E e \in Events : Operation(e)
<1> DEFINE e == [kind |-> "P", of |-> m]
<1>1. e \in Events
  BY DEF Events
<1>2. Persistent(e) = Policy[GrantOfMemory(m)].persist
  BY SymbiosisAssumption DEF Persistent, Policies, GrantOfMemory
<1>3. Asked(e) /\ Perform(e, Policy[GrantOfMemory(m)].persist)
  BY DEF Asked, PromoteMemory, Active, NotPromoted
<1> QED BY <1>1, <1>2, <1>3 DEF Operation

LEMMA ForgetIsEvent ==
    ASSUME NEW m \in Memories, ForgetPromotion(m)
    PROVE  \E e \in Events : Operation(e)
<1> DEFINE e == [kind |-> "F", of |-> m]
<1>1. e \in Events
  BY DEF Events
<1>2. Persistent(e) = Policy[GrantOfMemory(m)].persist
  BY SymbiosisAssumption DEF Persistent, Policies, GrantOfMemory
<1>3. Asked(e) /\ Perform(e, Policy[GrantOfMemory(m)].persist)
  BY DEF Asked, ForgetPromotion
<1> QED BY <1>1, <1>2, <1>3 DEF Operation

\* What was checked in memory is what replay asks.
LEMMA AskedUsable ==
    ASSUME NEW e \in Events, Asked(e)
    PROVE  Usable(mem, e)
BY DEF Asked, Usable, Events

-----------------------------------------------------------------------------
(* The invariant is inductive.                                              *)

LEMMA InitInvariant ==
    ASSUME Init
    PROVE  IInv
<1>1. EmptyBook \in Books
  <2>1. [g \in Grants |-> None] \in [Grants -> Times \cup {0, None}]
    OBVIOUS
  <2>2. [g \in Grants |-> << >>] \in [Grants -> Seq(Observations)]
    BY EmptySeq
  <2>3. [m \in Memories |-> << >>] \in [Memories -> Seq(BOOLEAN)]
    BY EmptySeq
  <2> QED BY <2>1, <2>2, <2>3 DEF EmptyBook, Books
<1>2. \A m \in Memories : EmptyBook.promotions[m] = << >> /\ Live(EmptyBook, m) = {}
  BY EmptySeq DEF EmptyBook, Live
<1>3. Fits(EmptyBook, {}, {}, now) /\ Filed(EmptyBook)
  BY <1>2 DEF Fits, Filed
<1> QED BY <1>1, <1>3 DEF Init, IInv, SymbiosisTypeOK, Agreement

LEMMA OpenStep ==
    ASSUME IInv, Open
    PROVE  IInv'
<1> USE DEF IInv, Open
<1>1. SymbiosisTypeOK'
  BY DEF SymbiosisTypeOK
<1>2. Agreement'
  <2>1. clean => view = disk
    OBVIOUS
  <2>2. mem' = view /\ disk' = disk /\ clean' = clean
    OBVIOUS
  <2> QED BY <2>1, <2>2 DEF Agreement, Same
<1> QED BY <1>1, <1>2

LEMMA ExitStep ==
    ASSUME IInv, Exit
    PROVE  IInv'
<1> USE DEF Exit
<1>1. SymbiosisTypeOK
  BY DEF IInv
<1>2. SymbiosisTypeOK'
  BY <1>1 DEF SymbiosisTypeOK
<1>3. disk \in Books /\ view \in Books /\ now \in Times /\ now <= now
  BY <1>1, SymbiosisAssumption DEF SymbiosisTypeOK
<1>4. Fits(disk, revoked, gone, now) /\ Fits(view, revoked, gone, now)
  BY DEF IInv
<1>5. gone' \in SUBSET gone
  OBVIOUS
<1>6. Fits(disk, revoked, gone', now) /\ Fits(view, revoked, gone', now)
  BY <1>3, <1>4, <1>5, FitsStays
<1>7. Agreement'
  BY DEF Agreement
<1> QED BY <1>2, <1>6, <1>7 DEF IInv, Filed

LEMMA ClockStep ==
    ASSUME IInv, NEW t \in Times, Clock(t)
    PROVE  IInv'
<1> USE DEF Clock
<1>1. SymbiosisTypeOK
  BY DEF IInv
<1>2. SymbiosisTypeOK'
  BY <1>1 DEF SymbiosisTypeOK
<1>3. now \in Times /\ now <= t
  BY <1>1, SymbiosisAssumption DEF SymbiosisTypeOK
<1>4. gone \in SUBSET gone
  OBVIOUS
<1>5. \A b \in Books : Fits(b, revoked, gone, now) => Fits(b, revoked, gone, t)
  BY <1>3, <1>4, FitsStays
<1>6. disk \in Books /\ view \in Books /\ (mem # None => mem \in Books)
  BY <1>1 DEF SymbiosisTypeOK
<1>7. /\ Fits(disk, revoked, gone, t) /\ Fits(view, revoked, gone, t)
      /\ mem # None => Fits(mem, revoked, gone, t)
  BY <1>5, <1>6 DEF IInv
<1>8. Agreement' /\ (clean => view = disk)
  BY DEF IInv, Agreement
<1>9. Filed(disk) /\ Filed(view)
  BY DEF IInv
<1> QED BY <1>2, <1>7, <1>8, <1>9 DEF IInv

LEMMA StutterStep ==
    ASSUME IInv, UNCHANGED vars
    PROVE  IInv'
BY DEF IInv, vars, SymbiosisTypeOK, Agreement

\* What an operation starts from.
LEMMA BeforeOperation ==
    ASSUME IInv, NEW e \in Events, Asked(e)
    PROVE  /\ disk \in Books /\ view \in Books /\ mem \in Books
           /\ mem # None
           /\ now \in Times /\ now <= now
           /\ revoked \in SUBSET Grants /\ gone \in SUBSET Memories
           /\ Usable(mem, e)
           /\ e.kind = "R" => e.at <= now
           /\ e.kind = "P" => Policy[GrantOfMemory(e.of)].promote /\ Live(mem, e.of) = {}
           /\ Fits(mem, revoked, gone, now)
<1>1. SymbiosisTypeOK
  BY DEF IInv
<1>2. now \in Times /\ now \in Nat
  BY <1>1, SymbiosisAssumption DEF SymbiosisTypeOK
<1> QED BY <1>1, <1>2, AskedUsable DEF IInv, SymbiosisTypeOK, Asked

\* What an operation that returns OK adds to the histories.
LEMMA HistoryAfter ==
    ASSUME IInv, NEW e \in Events, Asked(e), Done(e)
    PROVE  /\ revoked' \in SUBSET Grants /\ gone' \in SUBSET Memories
           /\ \A g \in revoked' : g \in revoked \/ (e.kind = "R" /\ e.of = g)
           /\ \A m \in gone' : m \in gone \/ (e.kind = "F" /\ e.of = m)
           /\ e.kind = "P" => e.of \notin gone'
           /\ mem' = After(mem, e) /\ mem' \in Books /\ mem' # None
           /\ now' = now
           /\ Fits(mem', revoked', gone', now)
<1>1. /\ disk \in Books /\ view \in Books /\ mem \in Books
      /\ now \in Times
      /\ revoked \in SUBSET Grants /\ gone \in SUBSET Memories
      /\ Usable(mem, e)
      /\ e.kind = "R" => e.at <= now
      /\ e.kind = "P" => Policy[GrantOfMemory(e.of)].promote /\ Live(mem, e.of) = {}
      /\ Fits(mem, revoked, gone, now)
  BY BeforeOperation
<1>2. /\ revoked' \in SUBSET Grants
      /\ \A g \in revoked' : g \in revoked \/ (e.kind = "R" /\ e.of = g)
  BY <1>1 DEF Done, Events
<1>3. /\ gone' \in SUBSET Memories
      /\ \A m \in gone' : m \in gone \/ (e.kind = "F" /\ e.of = m)
      /\ e.kind = "P" => e.of \notin gone'
  BY <1>1 DEF Done, Events
<1>4. mem' = After(mem, e) /\ now' = now
  BY DEF Done
<1>5. e.kind = "F" => CanForget(mem, e.of)
  BY <1>1 DEF Usable
<1>6. After(mem, e) \in Books
  BY <1>1, <1>5, Effects
<1>7. e.kind = "P" =>
          /\ Policy[GrantOfMemory(e.of)].promote
          /\ mem.sound => Live(mem, e.of) = {}
          /\ e.of \notin gone'
  BY <1>1, <1>3
<1>8. Fits(After(mem, e), revoked', gone', now)
  BY <1>1, <1>2, <1>3, <1>7, FitsAfter
<1>9. mem' # None
  BY <1>4, <1>6, NoBook
<1> QED BY <1>2, <1>3, <1>4, <1>6, <1>8, <1>9

\* The line of a persistent event leaves a replay what it owes, whether it is
\* whole, completes a torn one, or has only lost its newline.
LEMMA FitsLine ==
    ASSUME IInv, NEW e \in Events, Asked(e), Persistent(e),
           NEW rev1 \in SUBSET Grants, NEW forgot1 \in SUBSET Memories,
           \A g \in rev1 : g \in revoked \/ (e.kind = "R" /\ e.of = g),
           \A m \in forgot1 : m \in gone \/ (e.kind = "F" /\ e.of = m),
           e.kind = "P" => e.of \notin forgot1
    PROVE  LET b == IF clean THEN ReplayEvent(disk, e) ELSE Skip(disk)
           IN  b \in Books /\ Filed(b) /\ Fits(b, rev1, forgot1, now)
<1>1. /\ disk \in Books /\ mem \in Books /\ mem # None
      /\ now \in Times
      /\ revoked \in SUBSET Grants /\ gone \in SUBSET Memories
      /\ e.kind = "R" => e.at <= now
      /\ e.kind = "P" => Policy[GrantOfMemory(e.of)].promote /\ Live(mem, e.of) = {}
  BY BeforeOperation
<1>2. Fits(disk, revoked, gone, now) /\ Filed(disk) /\ Agreement
  BY DEF IInv
<1>3. Skip(disk) \in Books /\ ReplayEvent(disk, e) \in Books
  BY <1>1, SkipEffects, ReplayType
<1>4. Filed(Skip(disk)) /\ Filed(ReplayEvent(disk, e))
  BY <1>1, <1>2, FiledAfter
<1>5. Fits(Skip(disk), rev1, forgot1, now)
  BY <1>1, <1>2, FitsSkip
<1>6. CASE clean /\ Usable(disk, e)
  <2>1. e.kind = "P" /\ disk.sound => Live(disk, e.of) = {}
    <3> SUFFICES ASSUME e.kind = "P", disk.sound
                 PROVE  Live(disk, e.of) = {}
      OBVIOUS
    <3>1. Same(mem, disk)
      BY <1>1, <1>2, <1>6 DEF Agreement
    <3>2. e.of \in Memories /\ Policy[GrantOfMemory(e.of)].persist
      BY DEF Events, Persistent
    <3>3. mem.promotions[e.of] = disk.promotions[e.of]
      BY <3>1, <3>2 DEF Same
    <3> QED BY <1>1, <3>3 DEF Live
  <2>2. e.kind = "P" =>
            /\ Policy[GrantOfMemory(e.of)].promote
            /\ disk.sound => Live(disk, e.of) = {}
            /\ e.of \notin forgot1
    BY <1>1, <2>1
  <2>3. Fits(After(disk, e), rev1, forgot1, now)
    BY <1>1, <1>2, <1>6, <2>2, FitsAfter
  <2> QED BY <1>3, <1>4, <1>6, <2>3 DEF ReplayEvent
<1>7. CASE ~(clean /\ Usable(disk, e))
  BY <1>3, <1>4, <1>5, <1>7 DEF ReplayEvent
<1> QED BY <1>6, <1>7

LEMMA NoteStep ==
    ASSUME IInv, NEW e \in Events, Asked(e), ~Persistent(e), Note(e)
    PROVE  IInv'
<1>1. Done(e) /\ UNCHANGED <<disk, view, clean>>
  BY DEF Note
<1>2. /\ disk \in Books /\ view \in Books /\ mem \in Books /\ mem # None
      /\ now \in Times /\ now <= now
      /\ Usable(mem, e)
  BY BeforeOperation
<1>3. /\ revoked' \in SUBSET Grants /\ gone' \in SUBSET Memories
      /\ \A m \in gone' : m \in gone \/ (e.kind = "F" /\ e.of = m)
      /\ mem' = After(mem, e) /\ mem' \in Books /\ mem' # None
      /\ now' = now
      /\ Fits(mem', revoked', gone', now)
  BY <1>1, HistoryAfter
<1>4. revoked' = revoked
  BY <1>1 DEF Done, Persistent
<1>5. \A b \in {disk, view} : Fits(b, revoked, gone', now)
  <2> SUFFICES ASSUME NEW b \in {disk, view}
               PROVE  Fits(b, revoked, gone', now)
    OBVIOUS
  <2>1. b \in Books /\ Filed(b) /\ Fits(b, revoked, gone, now)
    BY <1>2 DEF IInv
  <2>2. CASE e.kind = "F"
    <3>1. e.of \in Memories /\ b.promotions[e.of] = << >>
      BY <2>1, <2>2 DEF Events, Persistent, Filed
    <3>2. Fits(b, revoked, gone \cup {e.of}, now)
      BY <2>1, <3>1, FitsForgets
    <3>3. gone' = gone \cup {e.of}
      BY <1>1, <2>2 DEF Done
    <3> QED BY <3>2, <3>3
  <2>3. CASE e.kind # "F"
    <3>1. gone' \in SUBSET gone
      BY <1>3, <2>3
    <3> QED BY <1>2, <2>1, <3>1, FitsStays
  <2> QED BY <2>2, <2>3
<1>6. Agreement'
  <2> SUFFICES ASSUME clean, disk.sound
               PROVE  mem'.sound /\ Same(mem', disk)
    BY <1>1 DEF Agreement
  <2>1. mem.sound /\ Same(mem, disk)
    BY <1>2 DEF IInv, Agreement
  <2>2. e.kind = "F" => CanForget(mem, e.of)
    BY <1>2 DEF Usable
  <2>3. After(mem, e).sound = mem.sound
    BY <1>2, <2>2, Effects
  <2> QED BY <1>2, <1>3, <2>1, <2>3, SameNote
<1>7. SymbiosisTypeOK'
  BY <1>1, <1>3, <1>2 DEF IInv, SymbiosisTypeOK
<1> QED BY <1>1, <1>3, <1>4, <1>5, <1>6, <1>7 DEF IInv

LEMMA WriteStep ==
    ASSUME IInv, NEW e \in Events, Asked(e), Persistent(e), Write(e)
    PROVE  IInv'
<1>1. /\ Done(e)
      /\ disk' = IF clean THEN ReplayEvent(disk, e) ELSE Skip(disk)
      /\ view' = disk'
      /\ clean'
  BY DEF Write
<1>2. /\ disk \in Books /\ mem \in Books /\ mem # None
      /\ now \in Times
      /\ Usable(mem, e)
  BY BeforeOperation
<1>3. /\ revoked' \in SUBSET Grants /\ gone' \in SUBSET Memories
      /\ \A g \in revoked' : g \in revoked \/ (e.kind = "R" /\ e.of = g)
      /\ \A m \in gone' : m \in gone \/ (e.kind = "F" /\ e.of = m)
      /\ e.kind = "P" => e.of \notin gone'
      /\ mem' = After(mem, e) /\ mem' \in Books /\ mem' # None
      /\ now' = now
      /\ Fits(mem', revoked', gone', now)
  BY <1>1, HistoryAfter
<1>4. disk' \in Books /\ Filed(disk') /\ Fits(disk', revoked', gone', now)
  BY <1>1, <1>3, FitsLine
<1>5. Agreement'
  <2> SUFFICES ASSUME disk'.sound
               PROVE  mem'.sound /\ Same(mem', disk')
    BY DEF Agreement
  <2>1. clean /\ Usable(disk, e)
    BY <1>1, <1>2, SkipEffects DEF ReplayEvent
  <2>2. disk' = After(disk, e)
    BY <1>1, <2>1 DEF ReplayEvent
  <2>3. e.kind = "F" => CanForget(mem, e.of) /\ CanForget(disk, e.of)
    BY <1>2, <2>1 DEF Usable
  <2>4. After(mem, e).sound = mem.sound /\ After(disk, e).sound = disk.sound
    BY <1>2, <2>3, Effects
  <2>5. mem.sound /\ Same(mem, disk)
    BY <1>2, <2>1, <2>2, <2>4 DEF IInv, Agreement
  <2>6. Same(After(mem, e), After(disk, e))
    BY <1>2, <2>1, <2>5, SameAfter
  <2> QED BY <1>3, <2>2, <2>4, <2>5, <2>6
<1>6. SymbiosisTypeOK'
  BY <1>1, <1>2, <1>3, <1>4 DEF SymbiosisTypeOK
<1> QED BY <1>1, <1>3, <1>4, <1>5, <1>6 DEF IInv

LEMMA WriteFailsStep ==
    ASSUME IInv, NEW e \in Events, Asked(e), Persistent(e), WriteFails(e)
    PROVE  IInv'
<1>1. /\ UNCHANGED <<disk, mem, now, revoked>>
      /\ gone' \in SUBSET gone
      /\ e.kind = "P" => e.of \notin gone'
  BY DEF WriteFails
<1>2. /\ disk \in Books /\ view \in Books /\ mem \in Books /\ mem # None
      /\ now \in Times /\ now <= now
      /\ revoked \in SUBSET Grants /\ gone \in SUBSET Memories
      /\ Fits(mem, revoked, gone, now)
  BY BeforeOperation
<1>3. \A b \in Books : Fits(b, revoked, gone, now) => Fits(b, revoked, gone', now)
  BY <1>1, <1>2, FitsStays
<1>4. Fits(disk, revoked, gone', now) /\ Fits(mem, revoked, gone', now)
  BY <1>2, <1>3 DEF IInv
<1>5. gone' \in SUBSET Memories
  BY <1>1, <1>2
<1>6. CASE UNCHANGED <<view, clean>>
  <2>1. Fits(view, revoked, gone', now)
    BY <1>2, <1>3 DEF IInv
  <2>2. SymbiosisTypeOK'
    BY <1>1, <1>5, <1>6 DEF IInv, SymbiosisTypeOK
  <2>3. Agreement'
    BY <1>1, <1>6 DEF IInv, Agreement
  <2> QED BY <1>1, <1>4, <1>6, <2>1, <2>2, <2>3 DEF IInv
<1>7. CASE view' \in Books /\ Filed(view') /\ Fits(view', revoked, gone', now) /\ ~clean'
           /\ clean' \in BOOLEAN
  <2>1. SymbiosisTypeOK'
    BY <1>1, <1>5, <1>7 DEF IInv, SymbiosisTypeOK
  <2>2. Agreement'
    BY <1>7 DEF Agreement
  <2> QED BY <1>1, <1>4, <1>7, <2>1, <2>2 DEF IInv
<1>8. CASE view' = Skip(disk) /\ clean' = FALSE
  <2>1. Skip(disk) \in Books /\ Filed(Skip(disk))
    BY <1>2, SkipEffects, FiledAfter DEF IInv
  <2>2. Fits(Skip(disk), revoked, gone', now)
    BY <1>2, <1>4, FitsSkip
  <2> QED BY <1>7, <1>8, <2>1, <2>2
<1>9. CASE view' = (IF clean THEN ReplayEvent(disk, e) ELSE Skip(disk)) /\ clean' = FALSE
  <2>1. /\ \A g \in revoked : g \in revoked \/ (e.kind = "R" /\ e.of = g)
        /\ \A m \in gone' : m \in gone \/ (e.kind = "F" /\ e.of = m)
    BY <1>1
  <2>2. view' \in Books /\ Filed(view') /\ Fits(view', revoked, gone', now)
    BY <1>1, <1>2, <1>5, <1>9, <2>1, FitsLine
  <2> QED BY <1>7, <1>9, <2>2
<1> QED BY <1>6, <1>8, <1>9 DEF WriteFails

LEMMA OperationStep ==
    ASSUME IInv, NEW e \in Events, Operation(e)
    PROVE  IInv'
<1>1. CASE Persistent(e)
  BY <1>1, WriteStep, WriteFailsStep DEF Operation, Perform
<1>2. CASE ~Persistent(e)
  BY <1>2, NoteStep DEF Operation, Perform
<1> QED BY <1>1, <1>2

LEMMA NextInvariant ==
    ASSUME IInv, [Next]_vars
    PROVE  IInv'
<1>1. CASE Open
  BY <1>1, OpenStep
<1>2. CASE Exit
  BY <1>2, ExitStep
<1>3. CASE \E t \in Times : Clock(t)
  BY <1>3, ClockStep
<1>4. CASE \E e \in Events : Operation(e)
  BY <1>4, OperationStep
<1>5. CASE UNCHANGED vars
  BY <1>5, StutterStep
<1>6. now \in Times
  BY DEF IInv, SymbiosisTypeOK
<1>7. CASE \E g \in Grants : CreateGrant(g) \/ RevokeGrant(g)
  BY <1>4, <1>6, <1>7, CreateIsEvent, RevokeIsEvent
<1>8. CASE \E o \in Observations : StampObservation(o)
  BY <1>4, <1>8, StampIsEvent
<1>9. CASE \E m \in Memories : PromoteMemory(m) \/ ForgetPromotion(m)
  BY <1>4, <1>9, PromoteIsEvent, ForgetIsEvent
<1> QED BY <1>1, <1>2, <1>3, <1>5, <1>7, <1>8, <1>9 DEF Next

-----------------------------------------------------------------------------
(* What follows from it.                                                    *)

\* Every reachable state satisfies the inductive invariant.
THEOREM Invariant == Spec => []IInv
<1>1. Init => IInv
  BY InitInvariant
<1>2. IInv /\ [Next]_vars => IInv'
  BY NextInvariant
<1> QED BY <1>1, <1>2, PTL DEF Spec

\* The ledger of symbiosis_ledger.cpp and its journal keep their types through
\* operations, failed appends and restarts: no revocation is without a time.
THEOREM SymbiosisTypeCorrect == Spec => []SymbiosisTypeOK
<1>1. IInv => SymbiosisTypeOK
  BY DEF IInv
<1> QED BY <1>1, Invariant, PTL

\* A replay that returns true of a journal that ends with a newline rebuilds
\* what the running ledger keeps by its retention policies: replay_journal is
\* the inverse of the appends, evictions and forgettings included.
THEOREM ReplayIsFaithful == Spec => []ReplayRestores
<1>1. IInv => ReplayRestores
  <2> SUFFICES ASSUME IInv, mem # None, clean, view.sound
               PROVE  Kept(mem) = Kept(view)
    BY DEF ReplayRestores
  <2>1. view = disk
    BY DEF IInv
  <2>2. Same(mem, view)
    BY <2>1 DEF IInv, Agreement
  <2>3. [g \in {x \in Grants : Policy[x].persist} |-> mem.grants[g]]
            = [g \in {x \in Grants : Policy[x].persist} |-> view.grants[g]]
    BY <2>2 DEF Same
  <2>4. [g \in {x \in Grants : Policy[x].stamps} |-> mem.stamps[g]]
            = [g \in {x \in Grants : Policy[x].stamps} |-> view.stamps[g]]
    BY <2>2 DEF Same
  <2>5. [m \in {x \in Memories : Policy[GrantOfMemory(x)].persist} |-> mem.promotions[m]]
            = [m \in {x \in Memories : Policy[GrantOfMemory(x)].persist} |-> view.promotions[m]]
    BY <2>2 DEF Same
  <2> QED BY <2>3, <2>4, <2>5 DEF Kept
<1> QED BY <1>1, Invariant, PTL

\* In the running ledger and in what a replay would build, a persistent grant
\* whose revocation returned OK stays revoked, unless a bad line was reported.
THEOREM RevocationsStick == Spec => []RevocationSticks
<1>1. IInv => RevocationSticks
  BY DEF IInv, Fits, RevocationSticks, Trusted
<1> QED BY <1>1, Invariant, PTL

\* A forgotten memory does not come back on its own, and none is held twice.
THEOREM ForgettingLasts == Spec => []ForgottenStaysForgotten
<1>1. IInv => ForgottenStaysForgotten
  <2> SUFFICES ASSUME IInv, NEW b \in Trusted, NEW m \in Memories
               PROVE  /\ m \in gone => Live(b, m) = {}
                      /\ Cardinality(Live(b, m)) <= 1
    BY DEF ForgottenStaysForgotten
  <2>1. /\ m \in gone => Live(b, m) = {}
        /\ \A i, j \in Live(b, m) : i = j
    BY DEF IInv, Fits, Trusted
  <2>2. CASE Live(b, m) = {}
    BY <2>2, FS_EmptySet
  <2>3. CASE Live(b, m) # {}
    <3>1. PICK i \in Live(b, m) : TRUE
      BY <2>3
    <3>2. Live(b, m) = {i}
      BY <2>1, <3>1
    <3> QED BY <2>1, <3>2, FS_Singleton
  <2> QED BY <2>1, <2>2, <2>3
<1> QED BY <1>1, Invariant, PTL

\* Every promotion is backed by a grant that allows promotion, even in a book
\* rebuilt from a journal that has lost lines.
THEOREM PromotionsAreAllowed == Spec => []PromotionsAllowed
<1>1. IInv => PromotionsAllowed
  BY DEF IInv, Fits, PromotionsAllowed
<1> QED BY <1>1, Invariant, PTL
=============================================================================
