---------------------------- MODULE PolicyProofs ----------------------------
(***************************************************************************)
(* Proofs about the policy desk, for any policies, rules, controls, number *)
(* of processes and faults.  An operation scans the file, checks, and      *)
(* appends later; the line it appends counts only if its number fits, and  *)
(* then nobody was in between (PendingFits), so what it checked still      *)
(* holds.  What was acknowledged is in every healthy replay of the file    *)
(* (RegistryHolds, QueueHolds).  The evaluation of a policy is the fold of *)
(* its rules; the winner is found to be the best by taking one rule at a   *)
(* time from any set of positions (WinnerBest).                            *)
(***************************************************************************)
EXTENDS PolicyDesk, FoldLemmas

-----------------------------------------------------------------------------
(* The rules decide.                                                        *)

LEMMA MaxIn ==
    ASSUME NEW S \in SUBSET Int, IsFiniteSet(S), S # {}
    PROVE  \E x \in S : \A y \in S : x >= y
<1>. DEFINE B == {s \in SUBSET S : s # {} /\ ~ \E x \in s : \A y \in s : x >= y}
<1>1. ASSUME B # {} PROVE FALSE
  <2>0. B \in SUBSET (SUBSET S)
    OBVIOUS
  <2>1. PICK s \in B : \A u \in SUBSET s : u # s => u \notin B
    <3>. HIDE DEF B
    <3>. QED
      BY <1>1, <2>0, MinimalSubset
  <2>2. PICK x \in s : TRUE
    BY <2>1
  <2>3. s \ {x} \in SUBSET s /\ s \ {x} # s /\ s \ {x} \in SUBSET S
    BY <2>1, <2>2
  <2>4. PICK z \in s : \A y \in s \ {x} : z >= y
    BY <2>1, <2>2, <2>3
  <2>5. x \in Int /\ z \in Int /\ \A y \in s : y \in Int
    BY <2>1, <2>2, <2>4
  <2>6. CASE z >= x
    BY <2>1, <2>4, <2>5, <2>6
  <2>7. CASE ~(z >= x)
    <3>1. \A y \in s : x >= y
      BY <2>4, <2>5, <2>7
    <3>. QED
      BY <2>1, <2>2, <3>1
  <2>. QED
    BY <2>6, <2>7
<1>. QED
  BY <1>1

\* The rule of a request that one more rule leaves.
Better(rules, r, i, best) ==
    IF Engine!rule_matches(rules[i], r) /\ Engine!Beats(rules[i], best)
    THEN rules[i] ELSE best

Last(s) == Engine!Max(s)

\* The fold of the rules, on the positions s.
WinnerOf(rules, r, f, s) ==
    IF s = {} THEN None ELSE Better(rules, r, Last(s), f[s \ {Last(s)}])

LEMMA WinnerFold ==
    ASSUME NEW rules \in Seq(Engine!Rules), NEW r
    PROVE  \E f : /\ \A s \in SUBSET DOMAIN rules : f[s] = WinnerOf(rules, r, f, s)
                  /\ Engine!Winner(rules, r) = f[DOMAIN rules]
<1>. DEFINE S == DOMAIN rules
            V == Engine!Rules \cup {None}
            pick == [s \in SUBSET S |-> Last(s)]
            step == [i \in S |-> [v \in V |-> Better(rules, r, i, v)]]
            iter == CHOOSE f : f = [s \in SUBSET S |-> WinnerOf(rules, r, f, s)]
<1>1. IsFiniteSet(S) /\ S \subseteq Int /\ \A i \in S : rules[i] \in Engine!Rules
  <2>1. S = 1 .. Len(rules) /\ Len(rules) \in Nat
    OBVIOUS
  <2>. QED
    BY <2>1, FS_Interval
<1>2. Picks(pick, S)
  <2>1. ASSUME NEW s \in SUBSET S, s # {} PROVE Last(s) \in s
    <3>1. IsFiniteSet(s) /\ s \in SUBSET Int
      BY <1>1, FS_Subset
    <3>2. \E x \in s : \A y \in s : x >= y
      BY <2>1, <3>1, MaxIn
    <3>. QED
      BY <3>2 DEF Last, Engine!Max
  <2>. QED
    BY <2>1 DEF Picks
<1>3. None \in V /\ step \in [S -> [V -> V]]
  BY <1>1 DEF Better
<1>4. PICK g : Solves(g, S, None, pick, step)
  BY <1>1, <1>2, SolutionExists
<1>5. \A s \in SUBSET S : g[s] \in V
  <2>. HIDE DEF pick, step, V, S
  <2>. QED
    BY <1>1, <1>2, <1>3, <1>4, SolutionTyped
<1>6. ASSUME NEW s \in SUBSET S PROVE g[s] = WinnerOf(rules, r, g, s)
  <2>1. g[s] = IF s = {} THEN None ELSE step[pick[s]][g[s \ {pick[s]}]]
    BY <1>4 DEF Solves
  <2>2. CASE s = {}
    BY <2>1, <2>2 DEF WinnerOf
  <2>3. CASE s # {}
    <3>1. pick[s] = Last(s) /\ Last(s) \in S /\ s \ {Last(s)} \in SUBSET S
      BY <1>2, <2>3 DEF Picks
    <3>2. g[s] = step[Last(s)][g[s \ {Last(s)}]] /\ g[s \ {Last(s)}] \in V
      BY <1>5, <2>1, <2>3, <3>1
    <3>3. g[s] = Better(rules, r, Last(s), g[s \ {Last(s)}])
      <4>. DEFINE v == g[s \ {Last(s)}]
      <4>1. v \in V /\ g[s] = step[Last(s)][v]
        BY <3>2
      <4>. HIDE DEF v
      <4>2. g[s] = Better(rules, r, Last(s), v)
        BY <3>1, <4>1
      <4>. QED
        BY <4>2 DEF v
    <3>. QED
      BY <2>3, <3>3 DEF WinnerOf
  <2>. QED
    BY <2>2, <2>3
<1>7. g = [s \in SUBSET S |-> WinnerOf(rules, r, g, s)]
  <2>1. g = [s \in SUBSET S |-> g[s]]
    BY <1>4 DEF Solves
  <2>. QED
    BY <1>6, <2>1
<1>8. iter = [s \in SUBSET S |-> WinnerOf(rules, r, iter, s)]
  BY <1>7
<1>9. Engine!Winner(rules, r) = iter[S]
  BY DEF Engine!Winner, Engine!FoldLeft, Engine!MapThenFoldSet, WinnerOf, Better, Last
<1>. HIDE DEF iter
<1>10. \A s \in SUBSET S : iter[s] = WinnerOf(rules, r, iter, s)
  BY <1>8
<1>. QED
  BY <1>9, <1>10
LEMMA Precedence ==
    /\ Engine!decision_precedence["ALLOW"] = 1
    /\ Engine!decision_precedence["HUMAN_REVIEW"] = 2
    /\ Engine!decision_precedence["REFUSE"] = 3
BY DEF Engine!decision_precedence

LEMMA RuleFields ==
    ASSUME NEW x \in Engine!Rules
    PROVE  /\ x.effect \in {"ALLOW", "HUMAN_REVIEW", "REFUSE"}
           /\ Engine!decision_precedence[x.effect] \in 1 .. 3
           /\ x.priority \in Int /\ x.id \in Nat
           /\ x # None
BY Precedence, DeskAssumption DEF Engine!Rules, Engine!Effects

\* What beats a rule beats whatever that rule is not beaten by.
LEMMA BeatsTransitive ==
    ASSUME NEW x \in Engine!Rules, NEW y \in Engine!Rules, NEW z \in Engine!Rules,
           Engine!Beats(x, y), ~Engine!Beats(z, y)
    PROVE  ~Engine!Beats(z, x)
BY RuleFields DEF Engine!Beats

\* The winner matches, and nothing that matches beats it.
LEMMA WinnerBest ==
    ASSUME NEW rules \in Seq(Engine!Rules), NEW r
    PROVE  LET best == Engine!Winner(rules, r) IN
           /\ best = None => Engine!Matching(rules, r) = {}
           /\ best # None =>
                /\ best \in Engine!Matching(rules, r)
                /\ \A x \in Engine!Matching(rules, r) : ~Engine!Beats(x, best)
<1>. DEFINE S == DOMAIN rules
            M(i) == Engine!rule_matches(rules[i], r)
            Best(s, v) ==
                /\ v = None => \A i \in s : ~M(i)
                /\ v # None => /\ \E i \in s : M(i) /\ v = rules[i]
                               /\ \A i \in s : M(i) => ~Engine!Beats(rules[i], v)
<1>1. IsFiniteSet(S) /\ S \subseteq Int /\ \A i \in S : rules[i] \in Engine!Rules
  <2>1. S = 1 .. Len(rules) /\ Len(rules) \in Nat
    OBVIOUS
  <2>. QED
    BY <2>1, FS_Interval
<1>2. PICK f : /\ \A s \in SUBSET S : f[s] = WinnerOf(rules, r, f, s)
               /\ Engine!Winner(rules, r) = f[S]
  BY WinnerFold
<1>. DEFINE B == {s \in SUBSET S : ~Best(s, f[s])}
<1>3. ASSUME B # {} PROVE FALSE
  <2>0. B \in SUBSET (SUBSET S)
    OBVIOUS
  <2>1. PICK s \in B : \A u \in SUBSET s : u # s => u \notin B
    <3>. HIDE DEF B
    <3>. QED
      BY <1>1, <1>3, <2>0, MinimalSubset
  <2>2. CASE s = {}
    <3>1. f[s] = None
      BY <1>2, <2>2 DEF WinnerOf
    <3>. QED
      BY <2>1, <2>2, <3>1
  <2>3. CASE s # {}
    <3>. DEFINE k == Last(s)
                u == s \ {k}
    <3>1. k \in s
      <4>1. IsFiniteSet(s) /\ s \in SUBSET Int
        BY <1>1, <2>1, FS_Subset
      <4>2. \E x \in s : \A y \in s : x >= y
        BY <2>3, <4>1, MaxIn
      <4>. QED
        BY <4>2 DEF Last, Engine!Max
    <3>2. f[s] = Better(rules, r, k, f[u])
      BY <1>2, <2>1, <2>3 DEF WinnerOf
    <3>. HIDE DEF k
    <3>3. u \in SUBSET s /\ u # s /\ u \in SUBSET S /\ s = u \cup {k}
      BY <2>1, <3>1
    <3>4. Best(u, f[u])
      BY <2>1, <3>3
    <3>5. \A i \in s : rules[i] \in Engine!Rules /\ rules[i] # None
      BY <1>1, <2>1, RuleFields
    <3>6. CASE M(k) /\ Engine!Beats(rules[k], f[u])
      <4>1. f[s] = rules[k] /\ f[s] # None
        BY <3>1, <3>2, <3>5, <3>6 DEF Better
      <4>2. ~Engine!Beats(rules[k], rules[k])
        BY <3>1, <3>5, RuleFields DEF Engine!Beats
      <4>3. ASSUME NEW i \in u, M(i) PROVE ~Engine!Beats(rules[i], rules[k])
        <5>1. f[u] # None
          BY <3>4, <4>3
        <5>2. f[u] \in Engine!Rules /\ ~Engine!Beats(rules[i], f[u])
          BY <3>3, <3>4, <3>5, <4>3, <5>1
        <5>. QED
          BY <3>1, <3>3, <3>5, <3>6, <5>2, BeatsTransitive
      <4>4. Best(s, f[s])
        BY <3>1, <3>3, <3>6, <4>1, <4>2, <4>3
      <4>. QED
        BY <2>1, <4>4
    <3>7. CASE ~(M(k) /\ Engine!Beats(rules[k], f[u]))
      <4>1. f[s] = f[u]
        BY <3>2, <3>7 DEF Better
      <4>2. f[u] = None => ~M(k)
        BY <3>7 DEF Engine!Beats
      <4>3. Best(s, f[s])
        BY <3>3, <3>4, <3>7, <4>1, <4>2
      <4>. QED
        BY <2>1, <4>3
    <3>. QED
      BY <3>6, <3>7
  <2>. QED
    BY <2>2, <2>3
<1>4. Best(S, f[S])
  BY <1>3
<1>5. Engine!Matching(rules, r) = {rules[i] : i \in {j \in S : M(j)}}
  BY DEF Engine!Matching, Engine!ToSet
<1>. HIDE DEF S, M
<1>. QED
  BY <1>2, <1>4, <1>5

\* The evaluation answers what the documentation says: REFUSE before
\* HUMAN_REVIEW before ALLOW, in whatever order the rules come.
LEMMA EvaluationDocumented ==
    ASSUME NEW rules \in Seq(Engine!Rules), NEW r
    PROVE  LET a == Engine!Evaluate(rules, r) IN
           /\ a.decision = Engine!Intended(rules, r)
           /\ a.status = "DECIDED" => Engine!Reported(rules, r, a.rule)
<1>. DEFINE best == Engine!Winner(rules, r)
            M == Engine!Matching(rules, r)
            a == Engine!Evaluate(rules, r)
<1>1. CASE Engine!IdentityRejected(r) \/ Engine!AuthorityRejected(r)
  BY <1>1 DEF Engine!Evaluate, Engine!Intended
<1>2. CASE ~(Engine!IdentityRejected(r) \/ Engine!AuthorityRejected(r))
  <2>1. /\ a.status = "DECIDED" /\ a.rule = best
        /\ a.decision = IF best = None THEN "REFUSE" ELSE best.effect
    BY <1>2 DEF Engine!Evaluate
  <2>2. M \subseteq Engine!Rules
    BY DEF Engine!Matching, Engine!ToSet
  <2>3. CASE best = None
    <3>1. M = {}
      BY <2>3, WinnerBest
    <3>2. Engine!Intended(rules, r) = "REFUSE"
      BY <1>2, <3>1 DEF Engine!Intended
    <3>. QED
      BY <2>1, <2>3, <3>1, <3>2 DEF Engine!Reported
  <2>4. CASE best # None
    <3>1. best \in M /\ best \in Engine!Rules /\ \A x \in M : ~Engine!Beats(x, best)
      BY <2>2, <2>4, WinnerBest
    <3>2. ASSUME NEW x \in M
          PROVE  /\ Engine!decision_precedence[x.effect]
                        <= Engine!decision_precedence[best.effect]
                 /\ x.effect = best.effect =>
                        \/ x.priority < best.priority
                        \/ x.priority = best.priority /\ x.id >= best.id
      <4>1. ~Engine!Beats(x, best) /\ x \in Engine!Rules
        BY <2>2, <3>1
      <4>. QED
        BY <2>4, <3>1, <4>1, RuleFields DEF Engine!Beats
    <3>3. Engine!Reported(rules, r, best)
      BY <3>1, <3>2 DEF Engine!Reported
    <3>4. Engine!Intended(rules, r) = best.effect
      <4>. DEFINE E == {x.effect : x \in M}
      <4>1. best.effect \in E /\ best.effect \in {"ALLOW", "HUMAN_REVIEW", "REFUSE"}
        BY <3>1, RuleFields
      <4>2. /\ best.effect = "ALLOW" => "REFUSE" \notin E /\ "HUMAN_REVIEW" \notin E
            /\ best.effect = "HUMAN_REVIEW" => "REFUSE" \notin E
        BY <3>2, Precedence
      <4>3. Engine!Intended(rules, r) =
                IF "REFUSE" \in E THEN "REFUSE"
                ELSE IF "HUMAN_REVIEW" \in E THEN "HUMAN_REVIEW"
                ELSE IF "ALLOW" \in E THEN "ALLOW"
                ELSE "REFUSE"
        BY <1>2 DEF Engine!Intended
      <4>. HIDE DEF E
      <4>. QED
        BY <4>1, <4>2, <4>3
    <3>. QED
      BY <2>1, <2>4, <3>3, <3>4
  <2>. QED
    BY <2>3, <2>4
<1>. QED
  BY <1>1, <1>2
-----------------------------------------------------------------------------
(* The journal of the registry.                                             *)

\* The lines of b's journal are numbered below b.next, and no two controls in
\* it share a nonce; the acknowledged lines are in effect, and none has a long
\* signature.
HoldsIn(b, acked) ==
    /\ \A u, v \in b.used : u.nonce = v.nonce => u = v
    /\ \A l \in acked : ~l.long /\ Registry!InEffect(b, l) /\ l.seq < b.next
    /\ \A l, m \in acked : l.seq = m.seq => l = m

RegistryHolds ==
    /\ regFile.disk.healthy => HoldsIn(regFile.disk, regAcked)
    /\ regFile.view.healthy => HoldsIn(regFile.view, regAcked)

\* A pending line whose number fits is one the journal accepts, unless its
\* signature is long, and then never; a line whose
\* number is too large will not fit before the journal is spoiled.
RegistryPending ==
    /\ regFile.disk.healthy =>
        \A o \in Operators :
            LET l == regPending[o] IN
            l # None =>
                /\ regFile.clean => l.seq <= regFile.disk.next
                /\ l.seq = regFile.disk.next =>
                        (Registry!Accepts(regFile.disk, l) <=> ~l.long)
    /\ ~regFile.clean /\ regFile.view.healthy => regFile.view.next > regFile.disk.next

RegistryTyped ==
    /\ regFile \in Files(Registry!Books)
    /\ regFile.clean => regFile.view = regFile.disk
    /\ regPending \in [Operators -> Registry!Lines \cup {None}]
    /\ regAcked \subseteq Registry!Lines

RegistryInv == RegistryTyped /\ RegistryHolds /\ RegistryPending

LEMMA RegistryBook ==
    ASSUME NEW b \in Registry!Books
    PROVE  /\ b.healthy \in BOOLEAN /\ b.next \in Nat
           /\ b.known \in SUBSET Policies /\ b.ever \in SUBSET Policies
           /\ b.revoked \in SUBSET Policies /\ b.active \in Policies \cup {None}
           /\ b.used \in SUBSET Registry!Controls
BY DEF Registry!Books

LEMMA RegistryLine ==
    ASSUME NEW l \in Registry!Lines
    PROVE  /\ l.seq \in Nat /\ l.long \in BOOLEAN /\ l.kind \in {"REGISTER", "CONTROL"}
           /\ l.kind = "REGISTER" => l.policy \in Policies
           /\ l.kind = "CONTROL" =>
                /\ l.control \in Registry!Controls
                /\ l.control.action \in {"ACTIVATE", "ROLLBACK", "REVOKE"}
                /\ l.control.policy \in Policies
                /\ l.control.expected \in Policies \cup {None}
                /\ l.control.nonce \in Nonces
BY DEF Registry!Lines, Registry!Controls

LEMMA RegistrySpoil ==
    ASSUME NEW b \in Registry!Books
    PROVE  LET d == Registry!Spoil(b) IN
           /\ d \in Registry!Books /\ ~d.healthy
           /\ d.known = b.known /\ d.ever = b.ever /\ d.revoked = b.revoked
           /\ d.active = b.active /\ d.used = b.used
           /\ ~b.healthy => d = b
BY DEF Registry!Spoil, Registry!Books

\* What a line that is accepted does to the book.
LEMMA RegistryScan ==
    ASSUME NEW b \in Registry!Books, NEW l \in Registry!Lines, b.healthy,
           Registry!Accepts(b, l)
    PROVE  LET d == Registry!ScanLine(b, l)
               c == l.control IN
           /\ d \in Registry!Books /\ d.healthy /\ d.next = b.next + 1
           /\ l.kind = "REGISTER" =>
                /\ d.known = b.known \cup {l.policy}
                /\ d.ever = b.ever /\ d.revoked = b.revoked /\ d.active = b.active
                /\ d.used = b.used
           /\ l.kind = "CONTROL" => d.known = b.known /\ d.used = b.used \cup {c}
           /\ l.kind = "CONTROL" /\ c.action = "REVOKE" =>
                /\ d.ever = b.ever /\ d.revoked = b.revoked \cup {c.policy}
                /\ d.active = IF b.active = c.policy THEN None ELSE b.active
           /\ l.kind = "CONTROL" /\ c.action # "REVOKE" =>
                /\ d.ever = b.ever \cup {c.policy} /\ d.revoked = b.revoked
                /\ d.active = c.policy
<1>. DEFINE d == Registry!ScanLine(b, l)
            c == l.control
<1>0. PICK n \in Nat : n = b.next + 1
  BY RegistryBook
<1>1. CASE l.kind = "REGISTER"
  <2>1. PICK k \in SUBSET Policies : k = b.known \cup {l.policy}
    BY <1>1, RegistryBook, RegistryLine
  <2>2. d = [b EXCEPT !.next = n, !.known = k]
    BY <1>0, <1>1, <2>1 DEF Registry!ScanLine
  <2>. HIDE DEF d
  <2>3. /\ d \in Registry!Books /\ d.healthy = b.healthy /\ d.next = n /\ d.known = k
        /\ d.ever = b.ever /\ d.revoked = b.revoked /\ d.active = b.active
        /\ d.used = b.used
    BY <2>2 DEF Registry!Books
  <2>. QED
    BY <1>0, <1>1, <2>1, <2>3 DEF d
<1>2. CASE l.kind = "CONTROL"
  <2>0. c \in Registry!Controls /\ c.policy \in Policies
    BY <1>2, RegistryLine
  <2>1. PICK u \in SUBSET Registry!Controls : u = b.used \cup {c}
    BY <2>0, RegistryBook
  <2>2. d = Registry!AfterControl(b, c)
    BY <1>2 DEF Registry!ScanLine
  <2>3. CASE c.action = "REVOKE"
    <3>1. PICK r \in SUBSET Policies : r = b.revoked \cup {c.policy}
      BY <2>0, RegistryBook
    <3>2. PICK a \in Policies \cup {None} :
                a = IF b.active = c.policy THEN None ELSE b.active
      BY RegistryBook
    <3>3. d = [b EXCEPT !.next = n, !.used = u, !.revoked = r, !.active = a]
      BY <1>0, <2>1, <2>2, <2>3, <3>1, <3>2 DEF Registry!AfterControl
    <3>. HIDE DEF d
    <3>4. /\ d \in Registry!Books /\ d.healthy = b.healthy /\ d.next = n
          /\ d.known = b.known /\ d.ever = b.ever /\ d.revoked = r /\ d.active = a
          /\ d.used = u
      BY <3>3 DEF Registry!Books
    <3>. QED
      BY <1>0, <1>2, <2>1, <2>3, <3>1, <3>2, <3>4 DEF d
  <2>4. CASE c.action # "REVOKE"
    <3>1. PICK e \in SUBSET Policies : e = b.ever \cup {c.policy}
      BY <2>0, RegistryBook
    <3>2. PICK a \in Policies \cup {None} : a = c.policy
      BY <2>0
    <3>3. d = [b EXCEPT !.next = n, !.used = u, !.ever = e, !.active = a]
      BY <1>0, <2>1, <2>2, <2>4, <3>1, <3>2 DEF Registry!AfterControl
    <3>. HIDE DEF d
    <3>4. /\ d \in Registry!Books /\ d.healthy = b.healthy /\ d.next = n
          /\ d.known = b.known /\ d.ever = e /\ d.revoked = b.revoked /\ d.active = a
          /\ d.used = u
      BY <3>3 DEF Registry!Books
    <3>. QED
      BY <1>0, <1>2, <2>1, <2>4, <3>1, <3>2, <3>4 DEF d
  <2>. QED
    BY <2>3, <2>4
<1>. QED
  BY <1>1, <1>2, RegistryLine

LEMMA RegistryRefuses ==
    ASSUME NEW b \in Registry!Books, NEW l \in Registry!Lines,
           ~(b.healthy /\ Registry!Accepts(b, l))
    PROVE  Registry!ScanLine(b, l) \in {b, Registry!Spoil(b)} /\ ~Registry!ScanLine(b, l).healthy
BY RegistrySpoil DEF Registry!ScanLine

\* A line that is accepted is in effect, and those before it stay so.
LEMMA RegistryScanHolds ==
    ASSUME NEW b \in Registry!Books, NEW l \in Registry!Lines, b.healthy,
           Registry!Accepts(b, l), NEW acked \in SUBSET Registry!Lines, HoldsIn(b, acked)
    PROVE  /\ HoldsIn(Registry!ScanLine(b, l), acked \cup {l})
           /\ HoldsIn(Registry!ScanLine(b, l), acked)
<1>. DEFINE d == Registry!ScanLine(b, l)
<1>1. /\ d.next = b.next + 1 /\ b.next \in Nat /\ l.seq = b.next /\ ~l.long
      /\ b.known \subseteq d.known /\ b.revoked \subseteq d.revoked /\ b.used \subseteq d.used
      /\ l.kind = "REGISTER" => l.policy \in d.known /\ d.used = b.used
      /\ l.kind = "CONTROL" =>
            /\ d.used = b.used \cup {l.control}
            /\ l.control.action = "REVOKE" => l.control.policy \in d.revoked
            /\ \A u \in b.used : u.nonce # l.control.nonce
  BY RegistryScan, RegistryBook, RegistryLine DEF Registry!Accepts, Registry!Fresh
<1>. HIDE DEF d
<1>2. \A u, v \in d.used : u.nonce = v.nonce => u = v
  <2>1. CASE l.kind = "REGISTER"
    BY <1>1, <2>1 DEF HoldsIn
  <2>2. CASE l.kind = "CONTROL"
    BY <1>1, <2>2 DEF HoldsIn
  <2>. QED
    BY <2>1, <2>2, RegistryLine
<1>3. Registry!InEffect(d, l) /\ l.seq < d.next
  BY <1>1, <1>2, RegistryLine DEF Registry!InEffect
<1>4. ASSUME NEW m \in acked PROVE ~m.long /\ Registry!InEffect(d, m) /\ m.seq < b.next
  <2>1. ~m.long /\ Registry!InEffect(b, m) /\ m.seq < b.next
    BY DEF HoldsIn
  <2>. QED
    BY <1>1, <1>2, <2>1 DEF Registry!InEffect
<1>5. \A m \in acked : m.seq < d.next /\ m.seq # l.seq
  BY <1>1, <1>4, RegistryLine
<1>6. HoldsIn(d, acked \cup {l}) /\ HoldsIn(d, acked)
  <2>1. \A x, y \in acked \cup {l} : x.seq = y.seq => x = y
    BY <1>5 DEF HoldsIn
  <2>2. \A x \in acked \cup {l} : ~x.long /\ Registry!InEffect(d, x) /\ x.seq < d.next
    BY <1>1, <1>3, <1>4, <1>5
  <2>. QED
    BY <1>2, <2>1, <2>2 DEF HoldsIn
<1>. QED
  BY <1>6 DEF d
LEMMA RegistryFile ==
    ASSUME RegistryTyped
    PROVE  /\ regFile.disk \in Registry!Books /\ regFile.view \in Registry!Books
           /\ regFile.clean \in BOOLEAN
           /\ \A o \in Operators : regPending[o] # None => regPending[o] \in Registry!Lines
BY DEF RegistryTyped, Files

\* An append that succeeds: the line counts, or the journal is spoiled.
LEMMA RegistryAppended ==
    ASSUME RegistryInv, NEW o \in Operators, Registry!Append(o)
    PROVE  /\ regPending[o] \in Registry!Lines
           /\ regFile'.disk \in Registry!Books
           /\ regFile'.view = regFile'.disk /\ regFile'.clean
           /\ \/ /\ regFile.clean /\ regFile.disk.healthy
                 /\ Registry!Accepts(regFile.disk, regPending[o])
                 /\ regFile'.disk = Registry!ScanLine(regFile.disk, regPending[o])
                 /\ regFile'.disk.healthy
              \/ regFile'.disk \in {regFile.disk, Registry!Spoil(regFile.disk)}
                 /\ ~regFile'.disk.healthy
<1>. DEFINE l == regPending[o]
            b == regFile.disk
            whole == IF regFile.clean THEN Registry!ScanLine(b, l) ELSE Registry!Spoil(b)
<1>1. l \in Registry!Lines /\ b \in Registry!Books
  BY RegistryFile DEF RegistryInv, Registry!Append
<1>2. regFile' = [disk |-> whole, view |-> whole, clean |-> TRUE]
  BY DEF Registry!Append, Registry!Appended
<1>3. regFile'.disk = whole /\ regFile'.view = whole /\ regFile'.clean
  BY <1>2
<1>4. CASE regFile.clean /\ b.healthy /\ Registry!Accepts(b, l)
  BY <1>1, <1>3, <1>4, RegistryScan
<1>5. CASE ~(regFile.clean /\ b.healthy /\ Registry!Accepts(b, l))
  BY <1>1, <1>3, <1>5, RegistryRefuses, RegistrySpoil
<1>. QED
  BY <1>1, <1>3, <1>4, <1>5

LEMMA RegistryAppendInv ==
    ASSUME RegistryInv, NEW o \in Operators, Registry!Append(o)
    PROVE  RegistryInv'
<1>. DEFINE l == regPending[o]
            b == regFile.disk
<1>1. /\ l \in Registry!Lines /\ regAcked' = regAcked \cup {l}
      /\ regFile'.disk \in Registry!Books /\ b \in Registry!Books
      /\ regFile'.view = regFile'.disk /\ regFile'.clean
      /\ regAcked \in SUBSET Registry!Lines
  BY RegistryAppended, RegistryFile DEF Registry!Append, RegistryInv, RegistryTyped
<1>2. /\ regPending' \in [Operators -> Registry!Lines \cup {None}]
      /\ regPending'[o] = None
      /\ \A x \in Operators \ {o} : regPending'[x] = regPending[x]
  BY DEF Registry!Append, RegistryInv, RegistryTyped
<1>3. RegistryTyped'
  <2>1. regFile' \in Files(Registry!Books)
    BY <1>1 DEF Registry!Append, Registry!Appended, Files
  <2>. QED
    BY <1>1, <1>2, <2>1 DEF RegistryTyped
<1>4. CASE ~regFile'.disk.healthy
  BY <1>1, <1>3, <1>4 DEF RegistryInv, RegistryHolds, RegistryPending
<1>5. CASE regFile'.disk.healthy
  <2>1. /\ regFile.clean /\ b.healthy /\ Registry!Accepts(b, l)
        /\ regFile'.disk = Registry!ScanLine(b, l)
    BY <1>5, RegistryAppended
  <2>2. HoldsIn(regFile'.disk, regAcked')
    BY <1>1, <2>1, RegistryScanHolds DEF RegistryInv, RegistryHolds
  <2>3. regFile'.disk.next = b.next + 1 /\ b.next \in Nat
    BY <1>1, <2>1, RegistryScan, RegistryBook
  <2>4. ASSUME NEW x \in Operators, regPending'[x] # None
        PROVE  regPending'[x].seq < regFile'.disk.next
    <3>1. regPending'[x] = regPending[x] /\ regPending[x] \in Registry!Lines
      BY <1>2, <2>4, RegistryFile DEF RegistryInv
    <3>2. regPending[x].seq <= b.next /\ regPending[x].seq \in Nat
      BY <2>1, <2>4, <3>1, RegistryLine DEF RegistryInv, RegistryPending
    <3>. QED
      BY <2>3, <3>1, <3>2
  <2>5. \A x \in Operators : regPending'[x] # None => regPending'[x].seq \in Nat
    BY <1>2, RegistryLine
  <2>6. \A x \in Operators : regPending'[x] # None =>
            regPending'[x].seq <= regFile'.disk.next /\ regPending'[x].seq # regFile'.disk.next
    BY <2>3, <2>4, <2>5
  <2>. QED
    BY <1>1, <1>3, <2>2, <2>6 DEF RegistryInv, RegistryHolds, RegistryPending
<1>. QED
  BY <1>4, <1>5

\* An append that fails: the lines that count are the same, and a line that
\* arrived without its newline is one the journal accepts.
LEMMA RegistryFailed ==
    ASSUME RegistryInv, NEW o \in Operators, Registry!AppendFails(o)
    PROVE  /\ regPending[o] \in Registry!Lines
           /\ regFile' \in Files(Registry!Books)
           /\ regFile'.disk = regFile.disk
           /\ \/ regFile' = regFile
              \/ /\ ~regFile'.clean
                 /\ regFile'.view.healthy =>
                        /\ regFile.clean /\ regFile.disk.healthy
                        /\ Registry!Accepts(regFile.disk, regPending[o])
                        /\ regFile'.view = Registry!ScanLine(regFile.disk, regPending[o])
<1>. DEFINE l == regPending[o]
            b == regFile.disk
            whole == IF regFile.clean THEN Registry!ScanLine(b, l) ELSE Registry!Spoil(b)
<1>1. l \in Registry!Lines /\ b \in Registry!Books /\ regFile \in Files(Registry!Books)
  BY RegistryFile DEF RegistryInv, RegistryTyped, Registry!AppendFails
<1>2. \/ regFile' = regFile
      \/ regFile' = [regFile EXCEPT !.view = Registry!Spoil(b), !.clean = FALSE]
      \/ regFile' = [regFile EXCEPT !.view = whole, !.clean = FALSE]
  BY DEF Registry!AppendFails, Registry!Damaged
<1>3. /\ whole \in Registry!Books
      /\ whole.healthy => /\ regFile.clean /\ b.healthy /\ Registry!Accepts(b, l)
                          /\ whole = Registry!ScanLine(b, l)
  <2>1. CASE regFile.clean /\ b.healthy /\ Registry!Accepts(b, l)
    BY <1>1, <2>1, RegistryScan
  <2>2. CASE ~(regFile.clean /\ b.healthy /\ Registry!Accepts(b, l))
    BY <1>1, <2>2, RegistryRefuses, RegistrySpoil
  <2>. QED
    BY <2>1, <2>2
<1>. HIDE DEF whole, l, b
<1>4. Registry!Spoil(b) \in Registry!Books /\ ~Registry!Spoil(b).healthy
  BY <1>1, RegistrySpoil
<1>5. ASSUME NEW v \in Registry!Books, regFile' = [regFile EXCEPT !.view = v, !.clean = FALSE]
      PROVE  /\ regFile' \in Files(Registry!Books) /\ regFile'.disk = regFile.disk
             /\ regFile'.view = v /\ ~regFile'.clean
  BY <1>1, <1>5 DEF Files
<1>. QED
  BY <1>1, <1>2, <1>3, <1>4, <1>5 DEF l, b

LEMMA RegistryFailsInv ==
    ASSUME RegistryInv, NEW o \in Operators, Registry!AppendFails(o)
    PROVE  RegistryInv'
<1>. DEFINE l == regPending[o]
            b == regFile.disk
<1>1. /\ l \in Registry!Lines /\ regAcked' = regAcked
      /\ regFile' \in Files(Registry!Books) /\ regFile'.disk = b
      /\ b \in Registry!Books /\ regAcked \in SUBSET Registry!Lines
  BY RegistryFailed, RegistryFile DEF Registry!AppendFails, RegistryInv, RegistryTyped
<1>2. /\ regPending' \in [Operators -> Registry!Lines \cup {None}]
      /\ \A x \in Operators : regPending'[x] \in {None, regPending[x]}
  BY DEF Registry!AppendFails, RegistryInv, RegistryTyped
<1>3. CASE regFile' = regFile
  BY <1>1, <1>2, <1>3 DEF RegistryInv, RegistryTyped, RegistryHolds, RegistryPending
<1>4. CASE /\ ~regFile'.clean
           /\ regFile'.view.healthy =>
                /\ regFile.clean /\ b.healthy /\ Registry!Accepts(b, l)
                /\ regFile'.view = Registry!ScanLine(b, l)
  <2>1. RegistryTyped'
    BY <1>1, <1>2, <1>4 DEF RegistryTyped
  <2>2. ASSUME regFile'.view.healthy
        PROVE  HoldsIn(regFile'.view, regAcked') /\ regFile'.view.next > b.next
    <3>1. /\ regFile.clean /\ b.healthy /\ Registry!Accepts(b, l)
          /\ regFile'.view = Registry!ScanLine(b, l)
      BY <1>4, <2>2
    <3>2. HoldsIn(b, regAcked)
      BY <3>1 DEF RegistryInv, RegistryHolds
    <3>3. HoldsIn(regFile'.view, regAcked)
      BY <1>1, <3>1, <3>2, RegistryScanHolds
    <3>4. regFile'.view.next = b.next + 1 /\ b.next \in Nat
      BY <1>1, <3>1, RegistryScan, RegistryBook
    <3>. QED
      BY <1>1, <3>3, <3>4
  <2>. QED
    BY <1>1, <1>2, <1>4, <2>1, <2>2 DEF RegistryInv, RegistryHolds, RegistryPending
<1>. QED
  BY <1>3, <1>4, RegistryFailed

\* An operation that checked its line against the scan.
LEMMA RegistryPrepared ==
    ASSUME RegistryInv, NEW o \in Operators, NEW l \in Registry!Lines,
           Registry!Prepare(o, l), Registry!Scan.healthy, l.seq = Registry!Scan.next,
           Registry!Accepts(Registry!Scan, l) <=> ~l.long
    PROVE  RegistryInv'
<1>1. UNCHANGED <<regFile, regAcked>>
  BY DEF Registry!Prepare
<1>2. /\ regPending' \in [Operators -> Registry!Lines \cup {None}]
      /\ regPending'[o] = l
      /\ \A x \in Operators \ {o} : regPending'[x] = regPending[x]
  BY DEF Registry!Prepare, RegistryInv, RegistryTyped
<1>3. regFile.disk \in Registry!Books /\ regFile.view \in Registry!Books
  BY RegistryFile DEF RegistryInv
<1>4. regFile.disk.next \in Nat /\ regFile.view.next \in Nat
  BY <1>3, RegistryBook
<1>5. CASE regFile.clean
  BY <1>1, <1>2, <1>4, <1>5
     DEF RegistryInv, RegistryTyped, RegistryHolds, RegistryPending, Registry!Scan
<1>6. CASE ~regFile.clean
  BY <1>1, <1>2, <1>4, <1>6
     DEF RegistryInv, RegistryTyped, RegistryHolds, RegistryPending, Registry!Scan
<1>. QED
  BY <1>5, <1>6

LEMMA RegisterPolicyInv ==
    ASSUME RegistryInv, NEW o \in Operators, NEW q \in Policies, NEW long \in BOOLEAN,
           Registry!RegisterPolicy(o, q, long)
    PROVE  RegistryInv'
<1>. DEFINE l == [seq |-> Registry!Scan.next, long |-> long, kind |-> "REGISTER", policy |-> q]
<1>1. Registry!Scan.next \in Nat
  BY RegistryFile, RegistryBook DEF RegistryInv, Registry!Scan
<1>2. l \in Registry!Lines
  BY <1>1 DEF Registry!Lines
<1>3. Registry!Accepts(Registry!Scan, l) <=> ~l.long
  BY DEF Registry!RegisterPolicy, Registry!Accepts
<1>4. Registry!Prepare(o, l) /\ Registry!Scan.healthy
  BY DEF Registry!RegisterPolicy
<1>. QED
  BY <1>2, <1>3, <1>4, RegistryPrepared

LEMMA ApplyControlInv ==
    ASSUME RegistryInv, NEW o \in Operators, NEW c \in Registry!Controls,
           NEW long \in BOOLEAN, Registry!ApplyControl(o, c, long)
    PROVE  RegistryInv'
<1>. DEFINE l == [seq |-> Registry!Scan.next, long |-> long, kind |-> "CONTROL",
                control |-> c]
<1>1. Registry!Scan.next \in Nat
  BY RegistryFile, RegistryBook DEF RegistryInv, Registry!Scan
<1>2. l \in Registry!Lines
  BY <1>1 DEF Registry!Lines
<1>3. Registry!Accepts(Registry!Scan, l) <=> ~l.long
  BY DEF Registry!ApplyControl, Registry!MayApply, Registry!Accepts
<1>4. Registry!Prepare(o, l) /\ Registry!Scan.healthy
  BY DEF Registry!ApplyControl, Registry!MayApply
<1>. QED
  BY <1>2, <1>3, <1>4, RegistryPrepared

LEMMA RegistryInit == Registry!Init => RegistryInv
<1>. SUFFICES ASSUME Registry!Init PROVE RegistryInv
  OBVIOUS
<1>. DEFINE b == Registry!EmptyBook
<1>1. b \in Registry!Books /\ b.used = {}
  BY DEF Registry!EmptyBook, Registry!Books
<1>2. regFile = [disk |-> b, view |-> b, clean |-> TRUE]
  BY DEF Registry!Init, Registry!EmptyFile
<1>. HIDE DEF b
<1>3. RegistryTyped
  BY <1>1, <1>2 DEF Registry!Init, RegistryTyped, Files
<1>. QED
  BY <1>1, <1>2, <1>3
     DEF Registry!Init, RegistryInv, RegistryHolds, HoldsIn, RegistryPending

-----------------------------------------------------------------------------
(* The journal of the review queue: the same argument.                      *)

\* No ticket of b is closed twice; the acknowledged lines are in b.
KeepsIn(b, acked) ==
    /\ \A x, y \in b.closed : x.ticket = y.ticket => x = y
    /\ \A l \in acked :
        /\ l.ticket \in b.tickets
        /\ l.kind = "CLOSE" => [ticket |-> l.ticket, state |-> l.state] \in b.closed
        /\ l.seq < b.next
    /\ \A l, m \in acked : l.seq = m.seq => l = m

QueueHolds ==
    /\ queueFile.disk.healthy => KeepsIn(queueFile.disk, queueAcked)
    /\ queueFile.view.healthy => KeepsIn(queueFile.view, queueAcked)

QueuePending ==
    /\ queueFile.disk.healthy =>
        \A o \in Operators :
            LET l == queuePending[o] IN
            l # None =>
                /\ queueFile.clean => l.seq <= queueFile.disk.next
                /\ l.seq = queueFile.disk.next => Queue!Accepts(queueFile.disk, l)
    /\ ~queueFile.clean /\ queueFile.view.healthy =>
        queueFile.view.next > queueFile.disk.next

QueueTyped ==
    /\ queueFile \in Files(Queue!Books)
    /\ queueFile.clean => queueFile.view = queueFile.disk
    /\ queuePending \in [Operators -> Queue!Lines \cup {None}]
    /\ queueAcked \subseteq Queue!Lines

QueueInv == QueueTyped /\ QueueHolds /\ QueuePending

LEMMA QueueBook ==
    ASSUME NEW b \in Queue!Books
    PROVE  /\ b.healthy \in BOOLEAN /\ b.next \in Nat /\ b.tickets \in SUBSET Tickets
           /\ b.closed \in SUBSET [ticket : Tickets, state : Resolutions]
BY DEF Queue!Books

LEMMA QueueLine ==
    ASSUME NEW l \in Queue!Lines
    PROVE  /\ l.seq \in Nat /\ l.kind \in {"ENQUEUE", "CLOSE"} /\ l.ticket \in Tickets
           /\ l.kind = "CLOSE" => l.state \in Resolutions
BY DEF Queue!Lines

LEMMA QueueSpoil ==
    ASSUME NEW b \in Queue!Books
    PROVE  LET d == Queue!Spoil(b) IN d \in Queue!Books /\ ~d.healthy
BY DEF Queue!Spoil, Queue!Books

\* What a line that is accepted does to the book.
LEMMA QueueScan ==
    ASSUME NEW b \in Queue!Books, NEW l \in Queue!Lines, b.healthy, Queue!Accepts(b, l)
    PROVE  LET d == Queue!ScanLine(b, l) IN
           /\ d \in Queue!Books /\ d.healthy /\ d.next = b.next + 1
           /\ l.kind = "ENQUEUE" => d.tickets = b.tickets \cup {l.ticket} /\ d.closed = b.closed
           /\ l.kind = "CLOSE" =>
                /\ d.tickets = b.tickets
                /\ d.closed = b.closed \cup {[ticket |-> l.ticket, state |-> l.state]}
<1>. DEFINE d == Queue!ScanLine(b, l)
            x == [ticket |-> l.ticket, state |-> l.state]
<1>0. PICK n \in Nat : n = b.next + 1
  BY QueueBook
<1>1. CASE l.kind = "ENQUEUE"
  <2>1. PICK t \in SUBSET Tickets : t = b.tickets \cup {l.ticket}
    BY QueueBook, QueueLine
  <2>2. d = [b EXCEPT !.next = n, !.tickets = t]
    BY <1>0, <1>1, <2>1 DEF Queue!ScanLine, Queue!After
  <2>. HIDE DEF d
  <2>3. /\ d \in Queue!Books /\ d.healthy = b.healthy /\ d.next = n
        /\ d.tickets = t /\ d.closed = b.closed
    BY <2>2 DEF Queue!Books
  <2>. QED
    BY <1>0, <1>1, <2>1, <2>3 DEF d
<1>2. CASE l.kind = "CLOSE"
  <2>1. x \in [ticket : Tickets, state : Resolutions]
    BY <1>2, QueueLine
  <2>2. PICK c \in SUBSET [ticket : Tickets, state : Resolutions] : c = b.closed \cup {x}
    BY <2>1, QueueBook
  <2>3. d = [b EXCEPT !.next = n, !.closed = c]
    BY <1>0, <1>2, <2>2 DEF Queue!ScanLine, Queue!After
  <2>. HIDE DEF d
  <2>4. /\ d \in Queue!Books /\ d.healthy = b.healthy /\ d.next = n
        /\ d.tickets = b.tickets /\ d.closed = c
    BY <2>3 DEF Queue!Books
  <2>. QED
    BY <1>0, <1>2, <2>2, <2>4 DEF d
<1>. QED
  BY <1>1, <1>2, QueueLine

LEMMA QueueRefuses ==
    ASSUME NEW b \in Queue!Books, NEW l \in Queue!Lines, ~(b.healthy /\ Queue!Accepts(b, l))
    PROVE  Queue!ScanLine(b, l) \in {b, Queue!Spoil(b)} /\ ~Queue!ScanLine(b, l).healthy
BY QueueSpoil DEF Queue!ScanLine

\* A line that is accepted is in the queue, and those before it stay.
LEMMA QueueScanKeeps ==
    ASSUME NEW b \in Queue!Books, NEW l \in Queue!Lines, b.healthy, Queue!Accepts(b, l),
           NEW acked \in SUBSET Queue!Lines, KeepsIn(b, acked)
    PROVE  /\ KeepsIn(Queue!ScanLine(b, l), acked \cup {l})
           /\ KeepsIn(Queue!ScanLine(b, l), acked)
<1>. DEFINE d == Queue!ScanLine(b, l)
            x == [ticket |-> l.ticket, state |-> l.state]
<1>1. /\ d.next = b.next + 1 /\ b.next \in Nat /\ l.seq = b.next
      /\ b.tickets \subseteq d.tickets /\ b.closed \subseteq d.closed
      /\ l.kind = "ENQUEUE" => l.ticket \in d.tickets /\ d.closed = b.closed
      /\ l.kind = "CLOSE" =>
            /\ d.closed = b.closed \cup {x} /\ l.ticket \in d.tickets
            /\ \A y \in b.closed : y.ticket # l.ticket
  BY QueueScan, QueueBook, QueueLine DEF Queue!Accepts, Queue!Pending
<1>. HIDE DEF d
<1>2. \A u, v \in d.closed : u.ticket = v.ticket => u = v
  <2>1. CASE l.kind = "ENQUEUE"
    BY <1>1, <2>1 DEF KeepsIn
  <2>2. CASE l.kind = "CLOSE"
    BY <1>1, <2>2 DEF KeepsIn
  <2>. QED
    BY <2>1, <2>2, QueueLine
<1>3. /\ l.ticket \in d.tickets /\ l.seq < d.next
      /\ l.kind = "CLOSE" => x \in d.closed
  BY <1>1, QueueLine
<1>4. ASSUME NEW m \in acked
      PROVE  /\ m.ticket \in d.tickets /\ m.seq < d.next /\ m.seq # l.seq
             /\ m.kind = "CLOSE" => [ticket |-> m.ticket, state |-> m.state] \in d.closed
  BY <1>1, QueueLine DEF KeepsIn
<1>5. \A u, v \in acked \cup {l} : u.seq = v.seq => u = v
  BY <1>4 DEF KeepsIn
<1>6. KeepsIn(d, acked \cup {l}) /\ KeepsIn(d, acked)
  BY <1>2, <1>3, <1>4, <1>5 DEF KeepsIn
<1>. QED
  BY <1>6 DEF d

LEMMA QueueFileTyped ==
    ASSUME QueueTyped
    PROVE  /\ queueFile.disk \in Queue!Books /\ queueFile.view \in Queue!Books
           /\ queueFile.clean \in BOOLEAN
           /\ \A o \in Operators : queuePending[o] # None => queuePending[o] \in Queue!Lines
BY DEF QueueTyped, Files

\* An append that succeeds: the line counts, or the journal is spoiled.
LEMMA QueueAppended ==
    ASSUME QueueInv, NEW o \in Operators, Queue!Append(o)
    PROVE  /\ queuePending[o] \in Queue!Lines
           /\ queueFile'.disk \in Queue!Books
           /\ queueFile'.view = queueFile'.disk /\ queueFile'.clean
           /\ \/ /\ queueFile.clean /\ queueFile.disk.healthy
                 /\ Queue!Accepts(queueFile.disk, queuePending[o])
                 /\ queueFile'.disk = Queue!ScanLine(queueFile.disk, queuePending[o])
                 /\ queueFile'.disk.healthy
              \/ queueFile'.disk \in {queueFile.disk, Queue!Spoil(queueFile.disk)}
                 /\ ~queueFile'.disk.healthy
<1>. DEFINE l == queuePending[o]
            b == queueFile.disk
            whole == IF queueFile.clean THEN Queue!ScanLine(b, l) ELSE Queue!Spoil(b)
<1>1. l \in Queue!Lines /\ b \in Queue!Books
  BY QueueFileTyped DEF QueueInv, Queue!Append
<1>2. queueFile' = [disk |-> whole, view |-> whole, clean |-> TRUE]
  BY DEF Queue!Append, Queue!Appended
<1>3. queueFile'.disk = whole /\ queueFile'.view = whole /\ queueFile'.clean
  BY <1>2
<1>4. CASE queueFile.clean /\ b.healthy /\ Queue!Accepts(b, l)
  BY <1>1, <1>3, <1>4, QueueScan
<1>5. CASE ~(queueFile.clean /\ b.healthy /\ Queue!Accepts(b, l))
  BY <1>1, <1>3, <1>5, QueueRefuses, QueueSpoil
<1>. QED
  BY <1>1, <1>3, <1>4, <1>5

LEMMA QueueAppendInv ==
    ASSUME QueueInv, NEW o \in Operators, Queue!Append(o)
    PROVE  QueueInv'
<1>. DEFINE l == queuePending[o]
            b == queueFile.disk
<1>1. /\ l \in Queue!Lines /\ queueAcked' = queueAcked \cup {l}
      /\ queueFile'.disk \in Queue!Books /\ b \in Queue!Books
      /\ queueFile'.view = queueFile'.disk /\ queueFile'.clean
      /\ queueAcked \in SUBSET Queue!Lines
  BY QueueAppended, QueueFileTyped DEF Queue!Append, QueueInv, QueueTyped
<1>2. /\ queuePending' \in [Operators -> Queue!Lines \cup {None}]
      /\ queuePending'[o] = None
      /\ \A x \in Operators \ {o} : queuePending'[x] = queuePending[x]
  BY DEF Queue!Append, QueueInv, QueueTyped
<1>3. QueueTyped'
  <2>1. queueFile' \in Files(Queue!Books)
    BY <1>1 DEF Queue!Append, Queue!Appended, Files
  <2>. QED
    BY <1>1, <1>2, <2>1 DEF QueueTyped
<1>4. CASE ~queueFile'.disk.healthy
  BY <1>1, <1>3, <1>4 DEF QueueInv, QueueHolds, QueuePending
<1>5. CASE queueFile'.disk.healthy
  <2>1. /\ queueFile.clean /\ b.healthy /\ Queue!Accepts(b, l)
        /\ queueFile'.disk = Queue!ScanLine(b, l)
    BY <1>5, QueueAppended
  <2>2. KeepsIn(queueFile'.disk, queueAcked')
    BY <1>1, <2>1, QueueScanKeeps DEF QueueInv, QueueHolds
  <2>3. queueFile'.disk.next = b.next + 1 /\ b.next \in Nat
    BY <1>1, <2>1, QueueScan, QueueBook
  <2>4. ASSUME NEW x \in Operators, queuePending'[x] # None
        PROVE  queuePending'[x].seq < queueFile'.disk.next
    <3>1. queuePending'[x] = queuePending[x] /\ queuePending[x] \in Queue!Lines
      BY <1>2, <2>4, QueueFileTyped DEF QueueInv
    <3>2. queuePending[x].seq <= b.next /\ queuePending[x].seq \in Nat
      BY <2>1, <2>4, <3>1, QueueLine DEF QueueInv, QueuePending
    <3>. QED
      BY <2>3, <3>1, <3>2
  <2>5. \A x \in Operators : queuePending'[x] # None => queuePending'[x].seq \in Nat
    BY <1>2, QueueLine
  <2>6. \A x \in Operators : queuePending'[x] # None =>
            queuePending'[x].seq <= queueFile'.disk.next /\ queuePending'[x].seq # queueFile'.disk.next
    BY <2>3, <2>4, <2>5
  <2>. QED
    BY <1>1, <1>3, <2>2, <2>6 DEF QueueInv, QueueHolds, QueuePending
<1>. QED
  BY <1>4, <1>5

\* An append that fails: the lines that count are the same, and a line that
\* arrived without its newline is one the journal accepts.
LEMMA QueueFailed ==
    ASSUME QueueInv, NEW o \in Operators, Queue!AppendFails(o)
    PROVE  /\ queuePending[o] \in Queue!Lines
           /\ queueFile' \in Files(Queue!Books)
           /\ queueFile'.disk = queueFile.disk
           /\ \/ queueFile' = queueFile
              \/ /\ ~queueFile'.clean
                 /\ queueFile'.view.healthy =>
                        /\ queueFile.clean /\ queueFile.disk.healthy
                        /\ Queue!Accepts(queueFile.disk, queuePending[o])
                        /\ queueFile'.view = Queue!ScanLine(queueFile.disk, queuePending[o])
<1>. DEFINE l == queuePending[o]
            b == queueFile.disk
            whole == IF queueFile.clean THEN Queue!ScanLine(b, l) ELSE Queue!Spoil(b)
<1>1. l \in Queue!Lines /\ b \in Queue!Books /\ queueFile \in Files(Queue!Books)
  BY QueueFileTyped DEF QueueInv, QueueTyped, Queue!AppendFails
<1>2. \/ queueFile' = queueFile
      \/ queueFile' = [queueFile EXCEPT !.view = Queue!Spoil(b), !.clean = FALSE]
      \/ queueFile' = [queueFile EXCEPT !.view = whole, !.clean = FALSE]
  BY DEF Queue!AppendFails, Queue!Damaged
<1>3. /\ whole \in Queue!Books
      /\ whole.healthy => /\ queueFile.clean /\ b.healthy /\ Queue!Accepts(b, l)
                          /\ whole = Queue!ScanLine(b, l)
  <2>1. CASE queueFile.clean /\ b.healthy /\ Queue!Accepts(b, l)
    BY <1>1, <2>1, QueueScan
  <2>2. CASE ~(queueFile.clean /\ b.healthy /\ Queue!Accepts(b, l))
    BY <1>1, <2>2, QueueRefuses, QueueSpoil
  <2>. QED
    BY <2>1, <2>2
<1>. HIDE DEF whole, l, b
<1>4. Queue!Spoil(b) \in Queue!Books /\ ~Queue!Spoil(b).healthy
  BY <1>1, QueueSpoil
<1>5. ASSUME NEW v \in Queue!Books, queueFile' = [queueFile EXCEPT !.view = v, !.clean = FALSE]
      PROVE  /\ queueFile' \in Files(Queue!Books) /\ queueFile'.disk = queueFile.disk
             /\ queueFile'.view = v /\ ~queueFile'.clean
  BY <1>1, <1>5 DEF Files
<1>. QED
  BY <1>1, <1>2, <1>3, <1>4, <1>5 DEF l, b

LEMMA QueueFailsInv ==
    ASSUME QueueInv, NEW o \in Operators, Queue!AppendFails(o)
    PROVE  QueueInv'
<1>. DEFINE l == queuePending[o]
            b == queueFile.disk
<1>1. /\ l \in Queue!Lines /\ queueAcked' = queueAcked
      /\ queueFile' \in Files(Queue!Books) /\ queueFile'.disk = b
      /\ b \in Queue!Books /\ queueAcked \in SUBSET Queue!Lines
  BY QueueFailed, QueueFileTyped DEF Queue!AppendFails, QueueInv, QueueTyped
<1>2. /\ queuePending' \in [Operators -> Queue!Lines \cup {None}]
      /\ \A x \in Operators : queuePending'[x] \in {None, queuePending[x]}
  BY DEF Queue!AppendFails, QueueInv, QueueTyped
<1>3. CASE queueFile' = queueFile
  BY <1>1, <1>2, <1>3 DEF QueueInv, QueueTyped, QueueHolds, QueuePending
<1>4. CASE /\ ~queueFile'.clean
           /\ queueFile'.view.healthy =>
                /\ queueFile.clean /\ b.healthy /\ Queue!Accepts(b, l)
                /\ queueFile'.view = Queue!ScanLine(b, l)
  <2>1. QueueTyped'
    BY <1>1, <1>2, <1>4 DEF QueueTyped
  <2>2. ASSUME queueFile'.view.healthy
        PROVE  KeepsIn(queueFile'.view, queueAcked') /\ queueFile'.view.next > b.next
    <3>1. /\ queueFile.clean /\ b.healthy /\ Queue!Accepts(b, l)
          /\ queueFile'.view = Queue!ScanLine(b, l)
      BY <1>4, <2>2
    <3>2. KeepsIn(b, queueAcked)
      BY <3>1 DEF QueueInv, QueueHolds
    <3>3. KeepsIn(queueFile'.view, queueAcked)
      BY <1>1, <3>1, <3>2, QueueScanKeeps
    <3>4. queueFile'.view.next = b.next + 1 /\ b.next \in Nat
      BY <1>1, <3>1, QueueScan, QueueBook
    <3>. QED
      BY <1>1, <3>3, <3>4
  <2>. QED
    BY <1>1, <1>2, <1>4, <2>1, <2>2 DEF QueueInv, QueueHolds, QueuePending
<1>. QED
  BY <1>3, <1>4, QueueFailed

\* An operation that checked its line against the scan.
LEMMA QueuePrepared ==
    ASSUME QueueInv, NEW o \in Operators, NEW l \in Queue!Lines,
           Queue!Prepare(o, l), Queue!Scan.healthy, l.seq = Queue!Scan.next,
           Queue!Accepts(Queue!Scan, l)
    PROVE  QueueInv'
<1>1. UNCHANGED <<queueFile, queueAcked>>
  BY DEF Queue!Prepare
<1>2. /\ queuePending' \in [Operators -> Queue!Lines \cup {None}]
      /\ queuePending'[o] = l
      /\ \A x \in Operators \ {o} : queuePending'[x] = queuePending[x]
  BY DEF Queue!Prepare, QueueInv, QueueTyped
<1>3. queueFile.disk \in Queue!Books /\ queueFile.view \in Queue!Books
  BY QueueFileTyped DEF QueueInv
<1>4. queueFile.disk.next \in Nat /\ queueFile.view.next \in Nat
  BY <1>3, QueueBook
<1>5. CASE queueFile.clean
  BY <1>1, <1>2, <1>4, <1>5
     DEF QueueInv, QueueTyped, QueueHolds, QueuePending, Queue!Scan
<1>6. CASE ~queueFile.clean
  BY <1>1, <1>2, <1>4, <1>6
     DEF QueueInv, QueueTyped, QueueHolds, QueuePending, Queue!Scan
<1>. QED
  BY <1>5, <1>6

LEMMA EnqueueInv ==
    ASSUME QueueInv, NEW o \in Operators, NEW t \in Tickets, Queue!Enqueue(o, t)
    PROVE  QueueInv'
<1>. DEFINE l == [seq |-> Queue!Scan.next, kind |-> "ENQUEUE", ticket |-> t]
<1>1. Queue!Scan.next \in Nat
  BY QueueFileTyped, QueueBook DEF QueueInv, Queue!Scan
<1>2. l \in Queue!Lines
  BY <1>1 DEF Queue!Lines
<1>3. Queue!Accepts(Queue!Scan, l)
  BY DEF Queue!Enqueue, Queue!MayEnqueue, Queue!Accepts
<1>4. Queue!Prepare(o, l) /\ Queue!Scan.healthy
  BY DEF Queue!Enqueue, Queue!MayEnqueue
<1>. QED
  BY <1>2, <1>3, <1>4, QueuePrepared

LEMMA CloseInv ==
    ASSUME QueueInv, NEW o \in Operators, NEW t \in Tickets, NEW state \in Resolutions,
           Queue!Close(o, t, state)
    PROVE  QueueInv'
<1>. DEFINE l == [seq |-> Queue!Scan.next, kind |-> "CLOSE", ticket |-> t, state |-> state]
<1>1. Queue!Scan.next \in Nat
  BY QueueFileTyped, QueueBook DEF QueueInv, Queue!Scan
<1>2. l \in Queue!Lines
  BY <1>1 DEF Queue!Lines
<1>3. Queue!Accepts(Queue!Scan, l)
  BY DEF Queue!Close, Queue!MayClose, Queue!Accepts
<1>4. Queue!Prepare(o, l) /\ Queue!Scan.healthy
  BY DEF Queue!Close, Queue!MayClose
<1>. QED
  BY <1>2, <1>3, <1>4, QueuePrepared

LEMMA QueueInit == Queue!Init => QueueInv
<1>. SUFFICES ASSUME Queue!Init PROVE QueueInv
  OBVIOUS
<1>. DEFINE b == Queue!EmptyBook
<1>1. b \in Queue!Books /\ b.closed = {}
  BY DEF Queue!EmptyBook, Queue!Books
<1>2. queueFile = [disk |-> b, view |-> b, clean |-> TRUE]
  BY DEF Queue!Init, Queue!EmptyFile
<1>. HIDE DEF b
<1>3. QueueTyped
  BY <1>1, <1>2 DEF Queue!Init, QueueTyped, Files
<1>. QED
  BY <1>1, <1>2, <1>3
     DEF Queue!Init, QueueInv, QueueHolds, KeepsIn, QueuePending

-----------------------------------------------------------------------------
(* The evaluation that Desk is in.                                          *)

\* Until it has its answer, the evaluation has seen what is active now; past
\* the second scan it has seen its policy active; its answer is the engine's.
CallInv ==
    /\ call \in Calls \cup {None}
    /\ call # None =>
        /\ call.answer = None => ActiveIn(regFile) \in call.since
        /\ call.at # "active" => call.policy \in call.since
        /\ call.at \in {"active", "rules"} => call.answer = None
        /\ call.answer # None =>
            call.answer = Engine!Evaluate(RulesOf[call.policy], call.request)

IInv == RegistryInv /\ QueueInv /\ CallInv

LEMMA CallFields ==
    ASSUME NEW c \in Calls
    PROVE  /\ c.at \in {"active", "rules", "return", "review", "enqueue"}
           /\ c.policy \in Policies /\ c.request \in Asked
           /\ c.since \in SUBSET (Policies \cup {None})
           /\ c.answer \in Engine!Answers \cup {None}
BY DEF Calls

LEMMA ActiveTyped ==
    ASSUME NEW f \in Files(Registry!Books)
    PROVE  ActiveIn(f) \in Policies \cup {None}
<1>1. f.view \in Registry!Books
  BY DEF Files
<1>. QED
  BY <1>1, RegistryBook DEF ActiveIn

\* The engine answers with a decision and one of the policy's rules.
LEMMA AnswerTyped ==
    ASSUME NEW rules \in Seq(Engine!Rules), NEW r
    PROVE  Engine!Evaluate(rules, r) \in Engine!Answers
<1>. DEFINE best == Engine!Winner(rules, r)
<1>1. best \in Engine!Rules \cup {None}
  <2>1. Engine!Matching(rules, r) \subseteq Engine!Rules
    BY DEF Engine!Matching, Engine!ToSet
  <2>. QED
    BY <2>1, WinnerBest
<1>2. (IF best = None THEN "REFUSE" ELSE best.effect) \in Engine!Effects
  BY <1>1, RuleFields DEF Engine!Effects
<1>. HIDE DEF best
<1>3. "REFUSE" \in Engine!Effects
  BY DEF Engine!Effects
<1>. QED
  BY <1>1, <1>2, <1>3 DEF Engine!Evaluate, Engine!Answers, best

\* Whatever the file becomes, an evaluation without an answer takes note of it.
LEMMA WitnessKeeps ==
    ASSUME CallInv, Witness, regFile' \in Files(Registry!Books)
    PROVE  CallInv'
<1>1. CASE call # None /\ call.answer = None
  <2>. DEFINE since == call.since \cup {ActiveIn(regFile')}
  <2>1. call \in Calls /\ since \in SUBSET (Policies \cup {None})
    BY <1>1, ActiveTyped, CallFields DEF CallInv
  <2>2. call' = [call EXCEPT !.since = since]
    BY <1>1 DEF Witness
  <2>3. ActiveIn(regFile') \in since /\ call.since \subseteq since
    OBVIOUS
  <2>. HIDE DEF since
  <2>4. /\ call' \in Calls /\ call'.since = since /\ call'.at = call.at
        /\ call'.policy = call.policy /\ call'.answer = call.answer
    BY <2>1, <2>2 DEF Calls
  <2>5. /\ call.at # "active" => call.policy \in call.since
        /\ call.answer = None
    BY <1>1 DEF CallInv
  <2>6. ActiveIn(regFile)' = ActiveIn(regFile')
    BY DEF ActiveIn
  <2>. QED
    BY <1>1, <2>3, <2>4, <2>5, <2>6 DEF CallInv
<1>2. CASE ~(call # None /\ call.answer = None)
  BY <1>2 DEF CallInv, Witness
<1>. QED
  BY <1>1, <1>2

\* A step of the evaluation from one place to the next.
LEMMA GotoKeeps ==
    ASSUME CallInv, call # None, NEW step \in {"rules", "review", "enqueue"}, Goto(step),
           UNCHANGED regFile, call.policy \in call.since,
           step = "rules" => call.answer = None
    PROVE  CallInv'
<1>1. call \in Calls
  BY DEF CallInv
<1>2. /\ call' \in Calls /\ call'.since = call.since /\ call'.at = step
      /\ call'.policy = call.policy /\ call'.answer = call.answer
      /\ call'.request = call.request
  BY <1>1 DEF Calls, Goto
<1>3. ActiveIn(regFile)' = ActiveIn(regFile)
  BY DEF ActiveIn
<1>. QED
  BY <1>2, <1>3 DEF CallInv

LEMMA InspectKeeps ==
    ASSUME IInv, NEW q \in Policies, NEW r \in Asked, Inspect(q, r)
    PROVE  CallInv'
<1>1. ActiveIn(regFile) \in Policies \cup {None}
  BY ActiveTyped DEF IInv, RegistryInv, RegistryTyped
<1>2. call' = [at |-> "active", policy |-> q, request |-> r, since |-> {ActiveIn(regFile)},
               answer |-> None]
  BY DEF Inspect
<1>3. call' \in Calls
  BY <1>1, <1>2 DEF Calls
<1>4. ActiveIn(regFile)' = ActiveIn(regFile)
  BY DEF Inspect, registryVars, ActiveIn
<1>. QED
  BY <1>2, <1>3, <1>4 DEF CallInv

LEMMA CheckActiveKeeps ==
    ASSUME IInv, CheckActive
    PROVE  CallInv'
<1>1. call # None /\ call.at = "active" /\ UNCHANGED regFile
  BY DEF CheckActive, At, registryVars
<1>2. CASE Registry!IsPolicyActive(call.policy)
  <2>1. ActiveIn(regFile) = call.policy
    BY <1>2 DEF Registry!IsPolicyActive, Registry!Scan, ActiveIn
  <2>2. call.answer = None /\ call.policy \in call.since
    BY <1>1, <2>1 DEF IInv, CallInv
  <2>3. Goto("rules")
    BY <1>2 DEF CheckActive
  <2>. QED
    BY <1>1, <2>2, <2>3, GotoKeeps DEF IInv
<1>3. CASE ~Registry!IsPolicyActive(call.policy)
  BY <1>3 DEF CheckActive, CallInv
<1>. QED
  BY <1>2, <1>3

LEMMA DecideKeeps ==
    ASSUME IInv, Decide
    PROVE  CallInv'
<1>. DEFINE a == Engine!Evaluate(RulesOf[call.policy], call.request)
<1>1. call \in Calls /\ call.at = "rules" /\ call.policy \in call.since
  BY DEF Decide, At, IInv, CallInv
<1>2. a \in Engine!Answers
  <2>1. RulesOf[call.policy] \in Seq(Engine!Rules)
    BY <1>1, CallFields, DeskAssumption
  <2>. QED
    BY <2>1, AnswerTyped
<1>3. call' = [call EXCEPT !.answer = a, !.at = "return"]
  BY DEF Decide
<1>. HIDE DEF a
<1>4. /\ call' \in Calls /\ call'.since = call.since /\ call'.at = "return"
      /\ call'.policy = call.policy /\ call'.answer = a /\ call'.request = call.request
  BY <1>1, <1>2, <1>3 DEF Calls
<1>5. ActiveIn(regFile)' = ActiveIn(regFile) /\ ActiveIn(regFile) \in call.since
  BY DEF Decide, At, registryVars, IInv, CallInv, ActiveIn
<1>6. call'.answer = Engine!Evaluate(RulesOf[call'.policy], call'.request)
  BY <1>4 DEF a
<1>. QED
  BY <1>1, <1>4, <1>5, <1>6 DEF CallInv

LEMMA ReturnKeeps ==
    ASSUME IInv, Return
    PROVE  CallInv'
<1>1. call # None /\ call.at = "return" /\ UNCHANGED regFile
  BY DEF Return, At, registryVars
<1>2. CASE Goto("review")
  BY <1>1, <1>2, GotoKeeps DEF IInv, CallInv
<1>3. CASE call' = None
  BY <1>3 DEF CallInv
<1>. QED
  BY <1>2, <1>3 DEF Return

LEMMA ConsoleChecksKeeps ==
    ASSUME IInv, ConsoleChecks
    PROVE  CallInv'
<1>1. call # None /\ call.at = "review" /\ UNCHANGED regFile
  BY DEF ConsoleChecks, At, registryVars
<1>2. CASE Goto("enqueue")
  BY <1>1, <1>2, GotoKeeps DEF IInv, CallInv
<1>3. CASE call' = None
  BY <1>3 DEF CallInv
<1>. QED
  BY <1>2, <1>3 DEF ConsoleChecks

\* An operation that does not touch a journal, or the call.
LEMMA RegistryStays ==
    ASSUME RegistryInv, UNCHANGED registryVars
    PROVE  RegistryInv'
BY DEF registryVars, RegistryInv, RegistryTyped, RegistryHolds, RegistryPending

LEMMA QueueStays ==
    ASSUME QueueInv, UNCHANGED queueVars
    PROVE  QueueInv'
BY DEF queueVars, QueueInv, QueueTyped, QueueHolds, QueuePending

LEMMA CallStays ==
    ASSUME CallInv, UNCHANGED <<call, regFile>>
    PROVE  CallInv'
<1>1. ActiveIn(regFile)' = ActiveIn(regFile)
  BY DEF ActiveIn
<1>. QED
  BY <1>1 DEF CallInv

LEMMA InitIInv == Init => IInv
BY RegistryInit, QueueInit DEF Init, IInv, CallInv

LEMMA NextIInv == IInv /\ [Next]_vars => IInv'
<1>. SUFFICES ASSUME IInv, [Next]_vars PROVE IInv'
  OBVIOUS
<1>. USE DEF IInv
<1>1. ASSUME NEW o \in Operators, NEW q \in Policies, NEW long \in BOOLEAN,
             RegisterPolicy(o, q, long)
      PROVE  IInv'
  BY <1>1, RegisterPolicyInv, QueueStays, CallStays
     DEF RegisterPolicy, Registry!RegisterPolicy, Registry!Prepare
<1>2. ASSUME NEW o \in Operators, NEW c \in Registry!Controls, NEW long \in BOOLEAN,
             ApplyControl(o, c, long)
      PROVE  IInv'
  BY <1>2, ApplyControlInv, QueueStays, CallStays
     DEF ApplyControl, Registry!ApplyControl, Registry!Prepare
<1>3. ASSUME NEW o \in Operators, RegistryAppends(o) PROVE IInv'
  <2>1. RegistryInv' /\ QueueInv'
    BY <1>3, RegistryAppendInv, QueueStays DEF RegistryAppends
  <2>2. CallInv'
    BY <1>3, <2>1, WitnessKeeps DEF RegistryAppends, RegistryInv, RegistryTyped
  <2>. QED
    BY <2>1, <2>2
<1>4. ASSUME NEW o \in Operators, RegistryAppendFails(o) PROVE IInv'
  <2>1. RegistryInv' /\ QueueInv'
    BY <1>4, RegistryFailsInv, QueueStays DEF RegistryAppendFails
  <2>2. CallInv'
    BY <1>4, <2>1, WitnessKeeps DEF RegistryAppendFails, RegistryInv, RegistryTyped
  <2>. QED
    BY <2>1, <2>2
<1>5. ASSUME NEW o \in Operators, NEW t \in Queue!Pending(Queue!Scan),
             NEW state \in Resolutions, CloseTicket(o, t, state)
      PROVE  IInv'
  <2>1. t \in Tickets
    BY QueueFileTyped, QueueBook DEF QueueInv, Queue!Pending, Queue!Scan
  <2>. QED
    BY <1>5, <2>1, CloseInv, RegistryStays, CallStays DEF CloseTicket, registryVars
<1>6. ASSUME NEW o \in Operators, QueueAppends(o) PROVE IInv'
  BY <1>6, QueueAppendInv, RegistryStays, CallStays DEF QueueAppends, registryVars
<1>7. ASSUME NEW o \in Operators, QueueAppendFails(o) PROVE IInv'
  BY <1>7, QueueFailsInv, RegistryStays, CallStays DEF QueueAppendFails, registryVars
<1>8. ASSUME NEW q \in Policies, NEW r \in Asked, Inspect(q, r) PROVE IInv'
  BY <1>8, InspectKeeps, RegistryStays, QueueStays DEF Inspect
<1>9. CASE CheckActive
  BY <1>9, CheckActiveKeeps, RegistryStays, QueueStays DEF CheckActive
<1>10. CASE Decide
  BY <1>10, DecideKeeps, RegistryStays, QueueStays DEF Decide
<1>11. CASE Return
  BY <1>11, ReturnKeeps, RegistryStays, QueueStays DEF Return
<1>12. CASE ConsoleChecks
  BY <1>12, ConsoleChecksKeeps, RegistryStays, QueueStays DEF ConsoleChecks
<1>13. CASE Enqueue
  <2>1. call \in Calls /\ TicketOf(call) \in Tickets
    <3>1. call \in Calls
      BY <1>13 DEF Enqueue, At, CallInv
    <3>2. call.request.operation \in Operations
      BY <3>1, CallFields, DeskAssumption DEF Engine!Requests
    <3>. QED
      BY <3>1, <3>2, CallFields DEF TicketOf, Tickets
  <2>2. QueueInv'
    BY <1>13, <2>1, EnqueueInv, DeskAssumption DEF Enqueue
  <2>3. CallInv'
    BY <1>13 DEF Enqueue, CallInv
  <2>. QED
    BY <1>13, <2>2, <2>3, RegistryStays DEF Enqueue
<1>14. CASE EnqueueRefused
  <2>1. CallInv'
    BY <1>14 DEF EnqueueRefused, CallInv
  <2>. QED
    BY <1>14, <2>1, RegistryStays, QueueStays DEF EnqueueRefused
<1>15. CASE UNCHANGED vars
  BY <1>15, RegistryStays, QueueStays, CallStays DEF vars, registryVars
<1>. QED
  BY <1>1, <1>2, <1>3, <1>4, <1>5, <1>6, <1>7, <1>8, <1>9, <1>10, <1>11, <1>12, <1>13,
     <1>14, <1>15 DEF Next

\* The invariant holds in every reachable state.
THEOREM Invariant == Spec => []IInv
BY InitIInv, NextIInv, PTL DEF Spec

\* What an append of either journal acknowledged, while processes raced and
\* appends tore, is in every healthy replay; after a line with a long signature
\* no replay is healthy.
THEOREM AcknowledgedStays == Spec => []Acknowledged
<1>1. IInv => Acknowledged
  <2>. SUFFICES ASSUME IInv PROVE Acknowledged
    OBVIOUS
  <2>1. Registry!RegistryAcked
    BY DEF IInv, RegistryInv, RegistryHolds, HoldsIn, Registry!RegistryAcked, Registry!Scan
  <2>2. Queue!QueueAcked
    <3>. SUFFICES ASSUME Queue!Scan.healthy, NEW l \in queueAcked
                  PROVE  /\ l.ticket \in Queue!Scan.tickets
                         /\ l.kind = "CLOSE" =>
                                {x \in Queue!Scan.closed : x.ticket = l.ticket}
                                    = {[ticket |-> l.ticket, state |-> l.state]}
                         /\ \A m \in queueAcked : l.seq = m.seq => l = m
      BY DEF Queue!QueueAcked
    <3>1. KeepsIn(Queue!Scan, queueAcked)
      BY DEF IInv, QueueInv, QueueHolds, Queue!Scan
    <3>2. PICK y : y = [ticket |-> l.ticket, state |-> l.state]
      OBVIOUS
    <3>3. l.kind = "CLOSE" => {x \in Queue!Scan.closed : x.ticket = l.ticket} = {y}
      <4>1. y.ticket = l.ticket
        BY <3>2
      <4>2. l.kind = "CLOSE" => y \in Queue!Scan.closed
        BY <3>1, <3>2 DEF KeepsIn
      <4>. QED
        BY <3>1, <4>1, <4>2 DEF KeepsIn
    <3>4. l.ticket \in Queue!Scan.tickets /\ \A m \in queueAcked : l.seq = m.seq => l = m
      BY <3>1 DEF KeepsIn
    <3>. QED
      BY <3>2, <3>3, <3>4
  <2>. QED
    BY <2>1, <2>2 DEF Acknowledged
<1>. QED
  BY <1>1, Invariant, PTL

\* A line that nobody overtook between its scan and its append is one that
\* the next scan accepts, at every limit on records, policies and tickets; but
\* a registry line with a long signature, which no operation refuses, never.
THEOREM WritesAreReplayed == Spec => []WritesReplay
<1>1. IInv => WritesReplay
  BY DEF IInv, RegistryInv, RegistryPending, QueueInv, QueuePending, WritesReplay,
         Registry!RegistryReplays, Queue!QueueReplays
<1>. QED
  BY <1>1, Invariant, PTL

\* A policy that answers was the active one during this very evaluation, and
\* its answer is the documented one, for every list of rules.
THEOREM EngineAnswersActive == Spec => []EngineAnswers
<1>1. IInv => EngineAnswers
  <2>. SUFFICES ASSUME IInv, call # None, call.answer # None
                PROVE  /\ call.policy \in call.since
                       /\ call.answer.decision
                            = Engine!Intended(RulesOf[call.policy], call.request)
                       /\ call.answer.status = "DECIDED" =>
                            Engine!Reported(RulesOf[call.policy], call.request,
                                            call.answer.rule)
    BY DEF EngineAnswers
  <2>1. /\ call \in Calls /\ call.policy \in call.since
        /\ call.answer = Engine!Evaluate(RulesOf[call.policy], call.request)
    BY DEF IInv, CallInv
  <2>2. RulesOf[call.policy] \in Seq(Engine!Rules)
    BY <2>1, CallFields, DeskAssumption
  <2>. QED
    BY <2>1, <2>2, EvaluationDocumented
<1>. QED
  BY <1>1, Invariant, PTL

-----------------------------------------------------------------------------
(* The file of the registry implements the register.                        *)

\* A line that is accepted is a step of the register: a registration, or a
\* control that replaces the policy it was signed against.
LEMMA LineRefines ==
    ASSUME NEW b \in Registry!Books, NEW l \in Registry!Lines, b.healthy,
           Registry!Accepts(b, l), regFile.disk = b, regFile'.disk = Registry!ScanLine(b, l)
    PROVE  Registry!Register!Next
<1>. DEFINE d == Registry!ScanLine(b, l)
            c == l.control
<1>1. CASE l.kind = "REGISTER"
  <2>1. l.policy \in Policies /\ l.policy \notin b.known
    BY <1>1, RegistryLine DEF Registry!Accepts
  <2>2. /\ d.healthy /\ d.known = b.known \cup {l.policy} /\ d.ever = b.ever
        /\ d.revoked = b.revoked /\ d.active = b.active /\ d.used = b.used
    BY <1>1, RegistryScan
  <2>. HIDE DEF d
  <2>3. Registry!Register!Register(l.policy)
    BY <2>1, <2>2 DEF Registry!Register!Register, d
  <2>. QED
    BY <2>1, <2>3 DEF Registry!Register!Next
<1>2. CASE l.kind = "CONTROL"
  <2>1. /\ c.policy \in Policies /\ c.expected \in Policies \cup {None} /\ c.nonce \in Nonces
        /\ c.expected = b.active /\ c.policy \in b.known \ b.revoked
        /\ \A u \in b.used : u.nonce # c.nonce
        /\ c.action # "REVOKE" => c.policy # b.active
    BY <1>2, RegistryLine DEF Registry!Accepts, Registry!Fresh, Registry!Possible
  <2>2. d.healthy /\ d.known = b.known /\ d.used = b.used \cup {c}
    BY <1>2, RegistryScan
  <2>3. Registry!Register!Control(c.policy, c.expected, c.nonce)
    <3>1. {u.nonce : u \in d.used} = {u.nonce : u \in b.used} \cup {c.nonce}
      BY <2>2
    <3>2. c.nonce \notin {u.nonce : u \in b.used}
      BY <2>1
    <3>. HIDE DEF d, c
    <3>. QED
      BY <2>1, <2>2, <3>1, <3>2 DEF Registry!Register!Control, d
  <2>4. CASE c.action = "REVOKE"
    <3>1. /\ d.ever = b.ever /\ d.revoked = b.revoked \cup {c.policy}
          /\ d.active = IF b.active = c.policy THEN None ELSE b.active
      BY <1>2, <2>4, RegistryScan
    <3>2. Registry!Register!Revoke(c.policy, c.expected, c.nonce)
      BY <2>3, <3>1 DEF Registry!Register!Revoke
    <3>. QED
      BY <2>1, <3>2 DEF Registry!Register!Next
  <2>5. CASE c.action # "REVOKE"
    <3>1. /\ d.ever = b.ever \cup {c.policy} /\ d.revoked = b.revoked
          /\ d.active = c.policy
      BY <1>2, <2>5, RegistryScan
    <3>2. Registry!Register!Activate(c.policy, c.expected, c.nonce)
      BY <2>1, <2>3, <2>5, <3>1 DEF Registry!Register!Activate
    <3>. QED
      BY <2>1, <3>2 DEF Registry!Register!Next
  <2>. QED
    BY <2>4, <2>5
<1>. QED
  BY <1>1, <1>2, RegistryLine

LEMMA FileRefines ==
    ASSUME RegistryInv, NEW o \in Operators, Registry!Append(o) \/ Registry!AppendFails(o)
    PROVE  [Registry!Register!Next]_(Registry!Register!register)
<1>. DEFINE b == regFile.disk
<1>0. b \in Registry!Books
  BY RegistryFile DEF RegistryInv
<1>1. CASE regFile'.disk = b
  BY <1>1 DEF Registry!Register!register
<1>2. CASE b.healthy /\ regFile'.disk = Registry!Spoil(b)
  <2>. DEFINE d == Registry!Spoil(b)
  <2>1. /\ ~d.healthy /\ d.known = b.known /\ d.ever = b.ever /\ d.revoked = b.revoked
        /\ d.active = b.active /\ d.used = b.used
    BY <1>0, RegistrySpoil
  <2>. HIDE DEF d
  <2>2. Registry!Register!Freeze
    BY <1>2, <2>1 DEF Registry!Register!Freeze, d
  <2>. QED
    BY <2>2 DEF Registry!Register!Next
<1>3. CASE /\ Registry!Append(o)
           /\ b.healthy /\ Registry!Accepts(b, regPending[o])
           /\ regFile'.disk = Registry!ScanLine(b, regPending[o])
  BY <1>0, <1>3, LineRefines, RegistryAppended
<1>4. CASE ~b.healthy /\ regFile'.disk = Registry!Spoil(b)
  <2>1. Registry!Spoil(b) = b
    BY <1>0, <1>4, RegistrySpoil
  <2>. QED
    BY <1>1, <1>4, <2>1
<1>5. CASE Registry!AppendFails(o)
  BY <1>1, <1>5, RegistryFailed
<1>6. CASE Registry!Append(o)
  BY <1>1, <1>2, <1>3, <1>4, <1>6, RegistryAppended
<1>. QED
  BY <1>5, <1>6

LEMMA NextRefines ==
    IInv /\ [Next]_vars => [Registry!Register!Next]_(Registry!Register!register)
<1>. SUFFICES ASSUME IInv, [Next]_vars
              PROVE  [Registry!Register!Next]_(Registry!Register!register)
  OBVIOUS
<1>1. CASE UNCHANGED regFile
  BY <1>1 DEF Registry!Register!register
<1>2. ASSUME NEW o \in Operators, RegistryAppends(o) \/ RegistryAppendFails(o)
      PROVE  [Registry!Register!Next]_(Registry!Register!register)
  BY <1>2, FileRefines DEF IInv, RegistryAppends, RegistryAppendFails
<1>3. UNCHANGED regFile \/ \E o \in Operators : RegistryAppends(o) \/ RegistryAppendFails(o)
  BY DEF Next, vars, registryVars, RegisterPolicy, Registry!RegisterPolicy, ApplyControl,
         Registry!ApplyControl, Registry!Prepare, CloseTicket, QueueAppends,
         QueueAppendFails, Inspect, CheckActive, Decide, Return, ConsoleChecks, Enqueue,
         EnqueueRefused
<1>. QED
  BY <1>1, <1>2, <1>3

\* However the processes interleave and the appends fail, every step of the
\* registry is one of the atomic register: activation is compare-and-swap, a
\* control counts once and a revoked policy does not come back.
THEOREM RegisterImplemented == Spec => ImplementsRegister
<1>1. Init => Registry!Register!Init
  <2>. SUFFICES ASSUME Init PROVE Registry!Register!Init
    OBVIOUS
  <2>. DEFINE b == Registry!EmptyBook
  <2>1. /\ b.known = {} /\ b.ever = {} /\ b.revoked = {} /\ b.active = None
        /\ b.used = {} /\ b.healthy
    BY DEF Registry!EmptyBook
  <2>2. regFile.disk = b
    BY DEF Init, Registry!Init, Registry!EmptyFile
  <2>. HIDE DEF b
  <2>. QED
    BY <2>1, <2>2 DEF Registry!Register!Init
<1>. QED
  BY <1>1, Invariant, NextRefines, PTL
     DEF Spec, ImplementsRegister, Registry!ImplementsRegister, Registry!Register!Spec
=============================================================================
