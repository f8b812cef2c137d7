----------------------------- MODULE FoldLemmas -----------------------------
(***************************************************************************)
(* What the folds of the community modules compute on finite sets: the     *)
(* recursive function a fold is made of exists, and a sum of natural       *)
(* numbers obeys its usual laws.  The proofs are by minimal counterexample *)
(* among the subsets of a finite set.                                      *)
(***************************************************************************)
EXTENDS Integers, Functions, FiniteSetTheorems, WellFoundedInduction, TLAPS

\* A set of subsets of a finite set has a minimal element.
LEMMA MinimalSubset ==
    ASSUME NEW S, IsFiniteSet(S), NEW B \in SUBSET (SUBSET S), B # {}
    PROVE  \E T \in B : \A U \in SUBSET T : U # T => U \notin B
<1>1. IsWellFoundedOn(StrictSubsetOrdering(S), SUBSET S)
  BY FS_StrictSubsetOrderingWellFounded, FS_FiniteSubsetsOfFinite
<1>2. PICK T \in B : \A U \in B : <<U, T>> \notin StrictSubsetOrdering(S)
  BY <1>1, WFMin
<1>3. ASSUME NEW U \in SUBSET T, U # T PROVE U \notin B
  BY <1>2, <1>3 DEF StrictSubsetOrdering
<1>. QED
  BY <1>3

-----------------------------------------------------------------------------
(* The recursive function of a fold: pick[s] is the element taken from s    *)
(* first, step[x] what x does to the value of the rest.                     *)

Solves(f, T, base, pick, step) ==
    f = [s \in SUBSET T |->
            IF s = {} THEN base ELSE step[pick[s]][f[s \ {pick[s]}]]]

Picks(pick, T) == \A s \in SUBSET T : s # {} => pick[s] \in s

Agree(f, g, T) == \A s \in SUBSET T : g[s] = f[s]

LEMMA SolutionUnique ==
    ASSUME NEW T, IsFiniteSet(T), NEW base, NEW step, NEW pick,
           Picks(pick, T),
           NEW f, NEW g, Solves(f, T, base, pick, step), Solves(g, T, base, pick, step)
    PROVE  f = g
<1>. DEFINE B == {s \in SUBSET T : f[s] # g[s]}
<1>0. \A s \in SUBSET T :
        /\ f[s] = IF s = {} THEN base ELSE step[pick[s]][f[s \ {pick[s]}]]
        /\ g[s] = IF s = {} THEN base ELSE step[pick[s]][g[s \ {pick[s]}]]
  BY DEF Solves
<1>1. ASSUME B # {} PROVE FALSE
  <2>0. B \in SUBSET (SUBSET T)
    OBVIOUS
  <2>1. PICK s \in B : \A u \in SUBSET s : u # s => u \notin B
    <3>. HIDE DEF B
    <3>. QED
      BY <1>1, <2>0, MinimalSubset
  <2>2. s # {} /\ pick[s] \in s
    BY <1>0, <2>1 DEF Picks
  <2>3. s \ {pick[s]} \in SUBSET s /\ s \ {pick[s]} # s /\ s \ {pick[s]} \in SUBSET T
    BY <2>1, <2>2
  <2>4. f[s \ {pick[s]}] = g[s \ {pick[s]}]
    BY <2>1, <2>3
  <2>5. f[s] = step[pick[s]][f[s \ {pick[s]}]] /\ g[s] = step[pick[s]][g[s \ {pick[s]}]]
    BY <1>0, <2>1, <2>2
  <2>6. f[s] = g[s]
    BY <2>4, <2>5
  <2>. QED
    BY <2>1, <2>6
<1>2. \A s \in SUBSET T : f[s] = g[s]
  BY <1>1
<1>. QED
  BY <1>2 DEF Solves

LEMMA SolutionRestricts ==
    ASSUME NEW T, NEW U \in SUBSET T, NEW base, NEW step, NEW pick,
           Picks(pick, T),
           NEW f, Solves(f, T, base, pick, step)
    PROVE  \E g : /\ Solves(g, U, base, pick, step)
                  /\ Agree(f, g, U)
<1>. DEFINE g == [s \in SUBSET U |-> f[s]]
<1>1. ASSUME NEW s \in SUBSET U
      PROVE  g[s] = IF s = {} THEN base ELSE step[pick[s]][g[s \ {pick[s]}]]
  <2>1. s \in SUBSET T /\ s \ {pick[s]} \in SUBSET U
    OBVIOUS
  <2>2. f[s] = IF s = {} THEN base ELSE step[pick[s]][f[s \ {pick[s]}]]
    BY <2>1 DEF Solves
  <2>. QED
    BY <2>1, <2>2
<1>2. Solves(g, U, base, pick, step)
  BY <1>1 DEF Solves
<1>3. Agree(f, g, U)
  BY DEF Agree
<1>. HIDE DEF g
<1>. QED
  BY <1>2, <1>3

LEMMA SolutionExists ==
    ASSUME NEW S, IsFiniteSet(S), NEW base, NEW step, NEW pick,
           Picks(pick, S)
    PROVE  \E f : Solves(f, S, base, pick, step)
<1>. DEFINE Sol(f, T) == Solves(f, T, base, pick, step)
            B == {T \in SUBSET S : ~ \E f : Sol(f, T)}
            F(T) == CHOOSE f : Sol(f, T)
<1>1. ASSUME B # {} PROVE FALSE
  <2>0. B \in SUBSET (SUBSET S)
    OBVIOUS
  <2>1. PICK T \in B : \A U \in SUBSET T : U # T => U \notin B
    <3>. HIDE DEF B
    <3>. QED
      BY <1>1, <2>0, MinimalSubset
  <2>. DEFINE rest(s) == s \ {pick[s]}
              f == [s \in SUBSET T |->
                        IF s = {} THEN base ELSE step[pick[s]][F(rest(s))[rest(s)]]]
  <2>2. ASSUME NEW U \in SUBSET T, U # T PROVE Sol(F(U), U)
    <3>1. \E g : Sol(g, U)
      BY <2>1, <2>2
    <3>. HIDE DEF Sol
    <3>. QED
      BY <3>1
  <2>3. ASSUME NEW s \in SUBSET T, s # {} PROVE f[rest(s)] = F(rest(s))[rest(s)]
    <3>. DEFINE u == rest(s)
    <3>1. u \in SUBSET T /\ u # T
      BY <2>3 DEF Picks
    <3>2. Sol(F(u), u)
      BY <2>2, <3>1
    <3>3. F(u)[u] = IF u = {} THEN base ELSE step[pick[u]][F(u)[rest(u)]]
      <4>. DEFINE h == F(u)
      <4>1. Sol(h, u)
        BY <3>2
      <4>. HIDE DEF h
      <4>2. h[u] = IF u = {} THEN base ELSE step[pick[u]][h[rest(u)]]
        BY <4>1 DEF Solves
      <4>. QED
        BY <4>2 DEF h
    <3>4. ASSUME u # {} PROVE F(u)[rest(u)] = F(rest(u))[rest(u)]
      <4>. DEFINE v == rest(u)
      <4>1. v \in SUBSET u /\ v \in SUBSET T /\ v # T
        BY <3>1
      <4>2. Sol(F(v), v)
        BY <2>2, <4>1
      <4>3. /\ Sol(F(u), u)
            /\ Picks(pick, u) /\ Picks(pick, v)
        BY <3>1, <3>2, <4>1 DEF Picks
      <4>4. IsFiniteSet(v)
        BY <4>1, FS_Subset
      <4>. HIDE DEF F, u, v
      <4>5. PICK g : Sol(g, v) /\ Agree(F(u), g, v)
        BY <4>1, <4>3, SolutionRestricts
      <4>6. F(v) = g
        BY <4>2, <4>3, <4>4, <4>5, SolutionUnique
      <4>7. v \in SUBSET v
        OBVIOUS
      <4>. QED
        BY <4>5, <4>6, <4>7 DEF v, Agree
    <3>5. f[u] = IF u = {} THEN base ELSE step[pick[u]][F(rest(u))[rest(u)]]
      BY <3>1
    <3>. QED
      BY <3>3, <3>4, <3>5
  <2>4. Sol(f, T)
    <3>1. ASSUME NEW s \in SUBSET T
          PROVE  f[s] = IF s = {} THEN base ELSE step[pick[s]][f[s \ {pick[s]}]]
      <4>1. f[s] = IF s = {} THEN base ELSE step[pick[s]][F(rest(s))[rest(s)]]
        OBVIOUS
      <4>. HIDE DEF f, F
      <4>. QED
        BY <2>3, <4>1
    <3>2. f = [s \in SUBSET T |-> f[s]]
      OBVIOUS
    <3>. HIDE DEF f
    <3>. QED
      BY <3>1, <3>2 DEF Solves
  <2>. QED
    BY <2>1, <2>4
<1>2. S \notin B
  BY <1>1
<1>. QED
  BY <1>2

\* The values of a fold have the type its step has.
LEMMA SolutionTyped ==
    ASSUME NEW S, IsFiniteSet(S), NEW V, NEW base \in V, NEW step \in [S -> [V -> V]],
           NEW pick, Picks(pick, S), NEW f, Solves(f, S, base, pick, step)
    PROVE  \A s \in SUBSET S : f[s] \in V
<1>. DEFINE B == {s \in SUBSET S : f[s] \notin V}
<1>1. ASSUME B # {} PROVE FALSE
  <2>0. B \in SUBSET (SUBSET S)
    OBVIOUS
  <2>1. PICK s \in B : \A u \in SUBSET s : u # s => u \notin B
    <3>. HIDE DEF B
    <3>. QED
      BY <1>1, <2>0, MinimalSubset
  <2>2. f[s] = IF s = {} THEN base ELSE step[pick[s]][f[s \ {pick[s]}]]
    BY <2>1 DEF Solves
  <2>3. s # {} /\ pick[s] \in s
    BY <2>1, <2>2 DEF Picks
  <2>4. s \ {pick[s]} \in SUBSET s /\ s \ {pick[s]} # s /\ s \ {pick[s]} \in SUBSET S
    BY <2>1, <2>3
  <2>5. f[s \ {pick[s]}] \in V
    BY <2>1, <2>4
  <2>6. f[s] = step[pick[s]][f[s \ {pick[s]}]] /\ pick[s] \in S
    BY <2>1, <2>2, <2>3
  <2>7. step[pick[s]] \in [V -> V]
    BY <2>6
  <2>8. f[s] \in V
    BY <2>5, <2>6, <2>7
  <2>. QED
    BY <2>1, <2>8
<1>. QED
  BY <1>1

-----------------------------------------------------------------------------
(* Sums of natural numbers.                                                 *)

\* Whatever element is taken first.
Some(s) == CHOOSE x \in s : TRUE

Sums(f, w, S) ==
    /\ f \in [SUBSET S -> Nat]
    /\ \A s \in SUBSET S :
            f[s] = IF s = {} THEN 0 ELSE w[Some(s)] + f[s \ {Some(s)}]

LEMMA SumFold ==
    ASSUME NEW D, NEW w \in [D -> Nat], NEW S \in SUBSET D, IsFiniteSet(S)
    PROVE  \E f : Sums(f, w, S) /\ SumFunctionOnSet(w, S) = f[S]
<1>. DEFINE pick == [s \in SUBSET S |-> Some(s)]
            step == [x \in S |-> [n \in Nat |-> w[x] + n]]
            iter == CHOOSE f :
                        f = [s \in SUBSET S |->
                                IF s = {} THEN 0 ELSE w[Some(s)] + f[s \ {Some(s)}]]
<1>1. Picks(pick, S)
  BY DEF Picks, Some
<1>2. step \in [S -> [Nat -> Nat]] /\ 0 \in Nat
  OBVIOUS
<1>3. PICK g : Solves(g, S, 0, pick, step)
  BY <1>1, SolutionExists
<1>4. \A s \in SUBSET S : g[s] \in Nat
  <2>. HIDE DEF pick, step
  <2>. QED
    BY <1>1, <1>2, <1>3, SolutionTyped
<1>5. ASSUME NEW s \in SUBSET S
      PROVE  g[s] = IF s = {} THEN 0 ELSE w[Some(s)] + g[s \ {Some(s)}]
  <2>1. g[s] = IF s = {} THEN 0 ELSE step[pick[s]][g[s \ {pick[s]}]]
    BY <1>3 DEF Solves
  <2>2. s # {} => Some(s) \in s /\ s \ {Some(s)} \in SUBSET S
    BY DEF Some
  <2>. QED
    BY <1>4, <2>1, <2>2
<1>6. g = [s \in SUBSET S |-> IF s = {} THEN 0 ELSE w[Some(s)] + g[s \ {Some(s)}]]
  <2>1. g = [s \in SUBSET S |-> g[s]]
    BY <1>3 DEF Solves
  <2>. QED
    BY <1>5, <2>1
<1>7. iter = [s \in SUBSET S |-> IF s = {} THEN 0 ELSE w[Some(s)] + iter[s \ {Some(s)}]]
  BY <1>6
<1>8. SumFunctionOnSet(w, S) = iter[S]
  BY DEF SumFunctionOnSet, FoldFunctionOnSet, MapThenFoldSet, Some
<1>. HIDE DEF iter
<1>9. \A s \in SUBSET S :
        iter[s] = IF s = {} THEN 0 ELSE w[Some(s)] + iter[s \ {Some(s)}]
  BY <1>7
<1>. DEFINE B == {s \in SUBSET S : iter[s] \notin Nat}
<1>10. ASSUME B # {} PROVE FALSE
  <2>0. B \in SUBSET (SUBSET S)
    OBVIOUS
  <2>1. PICK s \in B : \A u \in SUBSET s : u # s => u \notin B
    <3>. HIDE DEF B
    <3>. QED
      BY <1>10, <2>0, MinimalSubset
  <2>2. s # {} /\ Some(s) \in s
    <3>1. iter[{}] = 0
      BY <1>9
    <3>2. iter[s] \notin Nat
      BY <2>1
    <3>3. s # {}
      BY <3>1, <3>2
    <3>. QED
      BY <3>3 DEF Some
  <2>3. s \ {Some(s)} \in SUBSET s /\ s \ {Some(s)} # s /\ s \ {Some(s)} \in SUBSET S
    BY <2>1, <2>2
  <2>4. iter[s \ {Some(s)}] \in Nat
    BY <2>1, <2>3
  <2>5. iter[s] = w[Some(s)] + iter[s \ {Some(s)}] /\ w[Some(s)] \in Nat
    BY <1>9, <2>1, <2>2
  <2>. QED
    BY <2>1, <2>4, <2>5
<1>11. iter \in [SUBSET S -> Nat]
  BY <1>7, <1>10
<1>. QED
  BY <1>8, <1>9, <1>11 DEF Sums

\* The sum over a subset is what the fold over the whole set takes it for.
LEMMA SumPart ==
    ASSUME NEW D, NEW w \in [D -> Nat], NEW S \in SUBSET D, IsFiniteSet(S),
           NEW f, Sums(f, w, S), NEW T \in SUBSET S
    PROVE  f[T] = SumFunctionOnSet(w, T)
<1>1. IsFiniteSet(T) /\ T \in SUBSET D
  BY FS_Subset
<1>2. PICK g : Sums(g, w, T) /\ SumFunctionOnSet(w, T) = g[T]
  BY <1>1, SumFold
<1>. DEFINE B == {s \in SUBSET T : f[s] # g[s]}
<1>3. ASSUME B # {} PROVE FALSE
  <2>0. B \in SUBSET (SUBSET T)
    OBVIOUS
  <2>1. PICK s \in B : \A u \in SUBSET s : u # s => u \notin B
    <3>. HIDE DEF B
    <3>. QED
      BY <1>1, <1>3, <2>0, MinimalSubset
  <2>2. s # {} /\ Some(s) \in s
    BY <1>2, <2>1 DEF Some, Sums
  <2>3. s \ {Some(s)} \in SUBSET s /\ s \ {Some(s)} # s /\ s \ {Some(s)} \in SUBSET T
    BY <2>1, <2>2
  <2>4. f[s \ {Some(s)}] = g[s \ {Some(s)}]
    BY <2>1, <2>3
  <2>5. f[s] = w[Some(s)] + f[s \ {Some(s)}] /\ g[s] = w[Some(s)] + g[s \ {Some(s)}]
    BY <1>2, <2>1, <2>2 DEF Sums
  <2>. QED
    BY <2>1, <2>4, <2>5
<1>. QED
  BY <1>2, <1>3

LEMMA SumStep ==
    ASSUME NEW D, NEW w \in [D -> Nat], NEW S \in SUBSET D, IsFiniteSet(S)
    PROVE  /\ SumFunctionOnSet(w, S) \in Nat
           /\ S = {} => SumFunctionOnSet(w, S) = 0
           /\ S # {} =>
                SumFunctionOnSet(w, S) = w[Some(S)] + SumFunctionOnSet(w, S \ {Some(S)})
<1>1. PICK f : Sums(f, w, S) /\ SumFunctionOnSet(w, S) = f[S]
  BY SumFold
<1>2. S \in SUBSET S /\ S \ {Some(S)} \in SUBSET S
  OBVIOUS
<1>3. f[S \ {Some(S)}] = SumFunctionOnSet(w, S \ {Some(S)})
  BY <1>1, <1>2, SumPart
<1>. QED
  BY <1>1, <1>2, <1>3 DEF Sums

\* Any element may be taken out.
LEMMA SumTake ==
    ASSUME NEW D, NEW w \in [D -> Nat], NEW S \in SUBSET D, IsFiniteSet(S), NEW x \in S
    PROVE  SumFunctionOnSet(w, S) = w[x] + SumFunctionOnSet(w, S \ {x})
<1>. DEFINE B == {s \in SUBSET S : \E y \in s :
                    SumFunctionOnSet(w, s) # w[y] + SumFunctionOnSet(w, s \ {y})}
<1>0. \A s \in SUBSET S : IsFiniteSet(s) /\ s \in SUBSET D
  BY FS_Subset
<1>1. ASSUME B # {} PROVE FALSE
  <2>0. B \in SUBSET (SUBSET S)
    OBVIOUS
  <2>1. PICK s \in B : \A u \in SUBSET s : u # s => u \notin B
    <3>. HIDE DEF B
    <3>. QED
      BY <1>1, <2>0, MinimalSubset
  <2>2. PICK y \in s : SumFunctionOnSet(w, s) # w[y] + SumFunctionOnSet(w, s \ {y})
    BY <2>1
  <2>. DEFINE z == Some(s)
  <2>3. z \in s /\ s # {}
    BY <2>2 DEF Some
  <2>4. s \in SUBSET D /\ IsFiniteSet(s)
    BY <1>0, <2>1
  <2>5. SumFunctionOnSet(w, s) = w[z] + SumFunctionOnSet(w, s \ {z})
    BY <2>3, <2>4, SumStep
  <2>6. y # z
    BY <2>2, <2>5
  <2>. HIDE DEF z
  <2>7. /\ s \ {z} \in SUBSET s /\ s \ {z} # s /\ s \ {z} \in SUBSET S
        /\ s \ {y} \in SUBSET s /\ s \ {y} # s /\ s \ {y} \in SUBSET S
        /\ y \in s \ {z} /\ z \in s \ {y}
    BY <2>1, <2>2, <2>3, <2>6
  <2>8. SumFunctionOnSet(w, s \ {z}) = w[y] + SumFunctionOnSet(w, (s \ {z}) \ {y})
    BY <2>1, <2>7
  <2>9. SumFunctionOnSet(w, s \ {y}) = w[z] + SumFunctionOnSet(w, (s \ {y}) \ {z})
    BY <2>1, <2>7
  <2>10. (s \ {z}) \ {y} = (s \ {y}) \ {z}
    OBVIOUS
  <2>11. /\ w[y] \in Nat /\ w[z] \in Nat
         /\ (s \ {z}) \ {y} \in SUBSET S
    BY <2>2, <2>3, <2>4, <2>7
  <2>12. PICK n \in Nat : n = SumFunctionOnSet(w, (s \ {z}) \ {y})
    BY <1>0, <2>11, SumStep
  <2>13. SumFunctionOnSet(w, s) = w[z] + (w[y] + n)
    BY <2>5, <2>8, <2>12
  <2>14. SumFunctionOnSet(w, s \ {y}) = w[z] + n
    BY <2>9, <2>10, <2>12
  <2>. QED
    BY <2>2, <2>11, <2>13, <2>14
<1>2. S \in SUBSET S
  OBVIOUS
<1>. QED
  BY <1>1, <1>2

\* A sum of natural numbers is one; over nothing it is 0; a new element adds
\* its weight.
LEMMA SumLaws ==
    ASSUME NEW D, NEW w \in [D -> Nat], NEW S \in SUBSET D, IsFiniteSet(S)
    PROVE  /\ SumFunctionOnSet(w, S) \in Nat
           /\ S = {} => SumFunctionOnSet(w, S) = 0
           /\ \A x \in D \ S : SumFunctionOnSet(w, S \cup {x}) = SumFunctionOnSet(w, S) + w[x]
<1>1. ASSUME NEW x \in D \ S
      PROVE  SumFunctionOnSet(w, S \cup {x}) = SumFunctionOnSet(w, S) + w[x]
  <2>1. /\ S \cup {x} \in SUBSET D /\ IsFiniteSet(S \cup {x}) /\ x \in S \cup {x}
        /\ (S \cup {x}) \ {x} = S
    BY FS_AddElement
  <2>2. SumFunctionOnSet(w, S \cup {x}) = w[x] + SumFunctionOnSet(w, S)
    BY <2>1, SumTake
  <2>3. SumFunctionOnSet(w, S) \in Nat /\ w[x] \in Nat
    BY SumStep
  <2>. QED
    BY <2>2, <2>3
<1>. QED
  BY <1>1, SumStep

\* More elements, and heavier ones, do not make a sum smaller.
LEMMA SumGrows ==
    ASSUME NEW D, NEW w \in [D -> Nat], NEW v \in [D -> Nat],
           NEW S \in SUBSET D, IsFiniteSet(S), NEW T \in SUBSET S,
           \A x \in T : w[x] <= v[x]
    PROVE  SumFunctionOnSet(w, T) <= SumFunctionOnSet(v, S)
<1>. DEFINE B == {s \in SUBSET S : ~(SumFunctionOnSet(w, s \cap T) <= SumFunctionOnSet(v, s))}
<1>0. \A s \in SUBSET S : IsFiniteSet(s) /\ s \in SUBSET D
  BY FS_Subset
<1>1. ASSUME B # {} PROVE FALSE
  <2>0. B \in SUBSET (SUBSET S)
    OBVIOUS
  <2>1. PICK s \in B : \A u \in SUBSET s : u # s => u \notin B
    <3>. HIDE DEF B
    <3>. QED
      BY <1>1, <2>0, MinimalSubset
  <2>2. s # {}
    <3>1. {} \cap T = {} /\ {} \in SUBSET D /\ IsFiniteSet({})
      BY FS_EmptySet
    <3>2. SumFunctionOnSet(w, {}) = 0 /\ SumFunctionOnSet(v, {}) = 0
      BY <3>1, SumLaws
    <3>3. SumFunctionOnSet(w, {} \cap T) <= SumFunctionOnSet(v, {})
      BY <3>1, <3>2
    <3>. QED
      BY <2>1, <3>3
  <2>3. PICK x \in s : TRUE
    BY <2>2
  <2>. DEFINE u == s \ {x}
  <2>4. u \in SUBSET s /\ u # s /\ u \in SUBSET S
    BY <2>1, <2>3
  <2>5. SumFunctionOnSet(w, u \cap T) <= SumFunctionOnSet(v, u)
    BY <2>1, <2>4
  <2>6. SumFunctionOnSet(v, s) = v[x] + SumFunctionOnSet(v, u)
    BY <1>0, <2>1, <2>3, SumTake
  <2>7. /\ SumFunctionOnSet(w, u \cap T) \in Nat /\ SumFunctionOnSet(v, u) \in Nat /\ x \in D
        /\ v[x] \in Nat /\ w[x] \in Nat
    <3>1. u \cap T \in SUBSET S
      BY <2>4
    <3>2. x \in D
      BY <2>1, <2>3
    <3>. QED
      BY <1>0, <2>4, <3>1, <3>2, SumLaws
  <2>8. CASE x \in T
    <3>1. s \cap T \in SUBSET S /\ x \in s \cap T /\ (s \cap T) \ {x} = u \cap T
      BY <2>1, <2>3, <2>8
    <3>2. SumFunctionOnSet(w, s \cap T) = w[x] + SumFunctionOnSet(w, u \cap T)
      BY <1>0, <3>1, SumTake
    <3>. HIDE DEF u
    <3>3. SumFunctionOnSet(w, s \cap T) <= SumFunctionOnSet(v, s)
      BY <2>5, <2>6, <2>7, <2>8, <3>2
    <3>. QED
      BY <2>1, <3>3
  <2>9. CASE x \notin T
    <3>1. s \cap T = u \cap T
      BY <2>9
    <3>. HIDE DEF u
    <3>2. SumFunctionOnSet(w, s \cap T) = SumFunctionOnSet(w, u \cap T)
      BY <3>1
    <3>3. SumFunctionOnSet(w, s \cap T) <= SumFunctionOnSet(v, s)
      BY <2>5, <2>6, <2>7, <3>2
    <3>. QED
      BY <2>1, <3>3
  <2>. QED
    BY <2>8, <2>9
<1>2. S \in SUBSET S /\ S \cap T = T
  OBVIOUS
<1>. QED
  BY <1>1, <1>2

\* Equal weights give equal sums.
LEMMA SumSame ==
    ASSUME NEW D, NEW w \in [D -> Nat], NEW v \in [D -> Nat],
           NEW S \in SUBSET D, IsFiniteSet(S),
           \A x \in S : w[x] = v[x]
    PROVE  SumFunctionOnSet(w, S) = SumFunctionOnSet(v, S)
<1>1. S \in SUBSET S /\ (\A x \in S : w[x] <= v[x]) /\ (\A x \in S : v[x] <= w[x])
  <2>1. \A x \in S : w[x] \in Nat /\ v[x] \in Nat
    OBVIOUS
  <2>. QED
    BY <2>1
<1>2. SumFunctionOnSet(w, S) <= SumFunctionOnSet(v, S)
  BY <1>1, SumGrows
<1>3. SumFunctionOnSet(v, S) <= SumFunctionOnSet(w, S)
  BY <1>1, SumGrows
<1>4. SumFunctionOnSet(w, S) \in Nat /\ SumFunctionOnSet(v, S) \in Nat
  BY SumLaws
<1>. QED
  BY <1>2, <1>3, <1>4

\* One weight that grows by n makes a sum over it grow by n, and no other.
LEMMA SumBump ==
    ASSUME NEW D, NEW w \in [D -> Nat], NEW v \in [D -> Nat],
           NEW S \in SUBSET D, IsFiniteSet(S), NEW x \in D, NEW n \in Nat,
           \A y \in D : v[y] = IF y = x THEN w[x] + n ELSE w[y]
    PROVE  SumFunctionOnSet(v, S) = SumFunctionOnSet(w, S) + (IF x \in S THEN n ELSE 0)
<1>1. v[x] = w[x] + n
  OBVIOUS
<1>2. S \ {x} \in SUBSET D /\ IsFiniteSet(S \ {x}) /\ \A y \in S \ {x} : w[y] = v[y]
  BY FS_Subset
<1>3. PICK r \in Nat : r = SumFunctionOnSet(w, S \ {x})
  BY <1>2, SumLaws
<1>4. SumFunctionOnSet(v, S \ {x}) = r
  BY <1>2, <1>3, SumSame
<1>5. CASE x \in S
  <2>1. SumFunctionOnSet(w, S) = w[x] + r /\ SumFunctionOnSet(v, S) = v[x] + r
    BY <1>3, <1>4, <1>5, SumTake
  <2>2. w[x] \in Nat /\ v[x] = w[x] + n
    BY <1>1
  <2>. QED
    BY <1>5, <2>1, <2>2
<1>6. CASE x \notin S
  <2>1. S \ {x} = S
    BY <1>6
  <2>. QED
    BY <1>3, <1>4, <1>6, <2>1
<1>. QED
  BY <1>5, <1>6

\* Weights that are 0 sum up to 0.
LEMMA SumZero ==
    ASSUME NEW D, NEW w \in [D -> Nat], NEW S \in SUBSET D, IsFiniteSet(S),
           \A x \in S : w[x] = 0
    PROVE  SumFunctionOnSet(w, S) = 0
PROOF
  <1> DEFINE B == {T \in SUBSET S : SumFunctionOnSet(w, T) # 0}
  <1>1. CASE B # {}
    <2>1. PICK T \in B : \A U \in SUBSET T : U # T => U \notin B
      <3>0. B \in SUBSET (SUBSET S)
        OBVIOUS
      <3> HIDE DEF B
      <3> QED
        BY <1>1, <3>0, MinimalSubset
    <2>2. T \in SUBSET D /\ IsFiniteSet(T)
      BY FS_Subset
    <2>3. T # {}
      BY <2>1, <2>2, SumLaws
    <2>4. PICK x \in T : TRUE
      BY <2>3
    <2>5. SumFunctionOnSet(w, T) = w[x] + SumFunctionOnSet(w, T \ {x})
      BY <2>2, <2>4, SumTake
    <2>6. SumFunctionOnSet(w, T \ {x}) = 0
      BY <2>1, <2>4
    <2>7. w[x] = 0
      BY <2>1, <2>4
    <2> QED
      BY <2>1, <2>5, <2>6, <2>7
  <1> QED
    BY <1>1
=============================================================================
