------------------------------ MODULE FoldLemmas ------------------------------
(***************************************************************************)
(* What the sums, the extremes and the folds of the community modules      *)
(* return, for the theorems about capacity.  They choose the function that *)
(* satisfies a recursive equation, so first that function is shown to      *)
(* exist: by induction over the subsets of a finite set, for which the     *)
(* library's well-foundedness of strict inclusion stands (SetInduction).   *)
(***************************************************************************)
EXTENDS Integers, Functions, FiniteSetsExt, FiniteSetTheorems, WellFoundedInduction, TLAPS

------------------------------------------------------------------------------
(* Folds over a finite set. *)

\* Induction over the subsets of a finite set: a set of sets that holds each set
\* whose proper subsets it holds, holds them all.
LEMMA SetInduction ==
  ASSUME NEW S, IsFiniteSet(S), NEW T,
         \A s \in SUBSET S : (\A t \in SUBSET s : t # s => t \in T) => s \in T
  PROVE  \A s \in SUBSET S : s \in T
<1>1. IsWellFoundedOn(StrictSubsetOrdering(S), SUBSET S)
  <2>1. FiniteSubsetsOf(S) = SUBSET S
    BY FS_FiniteSubsetsOfFinite
  <2> QED
    BY <2>1, FS_StrictSubsetOrderingWellFounded
<1> DEFINE Missing == {s \in SUBSET S : s \notin T}
<1> SUFFICES ASSUME Missing # {} PROVE FALSE
  OBVIOUS
<1>2. PICK s \in Missing : \A t \in Missing : <<t, s>> \notin StrictSubsetOrdering(S)
  <2>1. Missing \subseteq SUBSET S
    OBVIOUS
  <2> HIDE DEF Missing
  <2> QED
    BY <1>1, <2>1, WFMin
<1>3. \A t \in SUBSET s : t # s => t \in T
  BY <1>2 DEF StrictSubsetOrdering
<1> QED
  BY <1>3

\* A fold over the subsets of S with values in V: it starts with base, takes the
\* elements of a set in the order in which c chooses them, and goes on with step.
Foldable(S, V, base, c, step) ==
  /\ IsFiniteSet(S)
  /\ base \in V
  /\ \A s \in SUBSET S : s # {} => c[s] \in s
  /\ step \in [SUBSET S -> [V -> V]]

\* Its table: a value for every subset.
IsFold(it, S, V, base, c, step) ==
  /\ it \in [SUBSET S -> V]
  /\ \A s \in SUBSET S : it[s] = IF s = {} THEN base ELSE step[s][it[s \ {c[s]}]]

\* Two folds agree where both are defined.
LEMMA FoldUnique ==
  ASSUME NEW S, NEW V, NEW base, NEW c, NEW step, Foldable(S, V, base, c, step),
         NEW s1 \in SUBSET S, NEW s2 \in SUBSET S, NEW h1, NEW h2,
         IsFold(h1, s1, V, base, c, step), IsFold(h2, s2, V, base, c, step)
  PROVE  \A s \in SUBSET s1 : s \in SUBSET s2 => h1[s] = h2[s]
<1> DEFINE Same == {s \in SUBSET S : s \in SUBSET s1 /\ s \in SUBSET s2 => h1[s] = h2[s]}
<1>1. ASSUME NEW s \in SUBSET S, \A t \in SUBSET s : t # s => t \in Same
      PROVE  s \in Same
  <2> SUFFICES ASSUME s \in SUBSET s1, s \in SUBSET s2, s # {}
               PROVE  h1[s] = h2[s]
    BY DEF IsFold
  <2>1. c[s] \in s
    BY DEF Foldable
  <2> DEFINE t == s \ {c[s]}
  <2>2. t \in SUBSET s /\ t # s /\ t \in SUBSET s1 /\ t \in SUBSET s2
    BY <2>1
  <2>3. h1[t] = h2[t]
    BY <1>1, <2>2
  <2>4. h1[s] = step[s][h1[t]] /\ h2[s] = step[s][h2[t]]
    BY DEF IsFold
  <2> QED
    BY <2>3, <2>4
<1>2. \A s \in SUBSET S : s \in Same
  <2> HIDE DEF Same
  <2> QED
    BY <1>1, SetInduction DEF Foldable
<1> QED
  BY <1>2

\* There is a fold over every finite set.
LEMMA FoldExists ==
  ASSUME NEW S, NEW V, NEW base, NEW c, NEW step, Foldable(S, V, base, c, step)
  PROVE  \E it : IsFold(it, S, V, base, c, step)
<1> DEFINE Folds(h, s) == IsFold(h, s, V, base, c, step)
           One(s) == CHOOSE h : Folds(h, s)
           Folded == {s \in SUBSET S : \E h : Folds(h, s)}
<1>1. ASSUME NEW s \in SUBSET S, \A t \in SUBSET s : t # s => t \in Folded
      PROVE  s \in Folded
  <2> DEFINE Value(t) == IF t = {} THEN base ELSE step[t][One(t \ {c[t]})[t \ {c[t]}]]
             g == [t \in SUBSET s |-> Value(t)]
  <2>2. ASSUME NEW t \in SUBSET s, t # s
        PROVE  Folds(One(t), t)
    <3>1. \E h : Folds(h, t)
      BY <1>1, <2>2
    <3> HIDE DEF Folds
    <3> QED
      BY <3>1
  <2>3. ASSUME NEW t \in SUBSET s, t # {}
        PROVE  /\ t \in SUBSET S /\ c[t] \in t
               /\ t \ {c[t]} \in SUBSET s /\ t \ {c[t]} # s /\ t \ {c[t]} \in SUBSET t
               /\ t \ {c[t]} \in SUBSET S
    BY <2>3 DEF Foldable
  <2>4. \A t \in SUBSET s : Value(t) \in V
    <3> SUFFICES ASSUME NEW t \in SUBSET s, t # {}
                 PROVE  step[t][One(t \ {c[t]})[t \ {c[t]}]] \in V
      BY DEF Foldable
    <3>1. Folds(One(t \ {c[t]}), t \ {c[t]})
      BY <2>2, <2>3
    <3> HIDE DEF One
    <3>2. One(t \ {c[t]})[t \ {c[t]}] \in V
      BY <3>1 DEF IsFold
    <3> QED
      BY <2>3, <3>2 DEF Foldable
  <2>5. ASSUME NEW t \in SUBSET s, t # s
        PROVE  Value(t) = One(t)[t]
    <3>1. CASE t = {}
      <4>1. Folds(One(t), t)
        BY <2>2, <2>5
      <4> HIDE DEF One
      <4> QED
        BY <3>1, <4>1 DEF IsFold
    <3>2. CASE t # {}
      <4> DEFINE u == t \ {c[t]}
      <4>1. Folds(One(t), t) /\ Folds(One(u), u)
        BY <2>2, <2>3, <2>5, <3>2
      <4>2. t \in SUBSET S /\ u \in SUBSET S /\ u \in SUBSET t
        BY <2>3, <3>2
      <4> HIDE DEF One, u
      <4>3. One(t)[u] = One(u)[u]
        <5>1. \A v \in SUBSET t : v \in SUBSET u => One(t)[v] = One(u)[v]
          BY <4>1, <4>2, FoldUnique
        <5> QED
          BY <5>1, <4>2
      <4>4. One(t)[t] = step[t][One(t)[u]]
        BY <4>1, <3>2 DEF IsFold, u
      <4> QED
        BY <4>3, <4>4, <3>2 DEF u
    <3> QED
      BY <3>1, <3>2
  <2>6. Folds(g, s)
    <3> HIDE DEF One
    <3>1. g \in [SUBSET s -> V]
      <4> HIDE DEF Value
      <4> QED BY <2>4
    <3>2. ASSUME NEW t \in SUBSET s
          PROVE  g[t] = IF t = {} THEN base ELSE step[t][g[t \ {c[t]}]]
      <4>1. CASE t = {}
        BY <4>1
      <4>2. CASE t # {}
        <5>1. g[t \ {c[t]}] = One(t \ {c[t]})[t \ {c[t]}]
          <6> HIDE DEF Value
          <6> QED BY <2>3, <2>5, <4>2
        <5> QED
          BY <4>2, <5>1
      <4> QED
        BY <4>1, <4>2
    <3> HIDE DEF g
    <3> QED
      BY <3>1, <3>2 DEF IsFold
  <2> HIDE DEF Folds, g
  <2> QED
    BY <2>6
<1>2. \A s \in SUBSET S : s \in Folded
  <2> HIDE DEF Folded
  <2> QED
    BY <1>1, SetInduction DEF Foldable
<1> QED
  BY <1>2

------------------------------------------------------------------------------
(* Sums. *)

\* A table of sums as the definition of SumFunctionOnSet makes it.
IsSum(it, f, S) ==
  /\ it \in [SUBSET S -> Int]
  /\ \A s \in SUBSET S :
       it[s] = IF s = {} THEN 0
               ELSE f[CHOOSE x \in s : TRUE] + it[s \ {CHOOSE x \in s : TRUE}]
  /\ SumFunctionOnSet(f, S) = it[S]

\* SumFunctionOnSet chooses such a table: there is one, by FoldExists.
LEMMA SumFolds ==
  ASSUME NEW S, IsFiniteSet(S), NEW f, \A x \in S : f[x] \in Int
  PROVE  \E it : IsSum(it, f, S)
<1> DEFINE c == [s \in SUBSET S |-> CHOOSE x \in s : TRUE]
           step == [s \in SUBSET S |-> [v \in Int |-> IF s = {} THEN 0 ELSE f[c[s]] + v]]
           it == CHOOSE it : it = [s \in SUBSET S |->
             IF s = {} THEN 0
             ELSE f[CHOOSE x \in s : TRUE] + it[s \ {CHOOSE x \in s : TRUE}]]
<1>1. Foldable(S, Int, 0, c, step)
  <2>1. \A s \in SUBSET S : s # {} => c[s] \in s
    OBVIOUS
  <2>2. step \in [SUBSET S -> [Int -> Int]]
    BY <2>1
  <2> HIDE DEF c, step
  <2> QED
    BY <2>1, <2>2 DEF Foldable
<1>2. PICK g : IsFold(g, S, Int, 0, c, step)
  <2> HIDE DEF c, step
  <2> QED
    BY <1>1, FoldExists
<1>3. g \in [SUBSET S -> Int] /\ \A s \in SUBSET S :
         g[s] = IF s = {} THEN 0 ELSE step[s][g[s \ {c[s]}]]
  <2> HIDE DEF c, step
  <2> QED
    BY <1>2 DEF IsFold
<1>4. g = [s \in SUBSET S |->
             IF s = {} THEN 0
             ELSE f[CHOOSE x \in s : TRUE] + g[s \ {CHOOSE x \in s : TRUE}]]
  <2>1. ASSUME NEW s \in SUBSET S
        PROVE  g[s] = IF s = {} THEN 0
                      ELSE f[CHOOSE x \in s : TRUE] + g[s \ {CHOOSE x \in s : TRUE}]
    <3>1. CASE s = {}
      BY <3>1, <1>3
    <3>2. CASE s # {}
      <4>1. s \ {c[s]} \in SUBSET S /\ c[s] = CHOOSE x \in s : TRUE
        OBVIOUS
      <4>2. g[s \ {c[s]}] \in Int
        BY <1>3, <4>1
      <4>3. step[s][g[s \ {c[s]}]] = f[c[s]] + g[s \ {c[s]}]
        BY <3>2, <4>2
      <4> HIDE DEF c, step
      <4> QED
        BY <1>3, <3>2, <4>1, <4>3
    <3> QED
      BY <3>1, <3>2
  <2> QED
    BY <1>3, <2>1
<1>5. it = [s \in SUBSET S |->
              IF s = {} THEN 0
              ELSE f[CHOOSE x \in s : TRUE] + it[s \ {CHOOSE x \in s : TRUE}]]
  BY <1>4
<1>6. SumFunctionOnSet(f, S) = it[S]
  BY DEF SumFunctionOnSet, FoldFunctionOnSet, MapThenFoldSet
<1>7. \A s \in SUBSET S :
         it[s] = IF s = {} THEN 0
                 ELSE f[CHOOSE x \in s : TRUE] + it[s \ {CHOOSE x \in s : TRUE}]
  <2> HIDE DEF it
  <2> QED BY <1>5
<1>8. \A s \in SUBSET S : it[s] \in Int
  <2> DEFINE T == {s \in SUBSET S : it[s] \in Int}
  <2>1. ASSUME NEW s \in SUBSET S, \A t \in SUBSET s : t # s => t \in T
        PROVE  s \in T
    <3> HIDE DEF it
    <3>1. CASE s = {}
      <4>1. it[s] = 0
        BY <1>7, <3>1
      <4> QED
        BY <4>1
    <3>2. CASE s # {}
      <4> DEFINE x == CHOOSE x \in s : TRUE
      <4>1. x \in s
        BY <3>2
      <4>2. it[s] = f[x] + it[s \ {x}]
        BY <1>7, <3>2
      <4> HIDE DEF x
      <4>3. it[s \ {x}] \in Int
        BY <2>1, <4>1
      <4> QED
        BY <4>1, <4>2, <4>3
    <3> QED
      BY <3>1, <3>2
  <2>2. \A s \in SUBSET S : s \in T
    <3> HIDE DEF T
    <3> QED
      BY <2>1, SetInduction
  <2> QED
    BY <2>2
<1> QED
  <2> HIDE DEF it
  <2> QED BY <1>5, <1>6, <1>7, <1>8 DEF IsSum

\* Whatever satisfies the equations of a table of sums ends in the sum.
LEMMA TableSums ==
  ASSUME NEW S, IsFiniteSet(S), NEW f, \A x \in S : f[x] \in Int, NEW it,
         \A s \in SUBSET S :
           it[s] = IF s = {} THEN 0
                   ELSE f[CHOOSE x \in s : TRUE] + it[s \ {CHOOSE x \in s : TRUE}]
  PROVE  it[S] = SumFunctionOnSet(f, S)
<1>1. PICK jt : IsSum(jt, f, S)
  BY SumFolds
<1> DEFINE Same == {s \in SUBSET S : it[s] = jt[s]}
<1>2. ASSUME NEW s \in SUBSET S, \A t \in SUBSET s : t # s => t \in Same
      PROVE  s \in Same
  <2>1. CASE s = {}
    BY <1>1, <2>1 DEF IsSum
  <2>2. CASE s # {}
    <3> DEFINE x == CHOOSE x \in s : TRUE
    <3>1. x \in s
      BY <2>2
    <3>2. it[s] = f[x] + it[s \ {x}] /\ jt[s] = f[x] + jt[s \ {x}]
      BY <1>1, <2>2 DEF IsSum
    <3> HIDE DEF x
    <3>3. s \ {x} \in Same
      BY <1>2, <3>1
    <3> QED
      BY <3>2, <3>3
  <2> QED
    BY <2>1, <2>2
<1>3. \A s \in SUBSET S : s \in Same
  <2> HIDE DEF Same
  <2> QED
    BY <1>2, SetInduction
<1> QED
  BY <1>1, <1>3 DEF IsSum

\* The sum over s is what the element chosen first has and the sum over the rest.
LEMMA SumOne ==
  ASSUME NEW S, IsFiniteSet(S), NEW f, \A x \in S : f[x] \in Int, NEW s \in SUBSET S
  PROVE  /\ SumFunctionOnSet(f, s) \in Int
         /\ s = {} => SumFunctionOnSet(f, s) = 0
         /\ s # {} => \E x \in s : SumFunctionOnSet(f, s) = f[x] + SumFunctionOnSet(f, s \ {x})
                                   /\ x = CHOOSE y \in s : TRUE
<1>1. PICK it : IsSum(it, f, s)
  <2>1. IsFiniteSet(s) /\ \A x \in s : f[x] \in Int
    BY FS_Subset
  <2> QED
    BY <2>1, SumFolds
<1>2. SumFunctionOnSet(f, s) \in Int /\ (s = {} => SumFunctionOnSet(f, s) = 0)
  BY <1>1 DEF IsSum
<1>3. ASSUME s # {}
      PROVE  \E x \in s : SumFunctionOnSet(f, s) = f[x] + SumFunctionOnSet(f, s \ {x})
                          /\ x = CHOOSE y \in s : TRUE
  <2> DEFINE x == CHOOSE y \in s : TRUE
  <2>1. x \in s
    BY <1>3
  <2>2. it[s] = f[x] + it[s \ {x}]
    BY <1>1, <1>3 DEF IsSum
  <2> DEFINE r == s \ {x}
  <2>3. PICK jt : IsSum(jt, f, r)
    <3>1. IsFiniteSet(r) /\ \A y \in r : f[y] \in Int
      BY FS_Subset
    <3> HIDE DEF r
    <3> QED
      BY <3>1, SumFolds
  <2> DEFINE Same == {t \in SUBSET r : it[t] = jt[t]}
  <2>4. ASSUME NEW t \in SUBSET r, \A u \in SUBSET t : u # t => u \in Same
        PROVE  t \in Same
    <3>1. t \in SUBSET s
      OBVIOUS
    <3>2. CASE t = {}
      BY <1>1, <2>3, <3>1, <3>2 DEF IsSum
    <3>3. CASE t # {}
      <4> DEFINE y == CHOOSE y \in t : TRUE
      <4>1. y \in t
        BY <3>3
      <4>2. it[t] = f[y] + it[t \ {y}] /\ jt[t] = f[y] + jt[t \ {y}]
        BY <1>1, <2>3, <3>1, <3>3 DEF IsSum
      <4> HIDE DEF y
      <4>3. t \ {y} \in Same
        BY <2>4, <4>1
      <4> QED
        BY <4>2, <4>3
    <3> QED
      BY <3>2, <3>3
  <2>5. \A t \in SUBSET r : t \in Same
    <3>1. IsFiniteSet(r)
      BY FS_Subset
    <3> HIDE DEF r, Same
    <3> QED
      BY <2>4, <3>1, SetInduction
  <2>6. it[r] = jt[r]
    BY <2>5
  <2> HIDE DEF x
  <2> QED
    BY <1>1, <2>1, <2>2, <2>3, <2>6 DEF IsSum, x
<1> QED
  BY <1>2, <1>3

\* Whichever element is taken out first, the sum is the same.
LEMMA SumRemove ==
  ASSUME NEW S, IsFiniteSet(S), NEW f, \A x \in S : f[x] \in Int
  PROVE  \A s \in SUBSET S : \A x \in s :
           SumFunctionOnSet(f, s) = f[x] + SumFunctionOnSet(f, s \ {x})
<1> DEFINE Total(s) == SumFunctionOnSet(f, s)
           Any == {s \in SUBSET S : \A x \in s : Total(s) = f[x] + Total(s \ {x})}
<1>1. \A s \in SUBSET S : Total(s) \in Int
  BY SumOne
<1>2. ASSUME NEW s \in SUBSET S, \A t \in SUBSET s : t # s => t \in Any
      PROVE  s \in Any
  <2> SUFFICES ASSUME NEW x \in s PROVE Total(s) = f[x] + Total(s \ {x})
    OBVIOUS
  <2>1. PICK y \in s : Total(s) = f[y] + Total(s \ {y})
    BY SumOne
  <2> HIDE DEF Total
  <2>2. CASE x # y
    <3>1. Total(s \ {y}) = f[x] + Total((s \ {y}) \ {x})
      <4>1. s \ {y} \in SUBSET s /\ s \ {y} # s /\ x \in s \ {y}
        BY <2>2
      <4> QED
        BY <1>2, <4>1
    <3>2. Total(s \ {x}) = f[y] + Total((s \ {x}) \ {y})
      <4>1. s \ {x} \in SUBSET s /\ s \ {x} # s /\ y \in s \ {x}
        BY <2>2
      <4> QED
        BY <1>2, <4>1
    <3>3. (s \ {y}) \ {x} = (s \ {x}) \ {y}
      OBVIOUS
    <3>4. Total(s) = f[y] + (f[x] + Total((s \ {x}) \ {y}))
      BY <2>1, <3>1, <3>3
    <3>5. Total((s \ {x}) \ {y}) \in Int /\ f[x] \in Int /\ f[y] \in Int
      BY <1>1
    <3>6. Total(s) = f[x] + (f[y] + Total((s \ {x}) \ {y}))
      BY <3>4, <3>5
    <3> QED
      BY <3>2, <3>6
  <2> QED
    BY <2>1, <2>2
<1>3. \A s \in SUBSET S : s \in Any
  <2> HIDE DEF Any
  <2> QED
    BY <1>2, SetInduction
<1> QED
  BY <1>3

\* The same of one element, and that the sums are integers.
LEMMA SumWithout ==
  ASSUME NEW S, IsFiniteSet(S), NEW f, \A y \in S : f[y] \in Int, NEW x \in S
  PROVE  /\ SumFunctionOnSet(f, S) = f[x] + SumFunctionOnSet(f, S \ {x})
         /\ SumFunctionOnSet(f, S) \in Int
         /\ SumFunctionOnSet(f, S \ {x}) \in Int
<1>1. S \in SUBSET S /\ S \ {x} \in SUBSET S
  OBVIOUS
<1> QED
  BY <1>1, SumRemove, SumOne

\* The sum of sums.
LEMMA SumPlus ==
  ASSUME NEW S, IsFiniteSet(S), NEW f, NEW g, NEW h,
         \A x \in S : f[x] \in Int /\ g[x] \in Int /\ h[x] = f[x] + g[x]
  PROVE  SumFunctionOnSet(h, S) = SumFunctionOnSet(f, S) + SumFunctionOnSet(g, S)
<1> DEFINE Adds == {s \in SUBSET S :
             SumFunctionOnSet(h, s) = SumFunctionOnSet(f, s) + SumFunctionOnSet(g, s)}
<1>1. ASSUME NEW s \in SUBSET S, \A t \in SUBSET s : t # s => t \in Adds
      PROVE  s \in Adds
  <2>0. \A x \in S : h[x] \in Int
    OBVIOUS
  <2>1. CASE s = {}
    <3>1. SumFunctionOnSet(h, s) = 0 /\ SumFunctionOnSet(f, s) = 0 /\ SumFunctionOnSet(g, s) = 0
      BY <2>0, <2>1, SumOne
    <3> QED
      BY <3>1
  <2>2. CASE s # {}
    <3>1. PICK x \in s : TRUE
      BY <2>2
    <3> DEFINE t == s \ {x}
    <3>2. t \in SUBSET S /\ t \in SUBSET s /\ t # s
      BY <3>1
    <3>3. /\ SumFunctionOnSet(h, s) = h[x] + SumFunctionOnSet(h, t)
          /\ SumFunctionOnSet(f, s) = f[x] + SumFunctionOnSet(f, t)
          /\ SumFunctionOnSet(g, s) = g[x] + SumFunctionOnSet(g, t)
      BY <2>0, SumRemove
    <3> HIDE DEF t
    <3>4. SumFunctionOnSet(h, t) = SumFunctionOnSet(f, t) + SumFunctionOnSet(g, t)
      BY <1>1, <3>2
    <3>5. SumFunctionOnSet(f, t) \in Int /\ SumFunctionOnSet(g, t) \in Int
      BY <3>2, SumOne
    <3> QED
      BY <3>3, <3>4, <3>5
  <2> QED
    BY <2>1, <2>2
<1>2. \A s \in SUBSET S : s \in Adds
  <2> HIDE DEF Adds
  <2> QED
    BY <1>1, SetInduction
<1> QED
  BY <1>2

\* A sum of larger numbers is larger.
LEMMA SumMono ==
  ASSUME NEW S, IsFiniteSet(S), NEW f, NEW g,
         \A x \in S : f[x] \in Int /\ g[x] \in Int /\ f[x] <= g[x]
  PROVE  SumFunctionOnSet(f, S) <= SumFunctionOnSet(g, S)
<1> DEFINE Below == {s \in SUBSET S : SumFunctionOnSet(f, s) <= SumFunctionOnSet(g, s)}
<1>1. ASSUME NEW s \in SUBSET S, \A t \in SUBSET s : t # s => t \in Below
      PROVE  s \in Below
  <2>1. CASE s = {}
    <3>1. SumFunctionOnSet(f, s) = 0 /\ SumFunctionOnSet(g, s) = 0
      BY <2>1, SumOne
    <3> QED
      BY <3>1
  <2>2. CASE s # {}
    <3>1. PICK x \in s : TRUE
      BY <2>2
    <3> DEFINE t == s \ {x}
    <3>2. t \in SUBSET S /\ t \in SUBSET s /\ t # s
      BY <3>1
    <3>3. /\ SumFunctionOnSet(f, s) = f[x] + SumFunctionOnSet(f, t)
          /\ SumFunctionOnSet(g, s) = g[x] + SumFunctionOnSet(g, t)
      BY SumRemove
    <3> HIDE DEF t
    <3>4. SumFunctionOnSet(f, t) <= SumFunctionOnSet(g, t)
      BY <1>1, <3>2
    <3>5. SumFunctionOnSet(f, t) \in Int /\ SumFunctionOnSet(g, t) \in Int
      BY <3>2, SumOne
    <3> QED
      BY <3>3, <3>4, <3>5
  <2> QED
    BY <2>1, <2>2
<1>2. \A s \in SUBSET S : s \in Below
  <2> HIDE DEF Below
  <2> QED
    BY <1>1, SetInduction
<1> QED
  BY <1>2

\* A sum depends on the values only.
LEMMA SumSame ==
  ASSUME NEW S, IsFiniteSet(S), NEW f, NEW g, \A x \in S : f[x] \in Int /\ g[x] = f[x]
  PROVE  SumFunctionOnSet(f, S) = SumFunctionOnSet(g, S)
<1>1. SumFunctionOnSet(f, S) <= SumFunctionOnSet(g, S)
  BY SumMono
<1>2. SumFunctionOnSet(g, S) <= SumFunctionOnSet(f, S)
  BY SumMono
<1>3. SumFunctionOnSet(f, S) \in Int /\ SumFunctionOnSet(g, S) \in Int
  BY SumOne
<1> QED
  BY <1>1, <1>2, <1>3

------------------------------------------------------------------------------
(* Extremes, and folds of a sequence. *)

\* Max and Min choose an element that bounds a finite set of integers.
LEMMA Extremes ==
  ASSUME NEW S, IsFiniteSet(S), \A x \in S : x \in Int
  PROVE  \A s \in SUBSET S : s # {} =>
           /\ Max(s) \in s /\ \A x \in s : Max(s) >= x
           /\ Min(s) \in s /\ \A x \in s : Min(s) <= x
<1> DEFINE Bounded == {s \in SUBSET S : s # {} =>
             /\ \E m \in s : \A x \in s : m >= x
             /\ \E m \in s : \A x \in s : m <= x}
<1>1. ASSUME NEW s \in SUBSET S, \A t \in SUBSET s : t # s => t \in Bounded, s # {}
      PROVE  /\ \E m \in s : \A x \in s : m >= x
             /\ \E m \in s : \A x \in s : m <= x
  <2>1. PICK y \in s : TRUE
    BY <1>1
  <2> DEFINE t == s \ {y}
  <2>2. CASE t = {}
    BY <2>1, <2>2
  <2>3. CASE t # {}
    <3>1. t \in Bounded
      BY <1>1, <2>1
    <3>2. PICK m \in t : \A x \in t : m >= x
      BY <2>3, <3>1
    <3>3. PICK l \in t : \A x \in t : l <= x
      BY <2>3, <3>1
    <3>4. \A x \in s : x = y \/ x \in t
      OBVIOUS
    <3> HIDE DEF t
    <3>5. m \in s /\ l \in s
      BY DEF t
    <3>6. \E h \in s : \A x \in s : h >= x
      <4>1. CASE m >= y
        BY <3>2, <3>4, <3>5, <4>1
      <4>2. CASE ~(m >= y)
        <5>1. \A x \in s : y >= x
          BY <3>2, <3>4, <3>5, <4>2
        <5> QED
          BY <5>1
      <4> QED
        BY <4>1, <4>2
    <3>7. \E h \in s : \A x \in s : h <= x
      <4>1. CASE l <= y
        BY <3>3, <3>4, <3>5, <4>1
      <4>2. CASE ~(l <= y)
        <5>1. \A x \in s : y <= x
          BY <3>3, <3>4, <3>5, <4>2
        <5> QED
          BY <5>1
      <4> QED
        BY <4>1, <4>2
    <3> QED
      BY <3>6, <3>7
  <2> QED
    BY <2>2, <2>3
<1>2. \A s \in SUBSET S : s \in Bounded
  <2>1. \A s \in SUBSET S : (\A t \in SUBSET s : t # s => t \in Bounded) => s \in Bounded
    BY <1>1
  <2> HIDE DEF Bounded
  <2> QED
    BY <2>1, SetInduction
<1> QED
  BY <1>2 DEF Max, Min

\* The initial segment 1..k has the maximum k, and 1..k - 1 is left without it.
LEMMA InitialSegments ==
  ASSUME NEW n \in Nat
  PROVE  /\ IsFiniteSet(1..n)
         /\ \A s \in SUBSET (1..n) : s # {} => Max(s) \in s
         /\ \A k \in 1..n : Max(1..k) = k /\ (1..k) \ {k} = 1..(k - 1)
<1>1. IsFiniteSet(1..n)
  BY FS_Interval
<1>2. \A s \in SUBSET (1..n) : s # {} => Max(s) \in s /\ \A x \in s : Max(s) >= x
  <2>1. \A x \in 1..n : x \in Int
    OBVIOUS
  <2> DEFINE S == 1..n
  <2> HIDE DEF S
  <2>2. \A s \in SUBSET S : s # {} => Max(s) \in s /\ \A x \in s : Max(s) >= x
    BY <1>1, <2>1, Extremes DEF S
  <2> QED
    BY <2>2 DEF S
<1>3. ASSUME NEW k \in 1..n
      PROVE  Max(1..k) = k /\ (1..k) \ {k} = 1..(k - 1)
  <2>1. 1..k \in SUBSET (1..n) /\ k \in 1..k
    OBVIOUS
  <2>2. Max(1..k) \in 1..k /\ Max(1..k) >= k
    BY <1>2, <2>1
  <2> QED
    BY <2>2
<1> QED
  BY <1>1, <1>2, <1>3

\* Induction up to n, with the set of the numbers a claim holds of.
LEMMA UpTo ==
  ASSUME NEW n \in Nat, NEW T, 0 \in T, \A k \in 1..n : k - 1 \in T => k \in T
  PROVE  \A k \in 0..n : k \in T
<1> DEFINE S == 0..n
           Missing == {k \in S : k \notin T}
<1> SUFFICES ASSUME Missing # {} PROVE FALSE
  OBVIOUS
<1>1. IsFiniteSet(S) /\ \A x \in S : x \in Int
  BY FS_Interval
<1>2. Min(Missing) \in Missing /\ \A x \in Missing : Min(Missing) <= x
  <2>1. Missing \in SUBSET S
    OBVIOUS
  <2> HIDE DEF Missing, S
  <2> QED
    BY <1>1, <2>1, Extremes
<1> DEFINE k == Min(Missing)
<1> HIDE DEF k
<1>3. k \in 1..n /\ k \notin T
  <2>1. k \in S /\ k \notin T
    BY <1>2 DEF k
  <2>2. k # 0
    BY <2>1
  <2> QED
    BY <2>1, <2>2
<1>4. k - 1 \in S /\ ~(k <= k - 1)
  BY <1>3
<1>5. k - 1 \in T
  BY <1>2, <1>4 DEF k
<1> QED
  BY <1>3, <1>5

\* A number of the set that bounds it is its maximum.
LEMMA MaxIs ==
  ASSUME NEW S, NEW m \in S, \A x \in S : x \in Int /\ m >= x
  PROVE  Max(S) = m
<1>1. \A x \in S : (\A y \in S : x >= y) => x = m
  OBVIOUS
<1> QED
  BY <1>1 DEF Max

\* The maximum of two numbers.
LEMMA MaxOfTwo ==
  ASSUME NEW a \in Int, NEW b \in Int
  PROVE  Max({a, b}) = IF a >= b THEN a ELSE b
<1> DEFINE m == IF a >= b THEN a ELSE b
<1>1. m \in {a, b} /\ \A x \in {a, b} : x \in Int /\ m >= x
  OBVIOUS
<1> HIDE DEF m
<1>2. Max({a, b}) = m
  BY <1>1, MaxIs
<1> QED
  BY <1>2 DEF m

\* A table of a fold of a sequence of length n, from its first element on.
IsTable(it, n, V, base, step) ==
  /\ it \in [SUBSET (1..n) -> V]
  /\ \A s \in SUBSET (1..n) :
       it[s] = IF s = {} THEN base ELSE step[Max(s)][it[s \ {Max(s)}]]

\* There is a table of every such fold.
LEMMA TableExists ==
  ASSUME NEW n \in Nat, NEW V, NEW base \in V, NEW step, step \in [1..n -> [V -> V]]
  PROVE  \E it : IsTable(it, n, V, base, step)
<1> DEFINE c == [s \in SUBSET (1..n) |-> Max(s)]
           next == [s \in SUBSET (1..n) |-> [v \in V |-> IF s = {} THEN v ELSE step[c[s]][v]]]
<1>1. \A s \in SUBSET (1..n) : s # {} => c[s] \in s
  BY InitialSegments
<1>2. next \in [SUBSET (1..n) -> [V -> V]]
  <2>1. ASSUME NEW s \in SUBSET (1..n), NEW v \in V, s # {}
        PROVE  step[c[s]][v] \in V
    <3>1. c[s] \in 1..n
      BY <1>1, <2>1
    <3> HIDE DEF c
    <3> QED
      BY <3>1
  <2> HIDE DEF c
  <2> QED
    BY <2>1
<1>3. Foldable(1..n, V, base, c, next)
  <2> HIDE DEF c, next
  <2> QED
    BY <1>1, <1>2, InitialSegments DEF Foldable
<1>4. PICK it : IsFold(it, 1..n, V, base, c, next)
  <2> HIDE DEF c, next
  <2> QED
    BY <1>3, FoldExists
<1>5. it \in [SUBSET (1..n) -> V] /\ \A s \in SUBSET (1..n) :
        it[s] = IF s = {} THEN base ELSE next[s][it[s \ {c[s]}]]
  <2> HIDE DEF c, next
  <2> QED
    BY <1>4 DEF IsFold
<1>6. ASSUME NEW s \in SUBSET (1..n)
      PROVE  it[s] = IF s = {} THEN base ELSE step[Max(s)][it[s \ {Max(s)}]]
  <2>1. CASE s = {}
    BY <1>5, <2>1
  <2>2. CASE s # {}
    <3>1. c[s] = Max(s) /\ s \ {Max(s)} \in SUBSET (1..n)
      OBVIOUS
    <3>2. it[s \ {Max(s)}] \in V
      BY <1>5, <3>1
    <3>3. next[s][it[s \ {Max(s)}]] = step[Max(s)][it[s \ {Max(s)}]]
      BY <2>2, <3>1, <3>2
    <3> HIDE DEF c, next
    <3> QED
      BY <1>5, <2>2, <3>1, <3>3
  <2> QED
    BY <2>1, <2>2
<1> QED
  BY <1>5, <1>6 DEF IsTable

\* A run of a fold of a sequence: its value after each number of elements.
IsRun(run, n, V, base, step) ==
  /\ run \in [0..n -> V]
  /\ run[0] = base
  /\ \A k \in 1..n : run[k] = step[k][run[k - 1]]

\* What satisfies the equations of a table where they are defined ...
Tabulates(it, n, V, base, step) ==
  /\ n \in Nat /\ base \in V /\ step \in [1..n -> [V -> V]]
  /\ it[{}] = base
  /\ \A s \in SUBSET (1..n) :
       s # {} /\ it[s \ {Max(s)}] \in V => it[s] = step[Max(s)][it[s \ {Max(s)}]]

\* ... runs through the values on the initial segments.
LEMMA TableRuns ==
  ASSUME NEW n, NEW V, NEW base, NEW step, NEW it, Tabulates(it, n, V, base, step)
  PROVE  \E run : IsRun(run, n, V, base, step) /\ run[n] = it[1..n]
<1> DEFINE T == {s \in SUBSET (1..n) : it[s] \in V}
           run == [k \in 0..n |-> it[1..k]]
<1>0. /\ n \in Nat /\ base \in V /\ step \in [1..n -> [V -> V]]
      /\ it[{}] = base
      /\ \A s \in SUBSET (1..n) :
           s # {} /\ it[s \ {Max(s)}] \in V => it[s] = step[Max(s)][it[s \ {Max(s)}]]
  BY DEF Tabulates
<1>1. ASSUME NEW s \in SUBSET (1..n), \A t \in SUBSET s : t # s => t \in T
      PROVE  s \in T
  <2>1. CASE s = {}
    BY <1>0, <2>1
  <2>2. CASE s # {}
    <3>1. Max(s) \in s /\ Max(s) \in 1..n
      BY <1>0, <2>2, InitialSegments
    <3>2. s \ {Max(s)} \in SUBSET s /\ s \ {Max(s)} # s
      BY <1>0, <3>1
    <3>3. it[s \ {Max(s)}] \in V
      BY <1>0, <1>1, <3>2
    <3> QED
      BY <1>0, <2>2, <3>1, <3>3
  <2> QED
    BY <1>0, <2>1, <2>2
<1>2. \A s \in SUBSET (1..n) : s \in T
  <2> DEFINE S == 1..n
  <2>1. IsFiniteSet(S) /\ \A s \in SUBSET S : (\A t \in SUBSET s : t # s => t \in T) => s \in T
    BY <1>0, <1>1, InitialSegments
  <2> HIDE DEF T, S
  <2>2. \A s \in SUBSET S : s \in T
    BY <2>1, SetInduction
  <2> QED
    BY <2>2 DEF S
<1>3. \A k \in 0..n : 1..k \in SUBSET (1..n)
  BY <1>0
<1>4. run \in [0..n -> V] /\ run[0] = base /\ run[n] = it[1..n]
  BY <1>0, <1>2, <1>3
<1>5. ASSUME NEW k \in 1..n
      PROVE  run[k] = step[k][run[k - 1]]
  <2>1. 1..k \in SUBSET (1..n) /\ k \in 1..k /\ 1..(k - 1) \in SUBSET (1..n)
    BY <1>0
  <2>2. Max(1..k) = k /\ (1..k) \ {k} = 1..(k - 1)
    BY <1>0, InitialSegments
  <2>3. it[1..(k - 1)] \in V
    BY <1>0, <1>2, <2>1
  <2>4. it[1..k] = step[k][it[1..(k - 1)]]
    BY <1>0, <2>1, <2>2, <2>3
  <2>5. run[k] = it[1..k] /\ run[k - 1] = it[1..(k - 1)]
    BY <1>0
  <2> QED
    BY <1>0, <2>4, <2>5
<1> HIDE DEF run
<1> QED
  BY <1>0, <1>4, <1>5 DEF IsRun

------------------------------------------------------------------------------
(* Products and sums over initial segments. *)

\* A larger factor makes a larger product.
LEMMA ProductGrows ==
  ASSUME NEW a \in Int, NEW b \in Int, NEW c \in Nat, a <= b
  PROVE  a * c \in Int /\ b * c \in Int /\ a * c <= b * c
<1> DEFINE d == b - a
<1>1. d \in Nat /\ b = a + d
  OBVIOUS
<1> HIDE DEF d
<1>2. d * c \in Nat /\ a * c \in Int
  BY <1>1
<1>3. (a + d) * c = a * c + d * c
  BY <1>1
<1> QED
  BY <1>1, <1>2, <1>3

\* A sum over an initial segment grows by its last element.
LEMMA SumUpTo ==
  ASSUME NEW n \in Nat, NEW f, \A k \in 1..n : f[k] \in Int
  PROVE  /\ SumFunctionOnSet(f, 1..0) = 0
         /\ \A k \in 0..n : SumFunctionOnSet(f, 1..k) \in Int
         /\ \A k \in 1..n :
              SumFunctionOnSet(f, 1..k) = SumFunctionOnSet(f, 1..(k - 1)) + f[k]
<1> DEFINE S == 1..n
<1>1. IsFiniteSet(S) /\ \A k \in S : f[k] \in Int
  BY InitialSegments
<1>2. \A k \in 0..n : 1..k \in SUBSET S
  OBVIOUS
<1>3. 1..0 = {} /\ {} \in SUBSET S
  OBVIOUS
<1>4. \A k \in 1..n : k \in 1..k /\ (1..k) \ {k} = 1..(k - 1) /\ k \in 0..n /\ k - 1 \in 0..n
  BY InitialSegments
<1> HIDE DEF S
<1>5. \A s \in SUBSET S : SumFunctionOnSet(f, s) \in Int
                         /\ (s = {} => SumFunctionOnSet(f, s) = 0)
  BY <1>1, SumOne
<1>6. ASSUME NEW k \in 1..n
      PROVE  SumFunctionOnSet(f, 1..k) = SumFunctionOnSet(f, 1..(k - 1)) + f[k]
  <2>1. SumFunctionOnSet(f, 1..k) = f[k] + SumFunctionOnSet(f, 1..(k - 1))
    <3> DEFINE U == 1..k
    <3>1. U \in SUBSET S /\ k \in U /\ U \ {k} = 1..(k - 1)
      BY <1>2, <1>4
    <3> HIDE DEF U
    <3>2. IsFiniteSet(U) /\ \A x \in U : f[x] \in Int
      BY <1>1, <3>1, FS_Subset
    <3>3. SumFunctionOnSet(f, U) = f[k] + SumFunctionOnSet(f, U \ {k})
      BY <3>1, <3>2, SumWithout
    <3> QED
      BY <3>1, <3>3 DEF U
  <2>2. SumFunctionOnSet(f, 1..(k - 1)) \in Int /\ f[k] \in Int
    BY <1>2, <1>4, <1>5
  <2> QED
    BY <2>1, <2>2
<1> QED
  BY <1>2, <1>3, <1>5, <1>6

\* m things can be spread over the elements of a set, at most c on each, if there
\* are enough elements.
LEMMA SumSpread ==
  ASSUME NEW S, IsFiniteSet(S), NEW c \in Nat, NEW m \in Nat, m <= Cardinality(S) * c
  PROVE  \E f \in [S -> 0..m] : SumFunctionOnSet(f, S) = m /\ \A x \in S : f[x] <= c
<1> DEFINE Spreads(s, k) ==
             \E f \in [s -> 0..k] : SumFunctionOnSet(f, s) = k /\ \A x \in s : f[x] <= c
           T == {s \in SUBSET S : \A k \in Nat : k <= Cardinality(s) * c => Spreads(s, k)}
<1>1. ASSUME NEW s \in SUBSET S, \A t \in SUBSET s : t # s => t \in T, NEW k \in Nat,
             k <= Cardinality(s) * c
      PROVE  Spreads(s, k)
  <2>0. IsFiniteSet(s)
    BY FS_Subset
  <2>1. CASE s = {}
    <3>1. Cardinality(s) = 0
      BY <2>1, FS_EmptySet
    <3>2. k = 0
      BY <1>1, <3>1
    <3> DEFINE f == [x \in s |-> 0]
    <3>3. f \in [s -> 0..k] /\ \A x \in s : f[x] <= c
      BY <2>1
    <3>4. SumFunctionOnSet(f, s) = 0
      <4>1. \A x \in s : f[x] \in Int
        OBVIOUS
      <4> HIDE DEF f
      <4> QED
        BY <2>0, <2>1, <4>1, SumOne
    <3> QED
      BY <3>2, <3>3, <3>4
  <2>2. CASE s # {}
    <3>1. PICK x \in s : TRUE
      BY <2>2
    <3> DEFINE t == s \ {x}
               here == IF k <= c THEN k ELSE c
               rest == k - here
    <3>2. t \in SUBSET s /\ t # s /\ t \in SUBSET S
      BY <3>1
    <3>3. IsFiniteSet(t) /\ Cardinality(t) = Cardinality(s) - 1 /\ Cardinality(t) \in Nat
      <4>1. IsFiniteSet(t)
        BY <2>0, <3>2, FS_Subset
      <4> QED
        BY <2>0, <3>1, <4>1, FS_RemoveElement, FS_CardinalityType
    <3>4. Cardinality(s) * c = Cardinality(t) * c + c /\ Cardinality(t) * c \in Nat
      <4> DEFINE q == Cardinality(t)
      <4>1. Cardinality(s) = q + 1 /\ q \in Nat
        BY <2>0, <3>3, FS_CardinalityType
      <4> HIDE DEF q
      <4>2. (q + 1) * c = q * c + c /\ q * c \in Nat
        BY <4>1
      <4> QED
        BY <4>1, <4>2 DEF q
    <3>5. rest \in Nat /\ here \in 0..k /\ here <= c /\ rest <= Cardinality(t) * c
      BY <1>1, <3>4
    <3>6. PICK g \in [t -> 0..rest] : SumFunctionOnSet(g, t) = rest /\ \A y \in t : g[y] <= c
      <4>1. Spreads(t, rest)
        BY <1>1, <3>2, <3>5
      <4> QED
        BY <4>1
    <3> DEFINE f == [y \in s |-> IF y = x THEN here ELSE g[y]]
    <3> HIDE DEF t, here, rest
    <3>7. rest <= k /\ here + rest = k
      BY <3>5 DEF rest
    <3>8. \A y \in s : y = x \/ y \in t
      BY DEF t
    <3>9. \A y \in t : y \in s /\ y # x
      BY DEF t
    <3>10. f \in [s -> 0..k] /\ \A y \in s : f[y] <= c
      BY <3>5, <3>6, <3>7, <3>8
    <3>11. f[x] = here /\ \A y \in t : f[y] = g[y]
      BY <3>1, <3>9
    <3> HIDE DEF f
    <3>12. SumFunctionOnSet(f, s) = here + SumFunctionOnSet(f, t)
      <4>1. \A y \in s : f[y] \in Int
        BY <3>10
      <4> QED
        BY <2>0, <3>1, <3>11, <4>1, SumWithout DEF t
    <3>13. SumFunctionOnSet(f, t) = SumFunctionOnSet(g, t)
      <4>1. \A y \in t : f[y] \in Int /\ g[y] = f[y]
        BY <3>5, <3>6, <3>11
      <4> QED
        BY <3>3, <4>1, SumSame
    <3>14. SumFunctionOnSet(f, s) = k
      BY <3>6, <3>7, <3>12, <3>13
    <3> QED
      BY <3>10, <3>14
  <2> QED
    BY <2>1, <2>2
<1>2. \A s \in SUBSET S : s \in T
  <2>1. \A s \in SUBSET S : (\A t \in SUBSET s : t # s => t \in T) => s \in T
    BY <1>1
  <2> HIDE DEF T
  <2> QED
    BY <2>1, SetInduction
<1>3. S \in T
  BY <1>2
<1> QED
  BY <1>3
==============================================================================
