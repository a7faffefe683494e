----------------------- MODULE CapacityAdmissionProofs -----------------------
(***************************************************************************)
(* Theorems about CapacityAdmission. What the folds over a pod's           *)
(* containers and the claims of a volume return is proved first, for every *)
(* sequence of them, with the lemmas of FoldLemmas; then that the gate     *)
(* counts for each document at least what Kubernetes runs of it, and that  *)
(* its sums bound what an admitted cluster asks for.                       *)
(***************************************************************************)
EXTENDS CapacityAdmission, FoldLemmas

------------------------------------------------------------------------------
(* The init containers of a pod. *)

\* The accumulator of the fold over a pod's init containers.
Accumulators == [sidecars : Nat, most : Nat]
\* Its value before the first.
Nothing == [sidecars |-> 0, most |-> 0]

\* An init container takes an accumulator to an accumulator.
LEMMA AfterInitTyped ==
  ASSUME NEW acc \in Accumulators, NEW c \in Containers
  PROVE  /\ AfterInit(acc, c) \in Accumulators
         /\ AfterInit(acc, c).sidecars = acc.sidecars + (IF c.always THEN c.request ELSE 0)
         /\ AfterInit(acc, c).most =
              IF acc.most >= acc.sidecars + c.request THEN acc.most ELSE acc.sidecars + c.request
<1>1. acc.most \in Int /\ acc.sidecars \in Nat /\ c.request \in Nat /\ acc.most \in Nat
  BY DEF Accumulators, Containers
<1>2. Max({acc.most, acc.sidecars + c.request}) =
        IF acc.most >= acc.sidecars + c.request THEN acc.most ELSE acc.sidecars + c.request
  BY <1>1, MaxOfTwo
<1> QED
  BY <1>1, <1>2 DEF AfterInit, Accumulators

\* The k-th init container as a step from accumulator to accumulator.
InitSteps(inits) ==
  [k \in 1..Len(inits) |-> [acc \in Accumulators |-> AfterInit(acc, inits[k])]]

\* FoldLeft goes through the init containers in their order: the table that the
\* definition chooses exists, and its values on the initial segments are the run.
LEMMA InitsRun ==
  ASSUME NEW inits \in Seq(Containers)
  PROVE  \E run : /\ IsRun(run, Len(inits), Accumulators, Nothing, InitSteps(inits))
                  /\ run[Len(inits)] = FoldLeft(AfterInit, Nothing, inits)
<1> DEFINE n == Len(inits)
           step == InitSteps(inits)
           it == CHOOSE it : it = [s \in SUBSET (DOMAIN inits) |->
                   IF s = {} THEN Nothing
                   ELSE AfterInit(it[s \ {Max(s)}], inits[Max(s)])]
<1>1. n \in Nat /\ DOMAIN inits = 1..n /\ \A k \in 1..n : inits[k] \in Containers
  OBVIOUS
<1>2. step \in [1..n -> [Accumulators -> Accumulators]]
  <2>1. ASSUME NEW k \in 1..n, NEW acc \in Accumulators
        PROVE  AfterInit(acc, inits[k]) \in Accumulators
    BY <1>1, AfterInitTyped
  <2> QED
    BY <2>1 DEF InitSteps
<1>3. Nothing \in Accumulators
  BY DEF Nothing, Accumulators
<1>4. PICK g : IsTable(g, n, Accumulators, Nothing, step)
  <2> HIDE DEF n, step
  <2> QED
    BY <1>1, <1>2, <1>3, TableExists
<1>5. \A k \in 1..n : \A acc \in Accumulators : step[k][acc] = AfterInit(acc, inits[k])
  BY DEF InitSteps
<1>6. /\ g \in [SUBSET (1..n) -> Accumulators]
      /\ \A s \in SUBSET (1..n) :
           g[s] = IF s = {} THEN Nothing ELSE AfterInit(g[s \ {Max(s)}], inits[Max(s)])
  <2> HIDE DEF n, step
  <2>1. g \in [SUBSET (1..n) -> Accumulators] /\ g[{}] = Nothing
    BY <1>4 DEF IsTable
  <2>2. ASSUME NEW s \in SUBSET (1..n), s # {}
        PROVE  g[s] = AfterInit(g[s \ {Max(s)}], inits[Max(s)])
    <3>1. Max(s) \in 1..n /\ s \ {Max(s)} \in SUBSET (1..n)
      BY <1>1, <2>2, InitialSegments
    <3>2. g[s \ {Max(s)}] \in Accumulators
      BY <2>1, <3>1
    <3> QED
      BY <1>4, <1>5, <2>2, <3>1, <3>2 DEF IsTable
  <2> QED
    BY <2>1, <2>2
<1>7. g = [s \in SUBSET (DOMAIN inits) |->
             IF s = {} THEN Nothing ELSE AfterInit(g[s \ {Max(s)}], inits[Max(s)])]
  BY <1>1, <1>6
<1>8. it = [s \in SUBSET (DOMAIN inits) |->
              IF s = {} THEN Nothing ELSE AfterInit(it[s \ {Max(s)}], inits[Max(s)])]
  BY <1>7
<1>9. FoldLeft(AfterInit, Nothing, inits) = it[DOMAIN inits]
  BY DEF FoldLeft, MapThenFoldSet
<1> HIDE DEF it, n
<1>10. it[{}] = Nothing
  BY <1>8
<1>11. \A s \in SUBSET (1..n) : s # {} => it[s] = AfterInit(it[s \ {Max(s)}], inits[Max(s)])
  BY <1>1, <1>8
<1>12. \A s \in SUBSET (1..n) : s # {} => Max(s) \in 1..n
  BY <1>1, InitialSegments
<1> HIDE DEF step
<1>13. \A s \in SUBSET (1..n) : s # {} /\ it[s \ {Max(s)}] \in Accumulators
         => it[s] = step[Max(s)][it[s \ {Max(s)}]]
  BY <1>5, <1>11, <1>12
<1>14. \E run : IsRun(run, n, Accumulators, Nothing, step) /\ run[n] = it[1..n]
  <2>1. Tabulates(it, n, Accumulators, Nothing, step)
    BY <1>1, <1>2, <1>3, <1>10, <1>13 DEF Tabulates
  <2> QED
    BY <2>1, TableRuns
<1> QED
  BY <1>1, <1>9, <1>14 DEF n, step

\* The sidecars among the first k init containers, what they keep, and what is
\* held while the k-th starts, as PodRequest counts them.
Always(inits, k) == {j \in 1..k : inits[j].always}
Stays(inits, k) == Sum([j \in Always(inits, k) |-> inits[j].request])
Starting(inits, k) == Stays(inits, k - 1) + inits[k].request

\* A sidecar more keeps its request; another container keeps nothing.
LEMMA StaysStep ==
  ASSUME NEW inits \in Seq(Containers)
  PROVE  /\ Stays(inits, 0) = 0
         /\ \A k \in 0..Len(inits) : Stays(inits, k) \in Int
         /\ \A k \in 1..Len(inits) : Stays(inits, k) =
              Stays(inits, k - 1) + (IF inits[k].always THEN inits[k].request ELSE 0)
<1> DEFINE F(k) == [j \in Always(inits, k) |-> inits[j].request]
<1>1. Len(inits) \in Nat /\ \A k \in 1..Len(inits) : inits[k] \in Containers
  OBVIOUS
<1>2. \A k : Stays(inits, k) = SumFunctionOnSet(F(k), Always(inits, k))
  BY DEF Stays, Sum, FoldFunction, SumFunctionOnSet
<1>3. ASSUME NEW k \in 0..Len(inits)
      PROVE  IsFiniteSet(Always(inits, k)) /\ \A j \in Always(inits, k) : F(k)[j] \in Int
  <2>1. IsFiniteSet(1..k)
    BY <1>1, FS_Interval
  <2>2. Always(inits, k) \in SUBSET (1..k)
    BY DEF Always
  <2>3. IsFiniteSet(Always(inits, k))
    BY <2>1, <2>2, FS_Subset
  <2>4. \A j \in Always(inits, k) : inits[j].request \in Int
    BY <1>1 DEF Always, Containers
  <2> QED
    BY <2>3, <2>4
<1>4. ASSUME NEW k \in 0..Len(inits)
      PROVE  Stays(inits, k) \in Int /\ (Always(inits, k) = {} => Stays(inits, k) = 0)
  <2> HIDE DEF F
  <2> QED
    BY <1>2, <1>3, SumOne
<1>5. Stays(inits, 0) = 0
  BY <1>1, <1>4 DEF Always
<1>6. ASSUME NEW k \in 1..Len(inits), inits[k].always
      PROVE  Stays(inits, k) = Stays(inits, k - 1) + inits[k].request
  <2>1. k \in 0..Len(inits) /\ k - 1 \in 0..Len(inits)
    BY <1>1
  <2>2. k \in Always(inits, k) /\ Always(inits, k) \ {k} = Always(inits, k - 1)
    BY <1>1, <1>6 DEF Always
  <2>3. F(k)[k] = inits[k].request
    BY <2>2
  <2>4. \A j \in Always(inits, k - 1) : F(k - 1)[j] = F(k)[j]
    BY <2>2
  <2> HIDE DEF F
  <2>5. SumFunctionOnSet(F(k), Always(inits, k))
          = F(k)[k] + SumFunctionOnSet(F(k), Always(inits, k - 1))
    <3> DEFINE f == F(k)
               S == Always(inits, k)
    <3>1. IsFiniteSet(S) /\ (\A j \in S : f[j] \in Int) /\ k \in S
      BY <1>3, <2>1, <2>2
    <3> HIDE DEF f, S
    <3>2. SumFunctionOnSet(f, S) = f[k] + SumFunctionOnSet(f, S \ {k})
      BY <3>1, SumWithout
    <3> QED
      BY <2>2, <3>2 DEF f, S
  <2>6. SumFunctionOnSet(F(k), Always(inits, k - 1))
          = SumFunctionOnSet(F(k - 1), Always(inits, k - 1))
    BY <1>3, <2>1, <2>4, SumSame
  <2>7. inits[k].request \in Int /\ Stays(inits, k - 1) \in Int
    BY <1>1, <1>4, <2>1 DEF Containers
  <2> QED
    BY <1>2, <2>3, <2>5, <2>6, <2>7
<1>7. ASSUME NEW k \in 1..Len(inits), ~inits[k].always
      PROVE  Stays(inits, k) = Stays(inits, k - 1)
  <2>1. Always(inits, k) = Always(inits, k - 1)
    BY <1>1, <1>7 DEF Always
  <2> QED
    BY <2>1 DEF Stays
<1>8. \A k \in 1..Len(inits) : Stays(inits, k - 1) \in Int
  BY <1>1, <1>4
<1> QED
  BY <1>1, <1>4, <1>5, <1>6, <1>7, <1>8

\* After k init containers the fold holds what the sidecars among them keep, and
\* the most that was held while one of them was starting.
Reaches(run, inits, k) ==
  /\ run[k].sidecars = Stays(inits, k)
  /\ \A j \in 1..k : run[k].most >= Starting(inits, j)
  /\ run[k].most = 0 \/ \E j \in 1..k : run[k].most = Starting(inits, j)

\* The run reaches it, by induction over the init containers.
LEMMA RunReaches ==
  ASSUME NEW inits \in Seq(Containers), NEW run,
         IsRun(run, Len(inits), Accumulators, Nothing, InitSteps(inits))
  PROVE  Reaches(run, inits, Len(inits))
<1> DEFINE n == Len(inits)
           T == {k \in 0..n : Reaches(run, inits, k)}
<1>1. n \in Nat /\ \A k \in 1..n : inits[k] \in Containers
  OBVIOUS
<1>2. run \in [0..n -> Accumulators] /\ run[0] = Nothing
      /\ \A k \in 1..n : run[k] = AfterInit(run[k - 1], inits[k])
  <2>1. run \in [0..n -> Accumulators] /\ run[0] = Nothing
    BY DEF IsRun
  <2>2. ASSUME NEW k \in 1..n
        PROVE  run[k] = AfterInit(run[k - 1], inits[k])
    <3>1. k - 1 \in 0..n
      BY <1>1
    <3>2. run[k - 1] \in Accumulators
      BY <2>1, <3>1
    <3> QED
      BY <3>2 DEF IsRun, InitSteps
  <2> QED
    BY <2>1, <2>2
<1>3. 0 \in T
  BY <1>1, <1>2, StaysStep DEF Reaches, Nothing
<1>4. ASSUME NEW k \in 1..n, k - 1 \in T
      PROVE  k \in T
  <2> DEFINE before == run[k - 1]
             after == run[k]
             c == inits[k]
  <2>1. before \in Accumulators /\ c \in Containers /\ after = AfterInit(before, c)
    BY <1>1, <1>2
  <2>2. before.sidecars \in Int /\ before.most \in Int /\ c.request \in Int
    BY <2>1 DEF Accumulators, Containers
  <2>3. /\ after.sidecars = before.sidecars + (IF c.always THEN c.request ELSE 0)
        /\ after.most = IF before.most >= before.sidecars + c.request
                        THEN before.most ELSE before.sidecars + c.request
    BY <2>1, AfterInitTyped
  <2>4. /\ before.sidecars = Stays(inits, k - 1)
        /\ \A j \in 1..(k - 1) : before.most >= Starting(inits, j)
        /\ before.most = 0 \/ \E j \in 1..(k - 1) : before.most = Starting(inits, j)
    BY <1>4 DEF Reaches
  <2>5. Starting(inits, k) = before.sidecars + c.request
    BY <2>4 DEF Starting
  <2>6. after.sidecars = Stays(inits, k)
    BY <2>3, <2>4, StaysStep
  <2>7. \A j \in 1..n : Starting(inits, j) \in Int
    <3>1. \A j \in 1..n : inits[j].request \in Int /\ j - 1 \in 0..n
      BY <1>1 DEF Containers
    <3>2. \A j \in 0..n : Stays(inits, j) \in Int
      BY StaysStep
    <3> HIDE DEF n
    <3> QED
      BY <3>1, <3>2 DEF Starting
  <2>8. \A j \in 1..k : j = k \/ j \in 1..(k - 1)
    BY <1>1
  <2>9. k \in 1..k /\ 1..(k - 1) \subseteq 1..k /\ 1..k \subseteq 1..n
    BY <1>1
  <2> HIDE DEF before, after, c, n
  <2>10. \A j \in 1..k : after.most >= Starting(inits, j)
    BY <2>2, <2>3, <2>4, <2>5, <2>7, <2>8, <2>9
  <2>11. after.most = 0 \/ \E j \in 1..k : after.most = Starting(inits, j)
    BY <2>3, <2>4, <2>5, <2>9
  <2>12. Reaches(run, inits, k)
    BY <2>6, <2>10, <2>11 DEF Reaches, after
  <2> QED
    BY <1>1, <2>12 DEF n
<1>5. \A k \in 0..n : k \in T
  <2> HIDE DEF T, n
  <2> QED
    BY <1>1, <1>3, <1>4, UpTo
<1> QED
  BY <1>1, <1>5

\* What the gate counts for a document is the most its pod holds at once.
LEMMA RequestExact ==
  ASSUME NEW w \in Documents
  PROVE  EffectiveRequest(w) = PodRequest(w) /\ EffectiveRequest(w) \in Nat
<1> DEFINE n == Len(w.inits)
           acc == FoldLeft(AfterInit, Nothing, w.inits)
           Moments == {w.app + Stays(w.inits, n)} \cup {Starting(w.inits, k) : k \in DOMAIN w.inits}
           m == Max({w.app + acc.sidecars, acc.most})
<1>1. /\ w.inits \in Seq(Containers) /\ w.app \in Nat /\ w.overhead \in Nat
      /\ n \in Nat /\ DOMAIN w.inits = 1..n
  BY DEF Documents
<1>2. PICK run : /\ IsRun(run, n, Accumulators, Nothing, InitSteps(w.inits))
                 /\ run[n] = acc
  BY <1>1, InitsRun
<1>3. acc = run[n] /\ acc \in Accumulators
  BY <1>1, <1>2 DEF IsRun
<1>4. Reaches(run, w.inits, n)
  BY <1>1, <1>2, RunReaches
<1>5. acc.sidecars \in Nat /\ acc.most \in Nat
  BY <1>3 DEF Accumulators
<1>6. \A k \in 1..n : Starting(w.inits, k) \in Int
  <2>1. \A k \in 1..n : w.inits[k] \in Containers /\ k - 1 \in 0..n
    BY <1>1
  <2>2. \A k \in 1..n : w.inits[k].request \in Int
    BY <2>1 DEF Containers
  <2> QED
    BY <1>1, <2>1, <2>2, StaysStep DEF Starting
<1> HIDE DEF acc
<1>7a. w.app + acc.sidecars \in Int /\ acc.most \in Int
  BY <1>1, <1>5
<1>7. m = IF w.app + acc.sidecars >= acc.most THEN w.app + acc.sidecars ELSE acc.most
  BY <1>7a, MaxOfTwo
<1> HIDE DEF m
<1>8. m \in Moments
  BY <1>1, <1>3, <1>4, <1>5, <1>7 DEF Reaches
<1>9. \A x \in Moments : x \in Int /\ m >= x
  BY <1>1, <1>3, <1>4, <1>5, <1>6, <1>7 DEF Reaches
<1>10. Max(Moments) = m
  <2> HIDE DEF Moments
  <2> QED
    BY <1>8, <1>9, MaxIs
<1>11. EffectiveRequest(w) = m + w.overhead
  BY DEF EffectiveRequest, m, acc, Nothing
<1>12. PodRequest(w) = w.overhead + Max(Moments)
  BY DEF PodRequest, Stays, Starting, Always
<1> QED
  BY <1>1, <1>5, <1>7, <1>10, <1>11, <1>12

------------------------------------------------------------------------------
(* The claims of a volume. *)

\* The accumulator of the fold over the claims of a document.
Totals == [raw : Nat, loss : Nat]
\* Its value before the first.
Zero == [raw |-> 0, loss |-> 0]

\* One claim more, as Bytes adds it.
AddClaim(sum, c, times) ==
  [ raw  |-> sum.raw + c.bytes * times * c.copies,
    loss |-> sum.loss + c.bytes * times * (c.copies - 1) ]

\* The k-th claim as a step from accumulator to accumulator.
ClaimSteps(claims, times) ==
  [k \in 1..Len(claims) |-> [sum \in Totals |-> AddClaim(sum, claims[k], times)]]

\* A claim takes an accumulator to an accumulator.
LEMMA AddClaimTyped ==
  ASSUME NEW sum \in Totals, NEW c \in Claims, NEW times \in Nat
  PROVE  AddClaim(sum, c, times) \in Totals
<1>1. sum.raw \in Nat /\ sum.loss \in Nat /\ c.bytes \in Nat /\ c.copies \in Nat /\ c.copies - 1 \in Nat
  BY DEF Totals, Claims
<1>2. c.bytes * times \in Nat
  BY <1>1
<1>3. c.bytes * times * c.copies \in Nat /\ c.bytes * times * (c.copies - 1) \in Nat
  BY <1>1, <1>2
<1> QED
  BY <1>1, <1>3 DEF AddClaim, Totals

\* FoldLeft goes through the claims in their order.
LEMMA ClaimsRun ==
  ASSUME NEW claims \in Seq(Claims), NEW times \in Nat
  PROVE  \E run : /\ IsRun(run, Len(claims), Totals, Zero, ClaimSteps(claims, times))
                  /\ run[Len(claims)] = Bytes(claims, times)
<1> DEFINE n == Len(claims)
           step == ClaimSteps(claims, times)
           it == CHOOSE it : it = [s \in SUBSET (DOMAIN claims) |->
                   IF s = {} THEN Zero
                   ELSE AddClaim(it[s \ {Max(s)}], claims[Max(s)], times)]
<1>1. n \in Nat /\ DOMAIN claims = 1..n /\ \A k \in 1..n : claims[k] \in Claims
  OBVIOUS
<1>2. step \in [1..n -> [Totals -> Totals]]
  <2>1. ASSUME NEW k \in 1..n, NEW sum \in Totals
        PROVE  AddClaim(sum, claims[k], times) \in Totals
    BY <1>1, AddClaimTyped
  <2> QED
    BY <2>1 DEF ClaimSteps
<1>3. Zero \in Totals
  BY DEF Zero, Totals
<1>4. PICK g : IsTable(g, n, Totals, Zero, step)
  <2> HIDE DEF n, step
  <2> QED
    BY <1>1, <1>2, <1>3, TableExists
<1>5. \A k \in 1..n : \A sum \in Totals : step[k][sum] = AddClaim(sum, claims[k], times)
  BY DEF ClaimSteps
<1>6. /\ g \in [SUBSET (1..n) -> Totals]
      /\ \A s \in SUBSET (1..n) :
           g[s] = IF s = {} THEN Zero ELSE AddClaim(g[s \ {Max(s)}], claims[Max(s)], times)
  <2> HIDE DEF n, step
  <2>1. g \in [SUBSET (1..n) -> Totals] /\ g[{}] = Zero
    BY <1>4 DEF IsTable
  <2>2. ASSUME NEW s \in SUBSET (1..n), s # {}
        PROVE  g[s] = AddClaim(g[s \ {Max(s)}], claims[Max(s)], times)
    <3>1. Max(s) \in 1..n /\ s \ {Max(s)} \in SUBSET (1..n)
      BY <1>1, <2>2, InitialSegments
    <3>2. g[s \ {Max(s)}] \in Totals
      BY <2>1, <3>1
    <3> QED
      BY <1>4, <1>5, <2>2, <3>1, <3>2 DEF IsTable
  <2> QED
    BY <2>1, <2>2
<1>7. g = [s \in SUBSET (DOMAIN claims) |->
             IF s = {} THEN Zero ELSE AddClaim(g[s \ {Max(s)}], claims[Max(s)], times)]
  BY <1>1, <1>6
<1>8. it = [s \in SUBSET (DOMAIN claims) |->
              IF s = {} THEN Zero ELSE AddClaim(it[s \ {Max(s)}], claims[Max(s)], times)]
  BY <1>7
<1>9. Bytes(claims, times) = it[DOMAIN claims]
  BY DEF Bytes, FoldLeft, MapThenFoldSet, AddClaim, Zero
<1> HIDE DEF it, n
<1>10. it[{}] = Zero
  BY <1>8
<1>11. \A s \in SUBSET (1..n) : s # {} => it[s] = AddClaim(it[s \ {Max(s)}], claims[Max(s)], times)
  BY <1>1, <1>8
<1>12. \A s \in SUBSET (1..n) : s # {} => Max(s) \in 1..n
  BY <1>1, InitialSegments
<1> HIDE DEF step
<1>13. \A s \in SUBSET (1..n) : s # {} /\ it[s \ {Max(s)}] \in Totals
         => it[s] = step[Max(s)][it[s \ {Max(s)}]]
  BY <1>5, <1>11, <1>12
<1>14. \E run : IsRun(run, n, Totals, Zero, step) /\ run[n] = it[1..n]
  <2>1. Tabulates(it, n, Totals, Zero, step)
    BY <1>1, <1>2, <1>3, <1>10, <1>13 DEF Tabulates
  <2> QED
    BY <2>1, TableRuns
<1> QED
  BY <1>1, <1>9, <1>14 DEF n, step

\* What the claims take, with so many copies less of each.
Weights(claims, less) ==
  [c \in DOMAIN claims |-> claims[c].bytes * (claims[c].copies - less)]

\* What grows by a multiple of each number is that multiple of their sum.
LEMMA Accumulates ==
  ASSUME NEW n \in Nat, NEW f, \A k \in 1..n : f[k] \in Int, NEW times \in Nat,
         NEW g, g[0] = 0, \A k \in 1..n : g[k] = g[k - 1] + times * f[k]
  PROVE  /\ SumFunctionOnSet(f, 1..n) \in Int
         /\ g[n] = times * SumFunctionOnSet(f, 1..n)
<1> DEFINE Kept(k) == SumFunctionOnSet(f, 1..k)
           T == {k \in 0..n : g[k] = times * Kept(k)}
<1>1. /\ Kept(0) = 0
      /\ \A k \in 0..n : Kept(k) \in Int
      /\ \A k \in 1..n : Kept(k) = Kept(k - 1) + f[k]
  BY SumUpTo
<1> HIDE DEF Kept
<1>2. 0 \in T
  BY <1>1
<1>3. ASSUME NEW k \in 1..n, k - 1 \in T
      PROVE  k \in T
  <2>1. k - 1 \in 0..n /\ k \in 0..n
    OBVIOUS
  <2>2. g[k] = times * Kept(k - 1) + times * f[k] /\ Kept(k) = Kept(k - 1) + f[k]
    BY <1>1, <1>3
  <2>3. Kept(k - 1) \in Int /\ f[k] \in Int
    BY <1>1, <2>1
  <2>4. times * (Kept(k - 1) + f[k]) = times * Kept(k - 1) + times * f[k]
    BY <2>3
  <2> QED
    BY <2>1, <2>2, <2>4
<1>4. \A k \in 0..n : k \in T
  <2> HIDE DEF T
  <2> QED
    BY <1>2, <1>3, UpTo
<1>5. g[n] = times * Kept(n) /\ Kept(n) \in Int
  BY <1>1, <1>4
<1> QED
  BY <1>5 DEF Kept

\* The sums are natural numbers, the multiple of what the claims take with all their
\* copies and with one less.
LEMMA BytesKept ==
  ASSUME NEW claims \in Seq(Claims), NEW times \in Nat
  PROVE  /\ Bytes(claims, times) \in Totals
         /\ Sum(Weights(claims, 0)) \in Int /\ Sum(Weights(claims, 1)) \in Int
         /\ Bytes(claims, times).raw = times * Sum(Weights(claims, 0))
         /\ Bytes(claims, times).loss = times * Sum(Weights(claims, 1))
<1> DEFINE n == Len(claims)
           f == Weights(claims, 0)
           h == Weights(claims, 1)
<1>1. n \in Nat /\ DOMAIN claims = 1..n /\ \A k \in 1..n : claims[k] \in Claims
  OBVIOUS
<1>2. PICK run : /\ IsRun(run, n, Totals, Zero, ClaimSteps(claims, times))
                 /\ run[n] = Bytes(claims, times)
  BY ClaimsRun
<1>3. run \in [0..n -> Totals] /\ run[0] = Zero
      /\ \A k \in 1..n : run[k] = AddClaim(run[k - 1], claims[k], times)
  <2>1. run \in [0..n -> Totals] /\ run[0] = Zero
    BY <1>2 DEF IsRun
  <2>2. ASSUME NEW k \in 1..n
        PROVE  run[k] = AddClaim(run[k - 1], claims[k], times)
    <3>1. k - 1 \in 0..n
      BY <1>1
    <3>2. run[k - 1] \in Totals
      BY <2>1, <3>1
    <3> QED
      BY <1>2, <3>2 DEF IsRun, ClaimSteps
  <2> QED
    BY <2>1, <2>2
<1>4. Sum(f) = SumFunctionOnSet(f, 1..n) /\ Sum(h) = SumFunctionOnSet(h, 1..n)
  BY <1>1 DEF Sum, FoldFunction, SumFunctionOnSet, Weights
<1>5. ASSUME NEW k \in 1..n
      PROVE  /\ f[k] \in Int /\ h[k] \in Int
             /\ run[k].raw = run[k - 1].raw + times * f[k]
             /\ run[k].loss = run[k - 1].loss + times * h[k]
  <2> DEFINE x == claims[k].bytes
             y == claims[k].copies
  <2>1. x \in Nat /\ y \in Nat /\ claims[k].copies - 0 = y
    BY <1>1 DEF Claims
  <2>2. f[k] = x * y /\ h[k] = x * (y - 1)
    BY <1>1, <2>1 DEF Weights
  <2>3. /\ run[k].raw = run[k - 1].raw + x * times * y
        /\ run[k].loss = run[k - 1].loss + x * times * (y - 1)
    <3>1. run[k] = AddClaim(run[k - 1], claims[k], times)
      BY <1>3
    <3> QED
      BY <3>1 DEF AddClaim
  <2> HIDE DEF x, y
  <2>4. x * times * y = times * (x * y) /\ x * times * (y - 1) = times * (x * (y - 1))
    BY <2>1
  <2> QED
    BY <2>1, <2>2, <2>3, <2>4
<1> HIDE DEF f, h, n
<1>6. SumFunctionOnSet(f, 1..n) \in Int /\ run[n].raw = times * SumFunctionOnSet(f, 1..n)
  <2> DEFINE g == [k \in 0..n |-> run[k].raw]
  <2>1. g[0] = 0 /\ g[n] = run[n].raw
    BY <1>1, <1>3 DEF Zero
  <2>2. \A k \in 1..n : g[k] = run[k].raw /\ g[k - 1] = run[k - 1].raw
    BY <1>1
  <2>3. \A k \in 1..n : g[k] = g[k - 1] + times * f[k]
    BY <1>5, <2>2
  <2> HIDE DEF g
  <2> QED
    BY <1>1, <1>5, <2>1, <2>3, Accumulates
<1>7. SumFunctionOnSet(h, 1..n) \in Int /\ run[n].loss = times * SumFunctionOnSet(h, 1..n)
  <2> DEFINE g == [k \in 0..n |-> run[k].loss]
  <2>1. g[0] = 0 /\ g[n] = run[n].loss
    BY <1>1, <1>3 DEF Zero
  <2>2. \A k \in 1..n : g[k] = run[k].loss /\ g[k - 1] = run[k - 1].loss
    BY <1>1
  <2>3. \A k \in 1..n : g[k] = g[k - 1] + times * h[k]
    BY <1>5, <2>2
  <2> HIDE DEF g
  <2> QED
    BY <1>1, <1>5, <2>1, <2>3, Accumulates
<1>8. run[n] \in Totals
  BY <1>1, <1>3
<1> QED
  BY <1>2, <1>4, <1>6, <1>7, <1>8 DEF f, h, n

------------------------------------------------------------------------------
(* Rounding. *)

\* Ceiling is the least natural number whose product reaches the number.
LEMMA CeilingOfPercent ==
  ASSUME NEW a \in Nat
  PROVE  /\ Ceiling(a, 100) \in Nat
         /\ 100 * Ceiling(a, 100) >= a
         /\ \A k \in Nat : 100 * k >= a => Ceiling(a, 100) <= k
BY DEF Ceiling

\* So it is what MaxSurge chooses.
LEMMA LeastPercent ==
  ASSUME NEW a \in Nat
  PROVE  Min({k \in 0..a : 100 * k >= a}) = Ceiling(a, 100)
<1> DEFINE K == {k \in 0..a : 100 * k >= a}
<1>1. Ceiling(a, 100) \in K
  BY CeilingOfPercent DEF Ceiling
<1>2. \A k \in K : Ceiling(a, 100) <= k
  BY CeilingOfPercent
<1>3. \A x \in K : (\A y \in K : x <= y) => x = Ceiling(a, 100)
  <2> SUFFICES ASSUME NEW x \in K, \A y \in K : x <= y
               PROVE  x = Ceiling(a, 100)
    OBVIOUS
  <2>1. x <= Ceiling(a, 100) /\ Ceiling(a, 100) <= x
    BY <1>1, <1>2
  <2> QED
    BY <2>1, CeilingOfPercent
<1> HIDE DEF K
<1>4. Min(K) = Ceiling(a, 100)
  BY <1>1, <1>2, <1>3 DEF Min
<1> QED
  BY <1>4 DEF K

\* An even spread over up to three hosts places every pod.
LEMMA CeilingSpreads ==
  ASSUME NEW pods \in Nat, NEW hosts \in 1..3
  PROVE  /\ Ceiling(pods, hosts) \in Nat
         /\ hosts * Ceiling(pods, hosts) >= pods
<1>1. CASE hosts = 1 BY <1>1 DEF Ceiling
<1>2. CASE hosts = 2 BY <1>2 DEF Ceiling
<1>3. CASE hosts = 3 BY <1>3 DEF Ceiling
<1> QED BY <1>1, <1>2, <1>3

(***************************************************************************)
(* The surge the gate counts is the one Kubernetes rolls out with: the     *)
(* percentage of the pods, rounded up, for every percentage and number of  *)
(* pods (_int_or_percentage).                                              *)
(***************************************************************************)
THEOREM SurgeIsExact ==
  ASSUME NEW w \in Documents, NEW basis \in Nat
  PROVE  Surge(w, basis) = MaxSurge(w, basis)
<1>1. w.surge.value \in Nat /\ w.surge.percent \in BOOLEAN
  BY DEF Documents
<1>2. basis * w.surge.value \in Nat
  BY <1>1
<1>3. CASE w.surge.percent
  BY <1>2, <1>3, LeastPercent DEF Surge, MaxSurge
<1>4. CASE ~w.surge.percent
  BY <1>4 DEF Surge, MaxSurge
<1> QED
  BY <1>1, <1>3, <1>4

------------------------------------------------------------------------------
(* Types. *)

\* A render's documents are documents.
LEMMA RenderedDocuments ==
  ASSUME NEW r \in Renders, NEW k \in DOMAIN r
  PROVE  r[k] \in Documents
BY CapacityAssumption

\* There are three nodes.
LEMMA NodesFinite == IsFiniteSet(Nodes) /\ Nodes = {1, 2, 3}
<1>1. 1 \in Int /\ 3 \in Int
  OBVIOUS
<1>2. IsFiniteSet(Nodes)
  BY <1>1, FS_Interval, Zenon DEF Nodes
<1>3. Nodes = {1, 2, 3}
  BY DEF Nodes
<1> QED
  BY <1>2, <1>3

\* Counting the nodes a workload may run on.
LEMMA HostsCounted ==
  ASSUME NEW w \in Documents
  PROVE  Cardinality(w.eligible) \in Nat
<1>1. w.eligible \in SUBSET Nodes
  BY DEF Documents
<1>3. IsFiniteSet(w.eligible)
  BY <1>1, NodesFinite, FS_Subset
<1> QED
  BY <1>3, FS_CardinalityType

\* The surge is a natural number.
LEMMA SurgeNatural ==
  ASSUME NEW w \in Documents, NEW basis \in Nat
  PROVE  Surge(w, basis) \in Nat
<1>1. w.surge.percent \in BOOLEAN /\ w.surge.value \in Nat
  BY DEF Documents
<1>2. basis * w.surge.value \in Nat
  BY <1>1
<1> QED
  BY <1>1, <1>2, CeilingOfPercent DEF Surge

\* The pods the gate counts are natural numbers.
LEMMA CountedNatural ==
  ASSUME NEW w \in Documents, w.kind \in Workloads
  PROVE  Counted(w).steady \in Nat /\ Counted(w).peak \in Nat
<1>1. w.replicas \in Nat /\ w.surge.percent \in BOOLEAN /\ w.surge.value \in Nat
  BY DEF Documents
<1>2. \A basis \in Nat : Surge(w, basis) \in Nat
  BY SurgeNatural
<1>3. CASE w.kind = "DaemonSet"
  BY <1>2, <1>3, HostsCounted DEF Counted
<1>4. CASE w.kind # "DaemonSet"
  BY <1>1, <1>2, <1>4 DEF Counted, Replicas, Workloads
<1> QED
  BY <1>3, <1>4

\* So are the pods a workload runs at steady state.
LEMMA SteadyNatural ==
  ASSUME render \in Renders, NEW d \in Ids
  PROVE  SteadyPods(d) \in Nat
<1>1. CASE d = 0
  BY <1>1, CapacityAssumption DEF SteadyPods
<1>2. CASE d # 0
  <2>1. render[d] \in Documents
    BY <1>2, RenderedDocuments, CapacityAssumption DEF Ids
  <2>2. Runs(render[d]) \in Nat
    BY <2>1, HostsCounted DEF Runs, Documents
  <2> QED
    BY <1>2, <2>2 DEF SteadyPods
<1> QED
  BY <1>1, <1>2

\* So is what the gate adds up for a document.
LEMMA RequestsAreNatural ==
  ASSUME NEW w \in Documents
  PROVE  EffectiveRequest(w) \in Nat /\ Volumes(w).raw \in Nat /\ Volumes(w).loss \in Nat
<1>1. w.claims \in Seq(Claims) /\ w.replicas \in Nat
  BY DEF Documents
<1>2. w.kind = "StatefulSet" => Counted(w).steady \in Nat
  BY <1>1 DEF Counted, Replicas
<1>3. \A times \in Nat : Bytes(w.claims, times) \in Totals
  BY <1>1, BytesKept
<1>4. Volumes(w) \in Totals
  <2>1. CASE w.kind = "StatefulSet"
    BY <1>2, <1>3, <2>1 DEF Volumes
  <2>2. CASE w.kind = "PersistentVolumeClaim"
    BY <1>3, <2>2 DEF Volumes
  <2>3. CASE w.kind \notin {"StatefulSet", "PersistentVolumeClaim"}
    BY <2>3 DEF Volumes, Totals
  <2> QED
    BY <2>1, <2>2, <2>3
<1> QED
  BY <1>4, RequestExact DEF Totals

\* The empty sums and the empty cluster have the types of TypeOK.
LEMMA TypeInit == Init => TypeOK
<1> SUFFICES ASSUME Init PROVE TypeOK
  OBVIOUS
<1>1. render \in Renders /\ Len(render) \in Nat
  BY CapacityAssumption DEF Init
<1>2. [node |-> node, disk |-> disk] \in Evidence
  <2>1. PICK e \in Evidence : node = e.node /\ disk = e.disk
    BY DEF Init
  <2>2. e = [node |-> e.node, disk |-> e.disk]
    BY CapacityAssumption
  <2> QED
    BY <2>1, <2>2
<1> QED
  BY <1>1, <1>2 DEF Init, TypeOK, Ids

\* No step breaks the types.
LEMMA TypeStep ==
  ASSUME TypeOK, [Next]_vars
  PROVE  TypeOK'
<1> USE CapacityAssumption DEF TypeOK, Ids, inputs, sums, cluster, Quiet
<1>0. Len(render) \in Nat /\ DOMAIN render = 1..Len(render)
  OBVIOUS
<1>1. CASE Account
  <2> DEFINE w == render[i + 1]
  <2>1. i + 1 \in DOMAIN render
    BY <1>0, <1>1 DEF Account, Reading
  <2>2. w \in Documents /\ EffectiveRequest(w) \in Nat
        /\ Volumes(w).raw \in Nat /\ Volumes(w).loss \in Nat
    BY <2>1, RenderedDocuments, RequestsAreNatural
  <2>3. steady' \in Nat /\ peak' \in Nat
    <3>1. CASE w.kind \in Workloads
      <4> DEFINE size == EffectiveRequest(w)
                 r == Counted(w)
      <4>1. size \in Nat /\ r.steady \in Nat /\ r.peak \in Nat
        BY <2>2, <3>1, CountedNatural
      <4>2. /\ steady' = steady + (IF w.peakOnly THEN 0 ELSE size * r.steady)
            /\ peak' = peak + size * r.peak
        BY <1>1, <3>1 DEF Account
      <4> HIDE DEF size, r, w
      <4>3. size * r.steady \in Nat /\ size * r.peak \in Nat
        BY <4>1
      <4> QED
        BY <4>2, <4>3
    <3>2. CASE w.kind \notin Workloads
      BY <1>1, <3>2 DEF Account
    <3> QED
      BY <3>1, <3>2
  <2>4. /\ raw' = raw + Volumes(w).raw
        /\ loss' = loss + Volumes(w).loss
        /\ i' = i + 1
        /\ UNCHANGED <<node, disk, render, verdict, wanted, placed, down>>
    BY <1>1 DEF Account
  <2>5. raw' \in Nat /\ loss' \in Nat
    BY <2>2, <2>4
  <2>6. i' \in 0..Len(render)
    BY <1>0, <2>1, <2>4
  <2> HIDE DEF w
  <2> QED
    BY <2>3, <2>4, <2>5, <2>6
<1>2. CASE Reject \/ RejectSums
  BY <1>2 DEF Reject, RejectSums
<1>3. CASE Admit
  <2>1. \A d \in Ids : SteadyPods(d) \in Nat
    BY SteadyNatural
  <2> QED
    BY <1>3, <2>1 DEF Admit
<1>4. CASE \E d \in Ids, n \in Nodes : Bind(d, n)
  <2>1. PICK d \in Ids, n \in Nodes : Bind(d, n)
    BY <1>4
  <2>2. placed' = [placed EXCEPT ![d][n] = @ + 1]
    BY <2>1 DEF Bind
  <2>3. placed' \in [Ids -> [Nodes -> Nat]]
    BY <2>2
  <2> QED
    BY <2>1, <2>3 DEF Bind
<1>5. CASE \E d \in Ids, n \in Nodes : EndPod(d, n)
  <2>1. PICK d \in Ids, n \in Nodes : EndPod(d, n)
    BY <1>5
  <2>2. SteadyPods(d) \in Nat
    BY SteadyNatural
  <2>3. /\ placed[d][n] > 0
        /\ wanted[d] > SteadyPods(d)
        /\ placed' = [placed EXCEPT ![d][n] = @ - 1]
        /\ wanted' = [wanted EXCEPT ![d] = @ - 1]
    BY <2>1 DEF EndPod
  <2>4. placed[d][n] - 1 \in Nat /\ wanted[d] - 1 \in Nat
    BY <2>2, <2>3
  <2>5. placed' \in [Ids -> [Nodes -> Nat]]
    BY <2>3, <2>4
  <2>6. wanted' \in [Ids -> Nat]
    BY <2>3, <2>4
  <2> QED
    BY <2>1, <2>5, <2>6 DEF EndPod
<1>6. CASE \E d \in Ids : StartPod(d)
  BY <1>6 DEF StartPod
<1>7. CASE \E n \in Nodes : LoseNode(n)
  <2>1. PICK n \in Nodes : LoseNode(n)
    BY <1>7
  <2>2. /\ placed' = [d \in Ids |-> [placed[d] EXCEPT ![n] = 0]]
        /\ down' = n
        /\ UNCHANGED <<node, disk, render, i, steady, peak, raw, loss, verdict, wanted>>
    BY <2>1 DEF LoseNode
  <2>3. placed' \in [Ids -> [Nodes -> Nat]]
    BY <2>2
  <2>4. down' \in 0..3
    BY <2>2 DEF Nodes
  <2> QED
    BY <2>2, <2>3, <2>4
<1>8. CASE NodeReturns
  BY <1>8 DEF NodeReturns
<1>9. CASE UNCHANGED vars
  BY <1>9 DEF vars
<1> QED
  BY <1>1, <1>2, <1>3, <1>4, <1>5, <1>6, <1>7, <1>8, <1>9 DEF Next, Gate, Cluster

(***************************************************************************)
(* The gate's sums and the cluster's counts stay natural numbers, for      *)
(* every render and all evidence.                                          *)
(***************************************************************************)
THEOREM TypeCorrect == Spec => []TypeOK
<1>1. TypeOK /\ [Next]_vars => TypeOK'
  BY TypeStep
<1> QED
  BY <1>1, TypeInit, PTL DEF Spec

------------------------------------------------------------------------------
(* The verdict. *)

\* Worst is what is left after the loss of whichever node is worst.
LEMMA WorstIsLeast ==
  ASSUME NEW f \in [Nodes -> Nat], NEW lost \in Nodes
  PROVE  Worst(f) \in Nat /\ Worst(f) <= Total(f) - f[lost]
<1> DEFINE S == {f[n] : n \in Nodes}
<1>1. f[1] \in Nat /\ f[2] \in Nat /\ f[3] \in Nat /\ f[lost] \in Nat
  BY DEF Nodes
<1>2. \E x \in S : \A y \in S : x >= y
  <2>1. S = {f[1], f[2], f[3]}
    BY DEF Nodes
  <2> QED
    BY <1>1, <2>1
<1>3. Max(S) \in S /\ \A y \in S : Max(S) >= y
  <2> HIDE DEF S
  <2> QED
    BY <1>2 DEF Max
<1>4. PICK m \in Nodes : Max(S) = f[m]
  BY <1>3
<1>5. f[lost] <= f[m]
  BY <1>3, <1>4, <1>1
<1> QED
  BY <1>1, <1>4, <1>5 DEF Worst, Total, Nodes

(***************************************************************************)
(* Every document of an admitted render was accepted: nothing the gate     *)
(* does not understand, no identity twice, and every workload placed.      *)
(***************************************************************************)
Passed(k) ==
  /\ render[k].kind # "Generator"
  /\ \A j \in 1..k - 1 : render[j].name # render[k].name
  /\ render[k].kind \in Workloads => PlacementCheck(render[k], Counted(render[k]))

AllPassed == verdict = "admitted" => \A k \in DOMAIN render : Passed(k)

\* It holds of the documents already read.
PassedInv ==
  /\ render \in Renders
  /\ i \in 0..Len(render)
  /\ \A k \in 1..i : Passed(k)
  /\ verdict = "admitted" => i = Len(render)

\* Only the nodes and the render decide whether a document passes.
LEMMA PassedStays ==
  ASSUME NEW k, UNCHANGED <<node, render>>
  PROVE  Passed(k)' <=> Passed(k)
BY DEF Passed, PlacementCheck, Spreads, Smallest

\* Every step keeps it.
LEMMA PassedStep ==
  ASSUME PassedInv, [Next]_vars
  PROVE  PassedInv'
<1> USE CapacityAssumption DEF PassedInv, inputs, sums, cluster, Quiet
<1>1. Len(render) \in Nat /\ UNCHANGED <<node, render>>
  BY DEF Next, Gate, Cluster, Account, Reject, RejectSums, Admit, Bind, EndPod,
         StartPod, LoseNode, NodeReturns, vars
<1>2. CASE Account
  <2>1. /\ i' = i + 1 /\ i < Len(render) /\ verdict' = "reading"
        /\ Accepts(render[i + 1])
    BY <1>2 DEF Account, Reading
  <2>2. Passed(i + 1)
    BY <1>1, <2>1 DEF Accepts, Passed
  <2>3. \A k \in 1..i + 1 : Passed(k)
    BY <1>1, <2>2
  <2>4. \A k \in 1..i' : Passed(k)'
    BY <1>1, <2>1, <2>3, PassedStays
  <2> QED
    BY <1>1, <2>1, <2>4
<1>3. CASE UNCHANGED i /\ (verdict' = verdict \/ verdict' = "rejected"
                            \/ i = Len(render))
  <2>1. \A k \in 1..i' : Passed(k)'
    BY <1>1, <1>3, PassedStays
  <2> QED
    BY <1>1, <1>3, <2>1
<1>4. Account \/ (UNCHANGED i /\ (verdict' = verdict \/ verdict' = "rejected"
                                  \/ i = Len(render)))
  BY DEF Next, Gate, Cluster, Reject, RejectSums, Admit, Bind, EndPod,
         StartPod, LoseNode, NodeReturns, vars
<1> QED
  BY <1>2, <1>3, <1>4

(***************************************************************************)
(* An admitted render holds no kind of document whose pods the gate cannot *)
(* count, no document twice, and only workloads whose placement passed on  *)
(* the nodes that are left after any loss.                                 *)
(***************************************************************************)
THEOREM NothingUncounted == Spec => []AllPassed
<1>1. Init => PassedInv
  BY CapacityAssumption DEF Init, PassedInv
<1>2. PassedInv /\ [Next]_vars => PassedInv'
  BY PassedStep
<1>3. PassedInv => AllPassed
  BY CapacityAssumption DEF PassedInv, AllPassed
<1> QED
  BY <1>1, <1>2, <1>3, PTL DEF Spec

\* What the verdict says, spelled out for the loss of each node.
AnyTwoSuffice ==
  verdict = "admitted" => \A lost \in Nodes :
    /\ Existing + peak + Reserve <= Total(node) - node[lost]
    /\ raw + DiskReserve <= Total(disk)
    /\ loss + DiskReserve <= Total(disk) - disk[lost]

\* The sums and the evidence do not change after the verdict.
DecidedInv == verdict = "admitted" => Fits /\ i = Len(render)

\* Every step keeps it.
LEMMA DecidedStep ==
  ASSUME TypeOK, DecidedInv, [Next]_vars
  PROVE  DecidedInv'
<1> USE DEF DecidedInv, inputs, sums, cluster, Quiet
<1>1. CASE Admit
  BY <1>1 DEF Admit, Fits, Total, Worst
<1>2. CASE Account
  BY <1>2 DEF Account, Reading
<1>3. CASE Reject \/ RejectSums
  BY <1>3 DEF Reject, RejectSums
<1>4. CASE UNCHANGED <<inputs, i, sums, verdict>>
  BY <1>4 DEF Fits, Total, Worst
<1>5. Gate \/ UNCHANGED <<inputs, i, sums, verdict>>
  BY DEF Next, Cluster, Bind, EndPod, StartPod, LoseNode, NodeReturns, vars
<1> QED
  BY <1>1, <1>2, <1>3, <1>4, <1>5 DEF Gate

\* Worst stands for every loss.
LEMMA DecidedSuffices ==
  ASSUME TypeOK, DecidedInv
  PROVE  AnyTwoSuffice
<1> SUFFICES ASSUME verdict = "admitted", NEW lost \in Nodes
             PROVE  /\ Existing + peak + Reserve <= Total(node) - node[lost]
                    /\ raw + DiskReserve <= Total(disk)
                    /\ loss + DiskReserve <= Total(disk) - disk[lost]
  BY DEF AnyTwoSuffice
<1>1. node \in [Nodes -> Nat] /\ disk \in [Nodes -> Nat]
  BY CapacityAssumption DEF TypeOK
<1>2. /\ Worst(node) \in Nat /\ Worst(node) <= Total(node) - node[lost]
      /\ Worst(disk) \in Nat /\ Worst(disk) <= Total(disk) - disk[lost]
  BY <1>1, WorstIsLeast
<1>3. /\ Existing + peak + Reserve <= Worst(node)
      /\ loss + DiskReserve <= Worst(disk)
  BY DEF DecidedInv, Fits
<1>4. Existing + peak + Reserve \in Nat /\ loss + DiskReserve \in Nat
  BY CapacityAssumption DEF TypeOK
<1>5. Total(node) - node[lost] \in Int /\ Total(disk) - disk[lost] \in Int
  BY <1>1 DEF Total, Nodes
<1>6. raw + DiskReserve <= Total(disk)
  BY DEF DecidedInv, Fits
<1> QED
  BY <1>2, <1>3, <1>4, <1>5, <1>6

------------------------------------------------------------------------------
(* What the gate has added up. *)

\* What the gate adds to the peak for a document.
PeakOf(w) == IF w.kind \in Workloads THEN EffectiveRequest(w) * Counted(w).peak ELSE 0

\* The peaks and the bytes of the documents, one after the other.
Peaks == [k \in 1..Len(render) |-> PeakOf(render[k])]
Raws == [k \in 1..Len(render) |-> Volumes(render[k]).raw]
Losses == [k \in 1..Len(render) |-> Volumes(render[k]).loss]

\* It is a natural number.
LEMMA PeakNatural ==
  ASSUME NEW w \in Documents
  PROVE  PeakOf(w) \in Nat
<1>1. CASE w.kind \in Workloads
  <2> DEFINE size == EffectiveRequest(w)
             pods == Counted(w).peak
  <2>1. size \in Nat /\ pods \in Nat
    BY <1>1, CountedNatural, RequestsAreNatural
  <2>2. PeakOf(w) = size * pods
    BY <1>1 DEF PeakOf
  <2> HIDE DEF size, pods
  <2> QED
    BY <2>1, <2>2
<1>2. CASE w.kind \notin Workloads
  BY <1>2 DEF PeakOf
<1> QED
  BY <1>1, <1>2

\* The sums are those of the documents read.
SumsInv ==
  /\ peak = SumFunctionOnSet(Peaks, 1..i)
  /\ raw = SumFunctionOnSet(Raws, 1..i)
  /\ loss = SumFunctionOnSet(Losses, 1..i)

\* The sums over the documents read grow by the document read next.
LEMMA SumsGrow ==
  ASSUME TypeOK
  PROVE  /\ Len(render) \in Nat
         /\ \A k \in 1..Len(render) : Peaks[k] \in Nat /\ Raws[k] \in Nat /\ Losses[k] \in Nat
         /\ SumFunctionOnSet(Peaks, 1..0) = 0 /\ SumFunctionOnSet(Raws, 1..0) = 0
         /\ SumFunctionOnSet(Losses, 1..0) = 0
         /\ \A k \in 0..Len(render) : SumFunctionOnSet(Peaks, 1..k) \in Int
                                     /\ SumFunctionOnSet(Raws, 1..k) \in Int
                                     /\ SumFunctionOnSet(Losses, 1..k) \in Int
         /\ \A k \in 1..Len(render) :
              /\ SumFunctionOnSet(Peaks, 1..k)
                   = SumFunctionOnSet(Peaks, 1..(k - 1)) + Peaks[k]
              /\ SumFunctionOnSet(Raws, 1..k)
                   = SumFunctionOnSet(Raws, 1..(k - 1)) + Raws[k]
              /\ SumFunctionOnSet(Losses, 1..k)
                   = SumFunctionOnSet(Losses, 1..(k - 1)) + Losses[k]
<1>1. Len(render) \in Nat /\ DOMAIN render = 1..Len(render) /\ render \in Renders
  BY CapacityAssumption DEF TypeOK
<1>2. ASSUME NEW k \in 1..Len(render)
      PROVE  Peaks[k] \in Nat /\ Raws[k] \in Nat /\ Losses[k] \in Nat
  <2>1. render[k] \in Documents
    BY <1>1, RenderedDocuments
  <2>2. PeakOf(render[k]) \in Nat
       /\ Volumes(render[k]).raw \in Nat /\ Volumes(render[k]).loss \in Nat
    BY <2>1, PeakNatural, RequestsAreNatural
  <2> QED
    BY <2>2 DEF Peaks, Raws, Losses
<1>3. \A k \in 1..Len(render) : Peaks[k] \in Int /\ Raws[k] \in Int /\ Losses[k] \in Int
  BY <1>2
<1> QED
  BY <1>1, <1>2, <1>3, SumUpTo

\* Nothing is read and nothing added up at first.
LEMMA SumsInit == Init => SumsInv
<1> SUFFICES ASSUME Init PROVE SumsInv
  OBVIOUS
<1>1. i = 0 /\ peak = 0 /\ raw = 0 /\ loss = 0
  BY DEF Init
<1> QED
  BY <1>1, TypeInit, SumsGrow DEF SumsInv

\* Every step keeps it: Account adds what it read.
LEMMA SumsStep ==
  ASSUME TypeOK, SumsInv, [Next]_vars
  PROVE  SumsInv'
<1> USE DEF inputs, sums, cluster, Quiet
<1>1. UNCHANGED render
  BY DEF Next, Gate, Cluster, Account, Reject, RejectSums, Admit, Bind, EndPod,
         StartPod, LoseNode, NodeReturns, vars
<1>2. Peaks' = Peaks /\ Raws' = Raws /\ Losses' = Losses
  BY <1>1 DEF Peaks, Raws, Losses, PeakOf, Volumes, Counted, Replicas, Surge
<1>3. CASE Account
  <2> DEFINE w == render[i + 1]
  <2>1. i + 1 \in 1..Len(render) /\ i' = i + 1 /\ i \in Nat
    BY <1>3 DEF Account, Reading, TypeOK
  <2>2. peak' = peak + PeakOf(w)
    <3>1. CASE w.kind \in Workloads
      BY <1>3, <3>1 DEF Account, PeakOf
    <3>2. CASE w.kind \notin Workloads
      <4>1. peak' = peak /\ peak \in Nat
        BY <1>3, <3>2 DEF Account, TypeOK
      <4> QED
        BY <3>2, <4>1 DEF PeakOf
    <3> QED
      BY <3>1, <3>2
  <2>3. raw' = raw + Volumes(w).raw /\ loss' = loss + Volumes(w).loss
    BY <1>3 DEF Account
  <2>4. Peaks[i + 1] = PeakOf(w) /\ Raws[i + 1] = Volumes(w).raw /\ Losses[i + 1] = Volumes(w).loss
    BY <2>1 DEF Peaks, Raws, Losses
  <2> HIDE DEF w
  <2>5. (i + 1) - 1 = i
    BY <2>1
  <2>6. /\ SumFunctionOnSet(Peaks, 1..(i + 1)) = SumFunctionOnSet(Peaks, 1..i) + Peaks[i + 1]
        /\ SumFunctionOnSet(Raws, 1..(i + 1)) = SumFunctionOnSet(Raws, 1..i) + Raws[i + 1]
        /\ SumFunctionOnSet(Losses, 1..(i + 1)) = SumFunctionOnSet(Losses, 1..i) + Losses[i + 1]
    BY <2>1, <2>5, SumsGrow
  <2> QED
    BY <1>2, <2>1, <2>2, <2>3, <2>4, <2>6 DEF SumsInv
<1>4. CASE UNCHANGED <<i, peak, raw, loss>>
  BY <1>2, <1>4 DEF SumsInv
<1>5. Account \/ UNCHANGED <<i, peak, raw, loss>>
  BY DEF Next, Gate, Cluster, Reject, RejectSums, Admit, Bind, EndPod,
         StartPod, LoseNode, NodeReturns, vars
<1> QED
  BY <1>3, <1>4, <1>5

\* A sum over some of the three nodes.
LEMMA NodesSum ==
  ASSUME NEW f, f \in [Nodes -> Int]
  PROVE  /\ Sum(f) = f[1] + f[2] + f[3]
         /\ \A lost \in Nodes :
              SumFunctionOnSet(f, Nodes \ {lost}) = Total(f) - f[lost]
<1>1. IsFiniteSet(Nodes) /\ Nodes = {1, 2, 3}
  BY NodesFinite
<1>2. \A n \in Nodes : f[n] \in Int
  OBVIOUS
<1>3. \A s \in SUBSET Nodes : SumFunctionOnSet(f, s) \in Int
                             /\ (s = {} => SumFunctionOnSet(f, s) = 0)
  BY <1>1, <1>2, SumOne
<1>4. ASSUME NEW s \in SUBSET Nodes, NEW n \in s
      PROVE  SumFunctionOnSet(f, s) = f[n] + SumFunctionOnSet(f, s \ {n})
  <2>1. IsFiniteSet(s) /\ \A x \in s : f[x] \in Int
    BY <1>1, FS_Subset
  <2> QED
    BY <2>1, SumWithout
<1>5. SumFunctionOnSet(f, Nodes) = f[1] + SumFunctionOnSet(f, {2, 3})
  <2>1. Nodes \ {1} = {2, 3} /\ 1 \in Nodes /\ Nodes \in SUBSET Nodes
    BY <1>1
  <2> QED
    BY <1>4, <2>1
<1>6. SumFunctionOnSet(f, {2, 3}) = f[2] + SumFunctionOnSet(f, {3})
  <2>1. {2, 3} \ {2} = {3} /\ 2 \in {2, 3} /\ {2, 3} \in SUBSET Nodes
    BY <1>1
  <2> QED
    BY <1>4, <2>1
<1>7. SumFunctionOnSet(f, {3}) = f[3] + SumFunctionOnSet(f, {})
  <2>1. {3} \ {3} = {} /\ 3 \in {3} /\ {3} \in SUBSET Nodes
    BY <1>1
  <2> QED
    BY <1>4, <2>1
<1>8. SumFunctionOnSet(f, {}) = 0 /\ f[1] \in Int /\ f[2] \in Int /\ f[3] \in Int
  BY <1>1, <1>2, <1>3
<1>9. SumFunctionOnSet(f, Nodes) = f[1] + f[2] + f[3]
  BY <1>5, <1>6, <1>7, <1>8
<1>10. ASSUME NEW lost \in Nodes
       PROVE  SumFunctionOnSet(f, Nodes \ {lost}) = Total(f) - f[lost]
  <2>1. SumFunctionOnSet(f, Nodes) = f[lost] + SumFunctionOnSet(f, Nodes \ {lost})
    BY <1>4
  <2>2. SumFunctionOnSet(f, Nodes \ {lost}) \in Int /\ f[lost] \in Int
    BY <1>3
  <2> QED
    BY <1>8, <1>9, <2>1, <2>2 DEF Total
<1>11. Sum(f) = SumFunctionOnSet(f, Nodes)
  BY DEF Sum, FoldFunction, SumFunctionOnSet
<1> QED
  BY <1>9, <1>10, <1>11

\* How many pods a workload may have.
LEMMA MostNatural ==
  ASSUME render \in Renders, NEW d \in Ids
  PROVE  MostPods(d) \in Nat /\ SteadyPods(d) <= MostPods(d)
<1>1. CASE d = 0
  BY <1>1, CapacityAssumption DEF MostPods, SteadyPods
<1>2. CASE d # 0
  <2> DEFINE w == render[d]
  <2>1. w \in Documents
    BY <1>2, RenderedDocuments, CapacityAssumption DEF Ids
  <2>2. Runs(w) \in Nat /\ w.replicas \in Nat /\ (w.kind = "Job" => Runs(w) = 0)
    BY <2>1, HostsCounted DEF Runs, Documents
  <2>3. MaxSurge(w, Runs(w)) \in Nat
    BY <2>1, <2>2, SurgeIsExact, SurgeNatural
  <2>4. /\ MostPods(d) = IF w.kind = "Job" THEN w.replicas
                         ELSE Runs(w) + (IF Rolls(w) THEN MaxSurge(w, Runs(w)) ELSE 0)
        /\ SteadyPods(d) = IF w.peakOnly THEN 0 ELSE Runs(w)
    BY <1>2 DEF MostPods, SteadyPods
  <2> HIDE DEF w
  <2> QED
    BY <2>2, <2>3, <2>4
<1> QED
  BY <1>1, <1>2

------------------------------------------------------------------------------
(* What is wanted and placed. *)

\* No workload has more pods placed than it wants, nor wants more than it may.
ClusterInv ==
  /\ \A d \in Ids : Total(placed[d]) <= wanted[d] /\ wanted[d] <= MostPods(d)
  /\ verdict # "admitted" => \A d \in Ids : wanted[d] = 0

\* Nothing is wanted at first.
LEMMA ClusterInit == Init => ClusterInv
<1> SUFFICES ASSUME Init PROVE ClusterInv
  OBVIOUS
<1>1. /\ \A d \in Ids : wanted[d] = 0 /\ placed[d] = [n \in Nodes |-> 0]
      /\ render \in Renders
  BY DEF Init
<1>2. \A d \in Ids : Total(placed[d]) = 0
  BY <1>1 DEF Total, Nodes
<1>3. \A d \in Ids : MostPods(d) \in Nat
  BY <1>1, MostNatural
<1> QED
  BY <1>1, <1>2, <1>3 DEF ClusterInv

\* Every step keeps it: a pod is bound only while one is pending, a rollout starts
\* one only below the most and ends one only above the steady state.
LEMMA ClusterStep ==
  ASSUME TypeOK, ClusterInv, [Next]_vars
  PROVE  ClusterInv'
<1> USE DEF inputs, sums, cluster, Quiet
<1>1. UNCHANGED render
  BY DEF Next, Gate, Cluster, Account, Reject, RejectSums, Admit, Bind, EndPod,
         StartPod, LoseNode, NodeReturns, vars
<1>2. Ids' = Ids /\ \A d : MostPods(d)' = MostPods(d)
  BY <1>1 DEF Ids, MostPods, Runs, Rolls, MaxSurge
<1>3. ASSUME NEW d \in Ids
      PROVE  /\ MostPods(d) \in Nat /\ SteadyPods(d) \in Nat /\ SteadyPods(d) <= MostPods(d)
             /\ wanted[d] \in Nat /\ wanted[d] <= MostPods(d)
             /\ placed[d] \in [Nodes -> Nat] /\ Total(placed[d]) <= wanted[d]
  BY MostNatural, SteadyNatural DEF TypeOK, ClusterInv
<1>4. ASSUME NEW d \in Ids
      PROVE  placed[d][1] \in Nat /\ placed[d][2] \in Nat /\ placed[d][3] \in Nat
  BY <1>3 DEF Nodes
<1>5. placed \in [Ids -> [Nodes -> Nat]] /\ wanted \in [Ids -> Nat]
  BY DEF TypeOK
<1>6. CASE UNCHANGED <<wanted, placed>> /\ (verdict' = "admitted" => verdict = "admitted")
                                         /\ (verdict = "admitted" => verdict' = "admitted")
  BY <1>2, <1>6 DEF ClusterInv, Total
<1>7. CASE Admit
  <2>1. wanted' = [d \in Ids |-> SteadyPods(d)] /\ placed' = placed /\ verdict' = "admitted"
        /\ verdict # "admitted"
    BY <1>7 DEF Admit
  <2>2. \A d \in Ids : Total(placed[d]) <= 0
    BY <1>3, <2>1 DEF ClusterInv
  <2>3. \A d \in Ids : wanted'[d] = SteadyPods(d) /\ Total(placed'[d]) = Total(placed[d])
    BY <2>1
  <2>4. ASSUME NEW d \in Ids
        PROVE  Total(placed[d]) \in Int
    BY <1>4 DEF Total
  <2>5. \A d \in Ids : Total(placed'[d]) <= wanted'[d] /\ wanted'[d] <= MostPods(d)
    BY <1>3, <2>2, <2>3, <2>4
  <2>6. \A d \in Ids' : (Total(placed[d]) <= wanted[d] /\ wanted[d] <= MostPods(d))'
    BY <1>2, <2>5 DEF Total
  <2> QED
    BY <2>1, <2>6 DEF ClusterInv
<1>8. CASE \E d \in Ids, n \in Nodes : Bind(d, n)
  <2>1. PICK d \in Ids, n \in Nodes : Bind(d, n)
    BY <1>8
  <2>2. /\ Pending(d) > 0
        /\ placed' = [placed EXCEPT ![d][n] = @ + 1]
        /\ UNCHANGED <<wanted, verdict>>
    BY <2>1 DEF Bind
  <2>3. Sum(placed[d]) = Total(placed[d])
    <3>1. placed[d] \in [Nodes -> Int]
      BY <1>3
    <3> QED
      BY <3>1, NodesSum DEF Total
  <2>4. Total(placed[d]) + 1 <= wanted[d]
    BY <1>3, <1>4, <2>2, <2>3 DEF Pending, Total
  <2>5. ASSUME NEW e \in Ids
        PROVE  Total(placed'[e]) <= wanted[e]
    <3>1. CASE e = d
      <4>1. /\ placed'[d][1] = placed[d][1] + (IF n = 1 THEN 1 ELSE 0)
            /\ placed'[d][2] = placed[d][2] + (IF n = 2 THEN 1 ELSE 0)
            /\ placed'[d][3] = placed[d][3] + (IF n = 3 THEN 1 ELSE 0)
        BY <1>4, <1>5, <2>2 DEF Nodes
      <4>2. Total(placed'[d]) = Total(placed[d]) + 1
        BY <1>4, <4>1 DEF Total, Nodes
      <4> QED
        BY <2>4, <3>1, <4>2
    <3>2. CASE e # d
      BY <1>3, <1>5, <2>2, <3>2
    <3> QED
      BY <3>1, <3>2
  <2>6. \A e \in Ids' : (Total(placed[e]) <= wanted[e] /\ wanted[e] <= MostPods(e))'
    BY <1>2, <1>3, <2>2, <2>5 DEF Total
  <2> QED
    BY <1>2, <2>2, <2>6 DEF ClusterInv
<1>9. CASE \E d \in Ids, n \in Nodes : EndPod(d, n)
  <2>1. PICK d \in Ids, n \in Nodes : EndPod(d, n)
    BY <1>9
  <2>2. /\ placed[d][n] > 0
        /\ wanted[d] > SteadyPods(d)
        /\ placed' = [placed EXCEPT ![d][n] = @ - 1]
        /\ wanted' = [wanted EXCEPT ![d] = @ - 1]
        /\ verdict' = verdict
    BY <2>1 DEF EndPod
  <2>3. ASSUME NEW e \in Ids
        PROVE  Total(placed'[e]) <= wanted'[e] /\ wanted'[e] <= MostPods(e)
    <3>1. CASE e = d
      <4>1. /\ placed'[d][1] = placed[d][1] - (IF n = 1 THEN 1 ELSE 0)
            /\ placed'[d][2] = placed[d][2] - (IF n = 2 THEN 1 ELSE 0)
            /\ placed'[d][3] = placed[d][3] - (IF n = 3 THEN 1 ELSE 0)
        BY <1>4, <1>5, <2>2 DEF Nodes
      <4>2. Total(placed'[d]) = Total(placed[d]) - 1 /\ Total(placed[d]) \in Int
        BY <1>4, <4>1 DEF Total, Nodes
      <4>3. wanted'[d] = wanted[d] - 1
        BY <1>5, <2>2
      <4> QED
        BY <1>3, <3>1, <4>2, <4>3
    <3>2. CASE e # d
      BY <1>3, <1>5, <2>2, <3>2
    <3> QED
      BY <3>1, <3>2
  <2>4. verdict # "admitted" => FALSE
    BY <1>3, <2>2 DEF ClusterInv
  <2>5. \A e \in Ids' : (Total(placed[e]) <= wanted[e] /\ wanted[e] <= MostPods(e))'
    BY <1>2, <2>3 DEF Total
  <2> QED
    BY <2>2, <2>4, <2>5 DEF ClusterInv
<1>10. CASE \E d \in Ids : StartPod(d)
  <2>1. PICK d \in Ids : StartPod(d)
    BY <1>10
  <2>2. /\ verdict = "admitted" /\ verdict' = verdict
        /\ wanted[d] < MostPods(d)
        /\ wanted' = [wanted EXCEPT ![d] = @ + 1]
        /\ placed' = placed
    BY <2>1 DEF StartPod
  <2>3. ASSUME NEW e \in Ids
        PROVE  Total(placed'[e]) <= wanted'[e] /\ wanted'[e] <= MostPods(e)
    <3>1. Total(placed'[e]) = Total(placed[e]) /\ Total(placed[e]) \in Int
      BY <1>4, <2>2 DEF Total
    <3>2. wanted'[e] = wanted[e] + (IF e = d THEN 1 ELSE 0)
      BY <1>3, <1>5, <2>2
    <3> QED
      BY <1>3, <2>2, <3>1, <3>2
  <2>4. \A e \in Ids' : (Total(placed[e]) <= wanted[e] /\ wanted[e] <= MostPods(e))'
    BY <1>2, <2>3 DEF Total
  <2> QED
    BY <2>2, <2>4 DEF ClusterInv
<1>11. CASE \E n \in Nodes : LoseNode(n)
  <2>1. PICK n \in Nodes : LoseNode(n)
    BY <1>11
  <2>2. /\ verdict = "admitted" /\ verdict' = verdict
        /\ placed' = [d \in Ids |-> [placed[d] EXCEPT ![n] = 0]]
        /\ wanted' = wanted
    BY <2>1 DEF LoseNode
  <2>3. ASSUME NEW e \in Ids
        PROVE  Total(placed'[e]) <= wanted[e]
    <3>1. placed'[e] = [placed[e] EXCEPT ![n] = 0]
      BY <2>2
    <3>2. /\ placed'[e][1] = IF n = 1 THEN 0 ELSE placed[e][1]
          /\ placed'[e][2] = IF n = 2 THEN 0 ELSE placed[e][2]
          /\ placed'[e][3] = IF n = 3 THEN 0 ELSE placed[e][3]
      BY <1>3, <3>1 DEF Nodes
    <3> QED
      BY <1>3, <1>4, <3>2 DEF Total
  <2>4. \A e \in Ids' : (Total(placed[e]) <= wanted[e] /\ wanted[e] <= MostPods(e))'
    BY <1>2, <1>3, <2>2, <2>3 DEF Total
  <2> QED
    BY <2>2, <2>4 DEF ClusterInv
<1>12. CASE Account \/ Reject \/ RejectSums \/ NodeReturns \/ UNCHANGED vars
  BY <1>6, <1>12 DEF Account, Reject, RejectSums, NodeReturns, vars, Reading
<1> QED
  BY <1>7, <1>8, <1>9, <1>10, <1>11, <1>12 DEF Next, Gate, Cluster

------------------------------------------------------------------------------
(* What the pods ask for. *)

\* What a pod asks for is a natural number.
LEMMA SizeNatural ==
  ASSUME render \in Renders, NEW d \in Ids
  PROVE  Size(d) \in Nat
<1>1. CASE d = 0
  BY <1>1 DEF Size
<1>2. CASE d # 0
  <2>1. render[d] \in Documents
    BY <1>2, RenderedDocuments, CapacityAssumption DEF Ids
  <2> QED
    BY <1>2, <2>1, RequestExact DEF Size
<1> QED
  BY <1>1, <1>2

\* The peak the gate counts for a document it accepted covers all the pods
\* that Kubernetes may run of it.
LEMMA MostCounted ==
  ASSUME render \in Renders, NEW k \in DOMAIN render, render[k].kind \in Workloads
  PROVE  MostPods(k) <= Counted(render[k]).peak
<1> DEFINE w == render[k]
           hosts == Cardinality(w.eligible)
<1>1. w \in Documents /\ k # 0
  BY RenderedDocuments, CapacityAssumption
<1>2. w.replicas \in Nat /\ hosts \in Nat
  BY <1>1, HostsCounted DEF Documents
<1>3. \A basis \in Nat : MaxSurge(w, basis) = Surge(w, basis) /\ Surge(w, basis) \in Nat
  BY <1>1, SurgeIsExact, SurgeNatural
<1>4. MostPods(k) = IF w.kind = "Job" THEN w.replicas
                    ELSE Runs(w) + (IF Rolls(w) THEN MaxSurge(w, Runs(w)) ELSE 0)
  BY <1>1 DEF MostPods
<1> HIDE DEF w, hosts
<1>5. CASE w.kind = "Deployment"
  BY <1>2, <1>3, <1>4, <1>5 DEF Runs, Rolls, Counted, Replicas, w
<1>6. CASE w.kind = "DaemonSet"
  BY <1>2, <1>3, <1>4, <1>6 DEF Runs, Rolls, Counted, Replicas, w, hosts
<1>7. CASE w.kind \in {"StatefulSet", "Job", "Pod"}
  BY <1>2, <1>4, <1>7 DEF Runs, Rolls, Counted, Replicas, w
<1> QED
  BY <1>5, <1>6, <1>7 DEF Workloads, w

\* So what these pods ask for is within the peak the gate counted for it.
LEMMA MostFits ==
  ASSUME render \in Renders, NEW k \in DOMAIN render, render[k].kind # "Generator"
  PROVE  MostPods(k) * Size(k) \in Int /\ MostPods(k) * Size(k) <= PeakOf(render[k])
<1> DEFINE w == render[k]
<1>1. w \in Documents /\ k # 0 /\ k \in Ids
  BY RenderedDocuments, CapacityAssumption DEF Ids
<1>2. Size(k) = EffectiveRequest(w) /\ Size(k) \in Nat
  BY <1>1, RequestExact DEF Size
<1>3. CASE w.kind \in Workloads
  <2>1. MostPods(k) \in Int /\ Counted(w).peak \in Int /\ MostPods(k) <= Counted(w).peak
    BY <1>1, <1>3, MostNatural, MostCounted, CountedNatural
  <2>2. PeakOf(w) = EffectiveRequest(w) * Counted(w).peak
    BY <1>3 DEF PeakOf
  <2> DEFINE most == MostPods(k)
             counted == Counted(w).peak
             size == Size(k)
  <2> HIDE DEF most, counted, size, w
  <2>3. most * size \in Int /\ most * size <= counted * size
    BY <1>2, <2>1, ProductGrows DEF most, counted, size
  <2>4. counted * size = size * counted
    BY <1>2, <2>1 DEF counted, size
  <2> QED
    BY <1>2, <2>2, <2>3, <2>4 DEF most, counted, size, w
<1>4. CASE w.kind \notin Workloads
  <2>1. MostPods(k) = 0
    <3>1. Runs(w) = 0 /\ ~Rolls(w) /\ w.kind # "Job"
      BY <1>4 DEF Runs, Rolls, Workloads
    <3> QED
      BY <1>1, <3>1 DEF MostPods
  <2>2. PeakOf(w) = 0
    BY <1>4 DEF PeakOf
  <2> QED
    BY <1>2, <2>1, <2>2
<1> QED
  BY <1>3, <1>4

\* What the pods wanted on the cluster ask for.
Demand == [d \in Ids |-> wanted[d] * Size(d)]

\* It is a natural number for each workload.
LEMMA DemandTyped ==
  ASSUME TypeOK
  PROVE  IsFiniteSet(Ids) /\ 0 \in Ids /\ \A d \in Ids : Demand[d] \in Nat
<1>1. Len(render) \in Nat /\ render \in Renders
  BY CapacityAssumption DEF TypeOK
<1>2. IsFiniteSet(Ids) /\ 0 \in Ids
  BY <1>1, FS_Interval DEF Ids
<1>3. ASSUME NEW d \in Ids
      PROVE  Demand[d] \in Nat
  <2> DEFINE pods == wanted[d]
             size == Size(d)
  <2>1. pods \in Nat /\ size \in Nat /\ Demand[d] = pods * size
    BY <1>1, SizeNatural DEF TypeOK, Demand
  <2> HIDE DEF pods, size
  <2> QED
    BY <2>1
<1> QED
  BY <1>2, <1>3

\* Whatever rollouts overlap, they ask for no more than what existed before and the
\* peak the gate has added up.
LEMMA DemandBounded ==
  ASSUME TypeOK, ClusterInv, SumsInv, AllPassed, i = Len(render), verdict = "admitted"
  PROVE  Sum(Demand) \in Int /\ Sum(Demand) <= Existing + peak
<1> DEFINE n == Len(render)
           K == 1..n
<1>1. n \in Nat /\ DOMAIN render = K /\ render \in Renders /\ IsFiniteSet(K)
  BY CapacityAssumption, FS_Interval DEF TypeOK
<1>2. Ids \ {0} = K /\ \A k \in K : k \in Ids
  BY <1>1 DEF Ids
<1> HIDE DEF n, K
<1>3. \A d \in Ids : Demand[d] \in Int
  BY DemandTyped
<1>4. /\ SumFunctionOnSet(Demand, Ids) = Demand[0] + SumFunctionOnSet(Demand, K)
      /\ SumFunctionOnSet(Demand, Ids) \in Int /\ SumFunctionOnSet(Demand, K) \in Int
  BY <1>2, <1>3, DemandTyped, SumWithout
<1>5. Demand[0] \in Int /\ Demand[0] <= Existing
  <2>1. wanted[0] \in Nat /\ wanted[0] <= MostPods(0) /\ MostPods(0) = Existing /\ Size(0) = 1
    BY DemandTyped DEF TypeOK, ClusterInv, MostPods, Size
  <2>2. Demand[0] = wanted[0] * 1
    BY <2>1, DemandTyped DEF Demand
  <2> QED
    BY <2>1, <2>2, CapacityAssumption
<1>6. ASSUME NEW k \in K
      PROVE  Demand[k] <= Peaks[k] /\ Peaks[k] \in Int
  <2> DEFINE pods == wanted[k]
             most == MostPods(k)
             size == Size(k)
  <2>1. pods \in Int /\ most \in Int /\ size \in Nat /\ pods <= most
    BY <1>1, <1>2, SizeNatural, MostNatural DEF TypeOK, ClusterInv
  <2>2. Demand[k] = pods * size
    BY <1>2 DEF Demand
  <2>3. most * size <= PeakOf(render[k])
    BY <1>1, MostFits DEF AllPassed, Passed
  <2>4. Peaks[k] = PeakOf(render[k]) /\ Peaks[k] \in Nat
    BY SumsGrow DEF Peaks, K, n
  <2> HIDE DEF pods, most, size
  <2>5. pods * size \in Int /\ most * size \in Int /\ pods * size <= most * size
    BY <2>1, ProductGrows
  <2> QED
    BY <2>2, <2>3, <2>4, <2>5
<1>7. SumFunctionOnSet(Demand, K) <= SumFunctionOnSet(Peaks, K)
  <2>1. \A k \in K : Demand[k] \in Int /\ Peaks[k] \in Int /\ Demand[k] <= Peaks[k]
    BY <1>2, <1>3, <1>6
  <2> QED
    BY <1>1, <2>1, SumMono
<1>8. peak = SumFunctionOnSet(Peaks, K) /\ peak \in Int
  BY DEF SumsInv, TypeOK, K, n
<1>9. Sum(Demand) = SumFunctionOnSet(Demand, Ids)
  BY DEF Sum, FoldFunction, SumFunctionOnSet, Demand
<1> QED
  BY <1>4, <1>5, <1>7, <1>8, <1>9, CapacityAssumption

\* All that the proofs below need of a reachable state.
AdmissionInv == TypeOK /\ PassedInv /\ DecidedInv /\ SumsInv /\ ClusterInv

\* It holds from Init on.
LEMMA AdmissionInvariant == Spec => []AdmissionInv
<1>1. Init => AdmissionInv
  BY TypeInit, SumsInit, ClusterInit, CapacityAssumption
     DEF AdmissionInv, Init, PassedInv, DecidedInv
<1>2. AdmissionInv /\ [Next]_vars => AdmissionInv'
  BY TypeStep, PassedStep, DecidedStep, SumsStep, ClusterStep DEF AdmissionInv
<1> QED
  BY <1>1, <1>2, PTL DEF Spec

\* What an admitted cluster wants fits on any two of its nodes.
LEMMA DemandFits ==
  ASSUME AdmissionInv, verdict = "admitted", NEW lost \in Nodes
  PROVE  /\ Sum(Demand) \in Int
         /\ Sum(Demand) + Reserve <= Total(node) - node[lost]
<1>1. TypeOK /\ ClusterInv /\ SumsInv /\ AllPassed /\ i = Len(render) /\ AnyTwoSuffice
  BY DecidedSuffices, CapacityAssumption DEF AdmissionInv, PassedInv, AllPassed, DecidedInv
<1>2. Sum(Demand) \in Int /\ Sum(Demand) <= Existing + peak
  BY <1>1, DemandBounded
<1>3. Existing + peak + Reserve <= Total(node) - node[lost]
  BY <1>1 DEF AnyTwoSuffice
<1>4. Total(node) - node[lost] \in Int
  BY <1>1, CapacityAssumption DEF TypeOK, Total, Nodes
<1>5. Existing \in Int /\ peak \in Int /\ Reserve \in Int
  BY <1>1, CapacityAssumption DEF TypeOK
<1> QED
  BY <1>2, <1>3, <1>4, <1>5

(***************************************************************************)
(* "Operational reserve remains after the complete rollout peak and one    *)
(* node loss" (config/platform-capacity-admission.yaml:34): whatever       *)
(* rollouts and generated work overlap after the admission, any two nodes  *)
(* hold what every workload wants and the reserve. The sums of the gate    *)
(* bound the demand document by document (SumsInv), a workload wants no    *)
(* more than its most pods (ClusterInv), and the gate counts for each at   *)
(* least what Kubernetes runs (MostFits).                                  *)
(***************************************************************************)
THEOREM ReserveKept == Spec => []ReserveRemains
<1>1. ASSUME AdmissionInv, verdict = "admitted", NEW lost \in Nodes
      PROVE  Sum([d \in Ids |-> wanted[d] * Size(d)]) + Reserve
               <= Sum([n \in Nodes \ {lost} |-> node[n]])
  <2>1. Sum(Demand) + Reserve <= Total(node) - node[lost]
    BY <1>1, DemandFits
  <2> DEFINE two == [n \in Nodes \ {lost} |-> node[n]]
             S == Nodes \ {lost}
  <2>2. node \in [Nodes -> Int]
    BY <1>1, CapacityAssumption DEF AdmissionInv, TypeOK
  <2>3. Sum(two) = SumFunctionOnSet(two, S)
    BY DEF Sum, FoldFunction, SumFunctionOnSet
  <2>4. SumFunctionOnSet(two, S) = SumFunctionOnSet(node, S)
    <3>1. IsFiniteSet(S) /\ \A n \in S : two[n] \in Int /\ node[n] = two[n]
      BY <2>2, NodesFinite, FS_Subset
    <3> HIDE DEF two, S
    <3> QED
      BY <3>1, SumSame
  <2>5. SumFunctionOnSet(node, S) = Total(node) - node[lost]
    BY <2>2, NodesSum
  <2> QED
    BY <2>1, <2>3, <2>4, <2>5 DEF Demand
<1>2. AdmissionInv => ReserveRemains
  BY <1>1 DEF ReserveRemains
<1> QED
  BY <1>2, AdmissionInvariant, PTL

(***************************************************************************)
(* What the gate requests for a pod (effective_pod_resources) is what the  *)
(* pod holds at its greediest moment, for every sequence of init           *)
(* containers and sidecars.                                                *)
(***************************************************************************)
THEOREM RequestsExact == Spec => []RequestIsExact
<1>1. TypeOK => RequestIsExact
  BY RenderedDocuments, RequestExact DEF TypeOK, RequestIsExact
<1> QED
  BY <1>1, TypeCorrect, PTL

------------------------------------------------------------------------------
(* Room for a pending pod. *)

\* What the pods on a node ask for.
Used(n) == [d \in Ids |-> placed[d][n] * Size(d)]

\* It is a natural number for each workload.
LEMMA UsedTyped ==
  ASSUME TypeOK, NEW n \in Nodes
  PROVE  (\A d \in Ids : Used(n)[d] \in Nat) /\ Sum(Used(n)) = SumFunctionOnSet(Used(n), Ids)
<1>1. ASSUME NEW d \in Ids
      PROVE  Used(n)[d] \in Nat
  <2> DEFINE pods == placed[d][n]
             size == Size(d)
  <2>1. pods \in Nat /\ size \in Nat /\ Used(n)[d] = pods * size
    BY SizeNatural DEF TypeOK, Used
  <2> HIDE DEF pods, size
  <2> QED
    BY <2>1
<1> QED
  BY <1>1 DEF Sum, FoldFunction, SumFunctionOnSet, Used

\* While a pod is pending, two nodes carry no more than the others ask for.
LEMMA PendingUnused ==
  ASSUME TypeOK, ClusterInv, NEW d \in Ids, Pending(d) > 0,
         NEW a \in Nodes, NEW b \in Nodes, a # b
  PROVE  /\ Sum(Used(a)) \in Int /\ Sum(Used(b)) \in Int
         /\ Sum(Used(a)) + Sum(Used(b)) + Size(d) <= Sum(Demand)
<1> DEFINE both == [e \in Ids |-> Used(a)[e] + Used(b)[e]]
           rest == Ids \ {d}
<1>1. IsFiniteSet(Ids) /\ IsFiniteSet(rest) /\ \A e \in Ids : Demand[e] \in Int
  BY DemandTyped, FS_Subset
<1>2. \A e \in Ids : Used(a)[e] \in Int /\ Used(b)[e] \in Int
                     /\ both[e] = Used(a)[e] + Used(b)[e] /\ both[e] \in Int
  BY UsedTyped
<1>3. ASSUME NEW e \in Ids
      PROVE  both[e] + (IF e = d THEN Size(d) ELSE 0) <= Demand[e]
  <2> DEFINE pa == placed[e][a]
             pb == placed[e][b]
             one == IF e = d THEN 1 ELSE 0
             want == wanted[e]
             size == Size(e)
  <2>1. size \in Nat /\ pa \in Nat /\ pb \in Nat /\ want \in Nat
    BY SizeNatural DEF TypeOK
  <2>2. pa + pb + one <= want
    <3>1. placed[e] \in [Nodes -> Nat] /\ Total(placed[e]) <= wanted[e]
      BY DEF TypeOK, ClusterInv
    <3>2. placed[e] \in [Nodes -> Int]
      BY <3>1
    <3>3. Sum(placed[e]) = Total(placed[e])
      BY <3>2, NodesSum DEF Total
    <3>4. pa + pb <= Total(placed[e]) /\ Total(placed[e]) \in Int
      BY <3>1, a # b DEF Total, Nodes
    <3>5. e = d => Total(placed[e]) + 1 <= want
      BY <2>1, <3>3, <3>4 DEF Pending
    <3> QED
      BY <2>1, <3>1, <3>4, <3>5
  <2>3. Used(a)[e] = pa * size /\ Used(b)[e] = pb * size /\ Demand[e] = want * size
    BY DEF Used, Demand
  <2>4. one * size = IF e = d THEN Size(d) ELSE 0
    BY <2>1
  <2>5. both[e] = pa * size + pb * size
    BY <2>3
  <2> HIDE DEF pa, pb, want, size, both
  <2>6. pa + pb + one \in Int /\ one \in Nat
    BY <2>1
  <2> HIDE DEF one
  <2>7. (pa + pb + one) * size <= want * size
    BY <2>1, <2>2, <2>6, ProductGrows
  <2>8. (pa + pb + one) * size = pa * size + pb * size + one * size
    BY <2>1, <2>6
  <2>9. both[e] + one * size <= Demand[e]
    BY <2>3, <2>5, <2>7, <2>8
  <2> QED
    BY <2>4, <2>9
<1>4. SumFunctionOnSet(both, Ids) = SumFunctionOnSet(Used(a), Ids) + SumFunctionOnSet(Used(b), Ids)
  <2> HIDE DEF both
  <2> QED
    BY <1>1, <1>2, SumPlus
<1> HIDE DEF both, rest
<1>5. /\ SumFunctionOnSet(both, Ids) = both[d] + SumFunctionOnSet(both, rest)
      /\ SumFunctionOnSet(both, rest) \in Int
  BY <1>1, <1>2, SumWithout DEF rest
<1>6. /\ SumFunctionOnSet(Demand, Ids) = Demand[d] + SumFunctionOnSet(Demand, rest)
      /\ SumFunctionOnSet(Demand, rest) \in Int
  BY <1>1, SumWithout DEF rest
<1>7. SumFunctionOnSet(both, rest) <= SumFunctionOnSet(Demand, rest)
  <2>1. \A e \in rest : both[e] \in Int /\ Demand[e] \in Int /\ both[e] <= Demand[e]
    BY <1>1, <1>2, <1>3 DEF rest
  <2> QED
    BY <1>1, <2>1, SumMono
<1>8. both[d] + Size(d) <= Demand[d] /\ both[d] \in Int /\ Demand[d] \in Int /\ Size(d) \in Int
  <2>1. Size(d) \in Nat
    BY SizeNatural DEF TypeOK
  <2> QED
    BY <1>1, <1>2, <1>3, <2>1
<1>9. /\ Sum(Used(a)) = SumFunctionOnSet(Used(a), Ids)
      /\ Sum(Used(b)) = SumFunctionOnSet(Used(b), Ids)
      /\ Sum(Demand) = SumFunctionOnSet(Demand, Ids)
  BY UsedTyped DEF Sum, FoldFunction, SumFunctionOnSet, Demand
<1>10. SumFunctionOnSet(Used(a), Ids) \in Int /\ SumFunctionOnSet(Used(b), Ids) \in Int
  BY <1>1, <1>2, SumOne
<1> QED
  BY <1>4, <1>5, <1>6, <1>7, <1>8, <1>9, <1>10

\* So two nodes that are left have the reserve free, and one has room for the pod.
LEMMA RoomOnTwo ==
  ASSUME AdmissionInv, verdict = "admitted", NEW d \in Ids, Pending(d) > 0, Size(d) <= Reserve,
         NEW a \in Nodes, NEW b \in Nodes, NEW lost \in Nodes,
         a # b, a # lost, b # lost
  PROVE  Size(d) <= Free(a) \/ Size(d) <= Free(b)
<1>1. TypeOK /\ ClusterInv
  BY DEF AdmissionInv
<1>2. /\ Sum(Used(a)) \in Int /\ Sum(Used(b)) \in Int
      /\ Sum(Used(a)) + Sum(Used(b)) + Size(d) <= Sum(Demand)
  BY <1>1, PendingUnused
<1>3. Sum(Demand) \in Int /\ Sum(Demand) + Reserve <= Total(node) - node[lost]
  BY DemandFits
<1>4. Total(node) - node[lost] = node[a] + node[b] /\ node[a] \in Int /\ node[b] \in Int
  <2>1. node \in [Nodes -> Int]
    BY <1>1, CapacityAssumption DEF TypeOK
  <2>2. node[1] \in Int /\ node[2] \in Int /\ node[3] \in Int
    BY <2>1 DEF Nodes
  <2>3. Nodes = {1, 2, 3}
    BY NodesFinite
  <2> QED
    BY <2>2, <2>3 DEF Total
<1>5. Free(a) = node[a] - Sum(Used(a)) /\ Free(b) = node[b] - Sum(Used(b))
  BY DEF Free, Used
<1>6. Size(d) \in Int /\ Reserve \in Int
  <2>1. Size(d) \in Nat
    BY <1>1, SizeNatural DEF TypeOK
  <2> QED
    BY <2>1, CapacityAssumption
<1> QED
  BY <1>2, <1>3, <1>4, <1>5, <1>6

(***************************************************************************)
(* For a pod that may run anywhere and asks for no more than the reserve   *)
(* some node has enough of CPU, and some of memory (not both on one node), *)
(* however the other pods were placed and whichever node is lost: the two  *)
(* nodes left carry at most what the other pods ask for, so the reserve    *)
(* that the gate kept free (evaluate) is left on them, and if both had     *)
(* less room than the pod, they would carry more.                          *)
(***************************************************************************)
THEOREM NeitherIsScattered == Spec => []NoResourceScattered
<1>1. ASSUME AdmissionInv, NEW d \in Ids, Pending(d) > 0, FreeToMove(d), Size(d) <= Reserve
      PROVE  \E n \in Nodes : HasRoom(d, n)
  <2>1. TypeOK /\ ClusterInv
    BY <1>1 DEF AdmissionInv
  <2>2. /\ placed[d] \in [Nodes -> Nat] /\ wanted[d] \in Nat /\ wanted[d] <= MostPods(d)
        /\ Sum(placed[d]) < wanted[d] /\ Sum(placed[d]) = Total(placed[d])
    <3>1. placed[d] \in [Nodes -> Nat] /\ wanted[d] \in Nat /\ wanted[d] <= MostPods(d)
      BY <2>1 DEF TypeOK, ClusterInv
    <3>2. placed[d] \in [Nodes -> Int]
      BY <3>1
    <3>3. Sum(placed[d]) = Total(placed[d])
      BY <3>2, NodesSum DEF Total
    <3>4. Total(placed[d]) \in Int
      BY <3>1 DEF Total, Nodes
    <3> QED
      BY <1>1, <3>1, <3>3, <3>4 DEF Pending
  <2>3. verdict = "admitted"
    <3>1. Total(placed[d]) \in Nat
      BY <2>2 DEF Total, Nodes
    <3> QED
      BY <2>1, <2>2, <3>1 DEF ClusterInv
  <2>4. Home(d) = Nodes /\ PerNode(d) = MostPods(d)
    BY <1>1 DEF FreeToMove, Home, PerNode, MostPods
  <2>5. ASSUME NEW n \in Nodes
        PROVE  placed[d][n] < PerNode(d)
    <3>1. placed[d][n] <= Total(placed[d]) /\ placed[d][n] \in Int /\ Total(placed[d]) \in Int
      BY <2>2 DEF Total, Nodes
    <3>2. MostPods(d) \in Nat
      BY <2>1, MostNatural DEF TypeOK
    <3> QED
      BY <2>2, <2>4, <3>1, <3>2
  <2>6. PICK lost \in Nodes : down # 0 => lost = down
    BY <2>1 DEF TypeOK, Nodes
  <2>7. PICK a \in Nodes, b \in Nodes : a # b /\ a # lost /\ b # lost
    <3>1. CASE lost = 1
      BY <3>1 DEF Nodes
    <3>2. CASE lost = 2
      BY <3>2 DEF Nodes
    <3>3. CASE lost = 3
      BY <3>3 DEF Nodes
    <3> QED
      BY <3>1, <3>2, <3>3 DEF Nodes
  <2>8. a # down /\ b # down
    BY <2>6, <2>7 DEF Nodes
  <2>9. Size(d) <= Free(a) \/ Size(d) <= Free(b)
    BY <1>1, <2>3, <2>7, RoomOnTwo
  <2> QED
    BY <2>4, <2>5, <2>8, <2>9 DEF HasRoom
<1>2. AdmissionInv => NoResourceScattered
  BY <1>1 DEF NoResourceScattered
<1> QED
  BY <1>2, AdmissionInvariant, PTL

------------------------------------------------------------------------------
(* Volumes. *)

\* What the gate counts for a document is what its volumes take, with all copies and
\* with one less.
LEMMA VolumesCounted ==
  ASSUME render \in Renders, NEW d \in DOMAIN render
  PROVE  /\ VolumeBytes(d, 0) \in Int /\ VolumeBytes(d, 1) \in Int
         /\ Volumes(render[d]).raw = VolumeBytes(d, 0)
         /\ Volumes(render[d]).loss = VolumeBytes(d, 1)
<1> DEFINE w == render[d]
           all == Sum(Weights(w.claims, 0))
           fewer == Sum(Weights(w.claims, 1))
<1>1. w \in Documents
  BY RenderedDocuments
<1>2. w.claims \in Seq(Claims) /\ w.replicas \in Nat
  BY <1>1 DEF Documents
<1>3. /\ all \in Int /\ fewer \in Int
      /\ \A times \in Nat : /\ Bytes(w.claims, times).raw = times * all
                            /\ Bytes(w.claims, times).loss = times * fewer
  BY <1>2, BytesKept
<1>4. CASE w.kind = "StatefulSet"
  <2>1. /\ Volumes(w).raw = w.replicas * all /\ VolumeBytes(d, 0) = w.replicas * all
        /\ Volumes(w).loss = w.replicas * fewer /\ VolumeBytes(d, 1) = w.replicas * fewer
    BY <1>2, <1>3, <1>4 DEF Volumes, VolumeBytes, Counted, Replicas, Weights
  <2> HIDE DEF all, fewer
  <2>2. w.replicas * all \in Int /\ w.replicas * fewer \in Int
    BY <1>2, <1>3
  <2> QED
    BY <2>1, <2>2
<1>5. CASE w.kind = "PersistentVolumeClaim"
  <2>1. /\ Volumes(w).raw = 1 * all /\ VolumeBytes(d, 0) = all
        /\ Volumes(w).loss = 1 * fewer /\ VolumeBytes(d, 1) = fewer
    BY <1>3, <1>5 DEF Volumes, VolumeBytes, Weights
  <2> HIDE DEF all, fewer
  <2> QED
    BY <1>3, <2>1
<1>6. CASE w.kind \notin {"StatefulSet", "PersistentVolumeClaim"}
  BY <1>6 DEF Volumes, VolumeBytes
<1> QED
  BY <1>4, <1>5, <1>6

\* So its sums are those of all volumes.
LEMMA VolumesSummed ==
  ASSUME TypeOK, SumsInv, i = Len(render)
  PROVE  raw = AllVolumes(0) /\ loss = AllVolumes(1)
<1> DEFINE K == 1..Len(render)
           all == [d \in DOMAIN render |-> VolumeBytes(d, 0)]
           fewer == [d \in DOMAIN render |-> VolumeBytes(d, 1)]
<1>1. render \in Renders /\ DOMAIN render = K /\ IsFiniteSet(K)
  BY CapacityAssumption, FS_Interval DEF TypeOK
<1>2. \A d \in K : all[d] \in Int /\ Raws[d] = all[d] /\ fewer[d] \in Int /\ Losses[d] = fewer[d]
  <2>1. \A d \in K : /\ VolumeBytes(d, 0) \in Int /\ VolumeBytes(d, 1) \in Int
                     /\ Volumes(render[d]).raw = VolumeBytes(d, 0)
                     /\ Volumes(render[d]).loss = VolumeBytes(d, 1)
    BY <1>1, VolumesCounted
  <2>2. \A d \in K : /\ all[d] = VolumeBytes(d, 0) /\ Raws[d] = Volumes(render[d]).raw
                     /\ fewer[d] = VolumeBytes(d, 1) /\ Losses[d] = Volumes(render[d]).loss
    BY <1>1 DEF Raws, Losses
  <2> HIDE DEF all, fewer, K
  <2> QED
    BY <2>1, <2>2
<1>3. Sum(all) = SumFunctionOnSet(all, K) /\ Sum(fewer) = SumFunctionOnSet(fewer, K)
  BY <1>1 DEF Sum, FoldFunction, SumFunctionOnSet
<1>4. AllVolumes(0) = Sum(all) /\ AllVolumes(1) = Sum(fewer)
  BY DEF AllVolumes
<1>5. raw = SumFunctionOnSet(Raws, K) /\ loss = SumFunctionOnSet(Losses, K)
  BY DEF SumsInv
<1> HIDE DEF all, fewer, K
<1>6. /\ SumFunctionOnSet(all, K) = SumFunctionOnSet(Raws, K)
      /\ SumFunctionOnSet(fewer, K) = SumFunctionOnSet(Losses, K)
  BY <1>1, <1>2, SumSame
<1> QED
  BY <1>3, <1>4, <1>5, <1>6

(***************************************************************************)
(* "Fifty GiB remains free after replicated PVC allocation for rebuild     *)
(* work" (config/platform-capacity-admission.yaml:37), in sums: all disks  *)
(* together hold every copy and the reserve, any two of them one copy less *)
(* of each volume, for every sequence of claims with any number of copies  *)
(* (_pvc_bytes, evaluate).  Not that each disk holds its share.            *)
(***************************************************************************)
THEOREM VolumesFitInSum == Spec => []VolumeSumsFit
<1>1. ASSUME AdmissionInv, verdict = "admitted"
      PROVE  AllVolumes(0) + DiskReserve <= Sum(disk)
  <2>1. TypeOK /\ AnyTwoSuffice /\ SumsInv /\ i = Len(render)
    BY <1>1, DecidedSuffices DEF AdmissionInv, DecidedInv
  <2>2. raw + DiskReserve <= Total(disk)
    BY <1>1, <2>1 DEF AnyTwoSuffice, Nodes
  <2>3. disk \in [Nodes -> Int]
    BY <2>1, CapacityAssumption DEF TypeOK
  <2>4. Sum(disk) = Total(disk)
    BY <2>3, NodesSum DEF Total
  <2> QED
    BY <2>1, <2>2, <2>4, VolumesSummed
<1>2. ASSUME AdmissionInv, verdict = "admitted", NEW lost \in Nodes
      PROVE  AllVolumes(1) + DiskReserve <= Sum([n \in Nodes \ {lost} |-> disk[n]])
  <2> DEFINE S == Nodes \ {lost}
             two == [m \in S |-> disk[m]]
  <2>1. TypeOK /\ AnyTwoSuffice /\ SumsInv /\ i = Len(render)
    BY <1>2, DecidedSuffices DEF AdmissionInv, DecidedInv
  <2>2. loss + DiskReserve <= Total(disk) - disk[lost]
    BY <1>2, <2>1 DEF AnyTwoSuffice
  <2>3. disk \in [Nodes -> Int]
    BY <2>1, CapacityAssumption DEF TypeOK
  <2>4. SumFunctionOnSet(disk, S) = Total(disk) - disk[lost]
    BY <2>3, NodesSum
  <2>5. Sum(two) = SumFunctionOnSet(two, S)
    BY DEF Sum, FoldFunction, SumFunctionOnSet
  <2>6. SumFunctionOnSet(two, S) = SumFunctionOnSet(disk, S)
    <3>1. IsFiniteSet(S) /\ \A m \in S : two[m] \in Int /\ disk[m] = two[m]
      BY <2>3, NodesFinite, FS_Subset
    <3> HIDE DEF two, S
    <3> QED
      BY <3>1, SumSame
  <2>7. loss = AllVolumes(1)
    BY <2>1, VolumesSummed
  <2> QED
    BY <2>2, <2>4, <2>5, <2>6, <2>7
<1>3. AdmissionInv => VolumeSumsFit
  BY <1>1, <1>2 DEF VolumeSumsFit
<1> QED
  BY <1>3, AdmissionInvariant, PTL

------------------------------------------------------------------------------
(* Placement. *)

\* The spread the gate computed is one: the pods go evenly over the hosts, and the
\* smallest of them holds the largest share.
LEMMA SpreadFits ==
  ASSUME node \in [Nodes -> Nat], NEW w \in Documents, NEW pods \in Nat, NEW most \in Nat,
         most <= pods,
         NEW R, R \in SUBSET Nodes, R # {}, Spreads(w, pods, R)
  PROVE  \E f \in [R -> 0..most] :
           Sum(f) = most /\ \A n \in R : f[n] * EffectiveRequest(w) <= node[n]
<1> DEFINE hosts == Cardinality(R)
           c == Ceiling(pods, hosts)
           size == EffectiveRequest(w)
<1>1. IsFiniteSet(R) /\ hosts \in 1..3
  <2>1. IsFiniteSet(R) /\ Cardinality(R) <= Cardinality(Nodes)
    BY NodesFinite, FS_Subset
  <2>2. Cardinality(Nodes) = 3
    <3>1. 1 \in Int /\ 3 \in Int /\ ~(1 > 3) /\ 3 - 1 + 1 = 3
      OBVIOUS
    <3>2. Cardinality(1..3) = IF 1 > 3 THEN 0 ELSE 3 - 1 + 1
      BY <3>1, FS_Interval, Zenon
    <3> QED
      BY <3>1, <3>2, Zenon DEF Nodes
  <2>3. Cardinality(R) \in Nat /\ Cardinality(R) # 0
    BY <2>1, FS_CardinalityType, FS_EmptySet
  <2> QED
    BY <2>1, <2>2, <2>3
<1>2. c \in Nat /\ hosts * c >= pods
  BY <1>1, CeilingSpreads
<1>3. size \in Nat
  BY RequestExact
<1>4. \A n \in R : c * size <= node[n]
  <2> DEFINE held == {node[n] : n \in R}
  <2>1. IsFiniteSet(held) /\ held # {} /\ \A x \in held : x \in Int
    <3>1. IsFiniteSet(held)
      <4> DEFINE g == [n \in R |-> node[n]]
      <4>1. g \in Surjection(R, held)
        BY DEF Surjection
      <4> QED
        BY <1>1, <4>1, FS_Surjection
    <3> QED
      BY <3>1
  <2>2. c * size <= Min(held)
    BY DEF Spreads, Smallest
  <2>3. \A n \in R : node[n] \in held /\ node[n] \in Int
    OBVIOUS
  <2> HIDE DEF held, c, size
  <2>4. Min(held) \in held /\ \A x \in held : Min(held) <= x
    BY <2>1, Extremes
  <2>5. c * size \in Int
    BY <1>2, <1>3
  <2> QED
    BY <2>1, <2>2, <2>3, <2>4, <2>5
<1> HIDE DEF c, hosts, size
<1>5. most <= hosts * c
  <2>1. hosts * c \in Int
    BY <1>1, <1>2
  <2> QED
    BY <1>2, <2>1
<1>6. PICK f \in [R -> 0..most] : SumFunctionOnSet(f, R) = most /\ \A n \in R : f[n] <= c
  BY <1>1, <1>2, <1>5, SumSpread DEF hosts
<1>7. Sum(f) = most
  BY <1>6 DEF Sum, FoldFunction, SumFunctionOnSet
<1>8. ASSUME NEW n \in R
      PROVE  f[n] * size <= node[n]
  <2>1. f[n] \in Int /\ c \in Int /\ f[n] <= c
    BY <1>2, <1>6
  <2>2. f[n] * size \in Int /\ c * size \in Int /\ f[n] * size <= c * size
    BY <1>3, <2>1, ProductGrows
  <2>3. node[n] \in Int
    OBVIOUS
  <2> QED
    BY <1>4, <2>2, <2>3
<1> QED
  BY <1>7, <1>8 DEF size

(***************************************************************************)
(* Every workload whose placement passed (_placement_check) can run all    *)
(* its pods at the peak of its rollout on the nodes that are left after    *)
(* any loss: the even spread the gate computed is a placement.             *)
(***************************************************************************)
THEOREM RolloutsFitAlone == Spec => []WorkloadFitsAlone
<1>1. ASSUME AdmissionInv, verdict = "admitted", NEW d \in DOMAIN render,
             render[d].kind \in Workloads, NEW lost \in 0..3
      PROVE  FitsAlone(d, lost)
  <2> DEFINE w == render[d]
             pods == Counted(w).peak
             most == MostPods(d)
             R == Home(d) \ {lost}
  <2>1. TypeOK /\ AllPassed /\ render \in Renders
    BY <1>1, CapacityAssumption DEF AdmissionInv, TypeOK, PassedInv, AllPassed
  <2>2. w \in Documents /\ d # 0 /\ d \in Ids
    BY <2>1, RenderedDocuments, CapacityAssumption DEF Ids
  <2>3. PlacementCheck(w, Counted(w))
    BY <1>1, <2>1 DEF AllPassed, Passed
  <2>4. Home(d) = w.eligible /\ w.eligible \in SUBSET Nodes /\ Size(d) = EffectiveRequest(w)
    BY <2>2, RequestExact DEF Home, Size, Documents
  <2>5. pods \in Nat /\ most \in Nat /\ most <= pods
    BY <1>1, <2>1, <2>2, CountedNatural, MostNatural, MostCounted
  <2>6. CASE pods = 0
    <3>1. most = 0 /\ IsFiniteSet(R)
      BY <2>4, <2>5, <2>6, NodesFinite, FS_Subset
    <3>2. 0 <= Cardinality(R) * 0 /\ 0 \in Nat
      BY <3>1, FS_CardinalityType
    <3> HIDE DEF R, most
    <3>3. PICK f \in [R -> 0..0] : SumFunctionOnSet(f, R) = 0
      BY <3>1, <3>2, SumSpread
    <3>4. DOMAIN f = R /\ Sum(f) = 0
      BY <3>3 DEF Sum, FoldFunction, SumFunctionOnSet
    <3>5. \A n \in R : f[n] * Size(d) <= node[n]
      <4>1. \A n \in R : f[n] = 0
        OBVIOUS
      <4>2. Size(d) \in Nat /\ \A n \in R : node[n] \in Nat
        BY <2>1, <2>2, <2>4, SizeNatural, CapacityAssumption DEF TypeOK, R
      <4> QED
        BY <4>1, <4>2
    <3> QED
      BY <3>1, <3>4, <3>5 DEF FitsAlone, R, most
  <2>7. CASE pods > 0
    <3>1. R # {} /\ R \in SUBSET Nodes /\ Spreads(w, pods, R)
      <4>1. CASE lost = 0
        <5>1. R = w.eligible
          BY <2>4, <4>1 DEF Nodes
        <5> QED
          BY <2>3, <2>4, <5>1 DEF PlacementCheck
      <4>2. CASE lost # 0
        <5>1. lost \in Nodes /\ R = w.eligible \ {lost}
          BY <2>4, <4>2 DEF Nodes
        <5> QED
          BY <2>3, <2>4, <2>7, <5>1 DEF PlacementCheck
      <4> QED
        BY <4>1, <4>2
    <3>2. node \in [Nodes -> Nat]
      BY <2>1, CapacityAssumption DEF TypeOK
    <3> HIDE DEF R, most, pods, w
    <3>3. PICK f \in [R -> 0..most] :
            Sum(f) = most /\ \A n \in R : f[n] * EffectiveRequest(w) <= node[n]
      BY <2>2, <2>5, <3>1, <3>2, SpreadFits
    <3>4. DOMAIN f = R
      OBVIOUS
    <3> QED
      BY <2>4, <3>3, <3>4 DEF FitsAlone, R, most, w
  <2> QED
    BY <2>5, <2>6, <2>7
<1>2. AdmissionInv => WorkloadFitsAlone
  BY <1>1 DEF WorkloadFitsAlone
<1> QED
  BY <1>2, AdmissionInvariant, PTL
==============================================================================
