-------------------------- MODULE SharedPoolProofs -------------------------
(***************************************************************************)
(* A shared pool's ledger adds up and its queue is exactly who waits, through *)
(* any number of points, payments and requests; and a funded stage of a seat  *)
(* is ended by the pool's term only when it has itself run it.  Both are for  *)
(* any number of seats, sales, holders and tickets.                          *)
(*                                                                         *)
(* Sums and folds are taken off one element at a time.  What holds of them is *)
(* shown on the least set for which it does not hold (LeastOf), which needs   *)
(* no induction theorem with an operator as its parameter.                   *)
(***************************************************************************)
EXTENDS SharedPool, FiniteSetTheorems, WellFoundedInduction, SequenceTheorems, TLAPS

----------------------------------------------------------------------------
(* Sums and folds over finite sets. *)

\* A sum over a finite set, one element taken off at a time.
SumFun(f, v, S) ==
  f = [s \in SUBSET S |->
         IF s = {} THEN 0 ELSE v[CHOOSE x \in s : TRUE] + f[s \ {CHOOSE x \in s : TRUE}]]
Sum(v, S) == (CHOOSE f : SumFun(f, v, S))[S]

\* Induction over the subsets of a finite set: of those that fail, one has none that fails a step below.
LEMMA LeastOf ==
  ASSUME NEW D, IsFiniteSet(D), NEW Bad, Bad \subseteq SUBSET D, Bad # {}
  PROVE  \E s \in Bad : \A x \in s : s \ {x} \notin Bad
<1>1. IsWellFoundedOn(StrictSubsetOrdering(D), FiniteSubsetsOf(D))
  BY FS_StrictSubsetOrderingWellFounded
<1>2. Bad \subseteq FiniteSubsetsOf(D)
  BY FS_FiniteSubsetsOfFinite
<1>3. PICK s \in Bad : \A t \in Bad : ~(<<t, s>> \in StrictSubsetOrdering(D))
  BY <1>1, <1>2, WFMin
<1>4. \A x \in s : s \ {x} \notin Bad
  BY <1>3 DEF StrictSubsetOrdering
<1> QED BY <1>4

LEMMA SumFunAgree ==
  ASSUME NEW S, IsFiniteSet(S), NEW T, NEW v, NEW f, NEW g, SumFun(f, v, S), SumFun(g, v, T),
         NEW s, s \subseteq S, s \subseteq T
  PROVE  f[s] = g[s]
<1> DEFINE Bad == {t \in SUBSET s : f[t] # g[t]}
<1>1. SUFFICES ASSUME Bad # {} PROVE FALSE
  OBVIOUS
<1>2. IsFiniteSet(s)
  BY FS_Subset
<1>3. PICK t \in Bad : \A x \in t : t \ {x} \notin Bad
  <2> HIDE DEF Bad
  <2>1. Bad \subseteq SUBSET s
    BY DEF Bad
  <2> QED BY <1>1, <1>2, <2>1, LeastOf
<1> DEFINE c == CHOOSE x \in t : TRUE
<1>4. t \in SUBSET S /\ t \in SUBSET T /\ f[t] # g[t]
  OBVIOUS
<1>5. t # {} /\ f[t] = v[c] + f[t \ {c}] /\ g[t] = v[c] + g[t \ {c}]
  BY <1>4 DEF SumFun
<1>6. f[t \ {c}] = g[t \ {c}]
  BY <1>3, <1>5
<1> QED BY <1>4, <1>5, <1>6

LEMMA SumFunSmaller ==
  ASSUME NEW S, NEW T, T \subseteq S, NEW v, NEW f, SumFun(f, v, S)
  PROVE  SumFun([s \in SUBSET T |-> f[s]], v, T)
<1> DEFINE g == [s \in SUBSET T |-> f[s]]
           c(s) == CHOOSE x \in s : TRUE
<1>1. \A s \in SUBSET T : g[s] = IF s = {} THEN 0 ELSE v[c(s)] + g[s \ {c(s)}]
  <2> TAKE s \in SUBSET T
  <2>1. s \in SUBSET S /\ s \ {c(s)} \in SUBSET T
    OBVIOUS
  <2>2. f[s] = IF s = {} THEN 0 ELSE v[c(s)] + f[s \ {c(s)}]
    BY <2>1 DEF SumFun
  <2> QED BY <2>1, <2>2
<1> QED BY <1>1 DEF SumFun

\* What a sum is, where there is one.
LEMMA SumIs ==
  ASSUME NEW S, IsFiniteSet(S), NEW v, NEW f, SumFun(f, v, S)
  PROVE  \A s \in SUBSET S : Sum(v, s) = f[s]
<1> SUFFICES ASSUME NEW s \in SUBSET S PROVE Sum(v, s) = f[s]
  OBVIOUS
<1>1. \E g : SumFun(g, v, s)
  <2>1. SumFun([t \in SUBSET s |-> f[t]], v, s)
    BY SumFunSmaller
  <2> QED BY <2>1
<1>2. SumFun(CHOOSE g : SumFun(g, v, s), v, s)
  BY <1>1
<1> DEFINE g == CHOOSE h : SumFun(h, v, s)
<1>3. SumFun(g, v, s)
  BY <1>2
<1> HIDE DEF g
<1>4. f[s] = g[s]
  BY <1>3, SumFunAgree
<1> QED BY <1>4 DEF Sum, g

LEMMA SumFunExists ==
  ASSUME NEW D, IsFiniteSet(D), NEW v
  PROVE  \E f : SumFun(f, v, D)
<1> DEFINE Bad == {t \in SUBSET D : ~\E f : SumFun(f, v, t)}
<1>1. SUFFICES ASSUME Bad # {} PROVE FALSE
  OBVIOUS
<1>2. PICK S \in Bad : \A x \in S : S \ {x} \notin Bad
  <2>1. Bad \subseteq SUBSET D
    OBVIOUS
  <2> HIDE DEF Bad
  <2> QED BY <1>1, <2>1, LeastOf
<1> DEFINE c(s) == CHOOSE x \in s : TRUE
           step(s) == IF s = {} THEN 0 ELSE v[c(s)] + Sum(v, s \ {c(s)})
           F == [s \in SUBSET S |-> step(s)]
<1>3. \A s \in SUBSET S : s # S => Sum(v, s) = step(s)
  <2> SUFFICES ASSUME NEW s \in SUBSET S, s # S PROVE Sum(v, s) = step(s)
    OBVIOUS
  <2>1. PICK x \in S : x \notin s
    OBVIOUS
  <2>2. S \ {x} \subseteq D /\ S \ {x} \notin Bad /\ s \subseteq S \ {x}
    BY <1>2, <2>1
  <2>3. PICK f : SumFun(f, v, S \ {x})
    BY <2>2
  <2>4. IsFiniteSet(S \ {x})
    BY <2>2, FS_Subset
  <2>5. \A t \in SUBSET (S \ {x}) : Sum(v, t) = f[t]
    BY <2>3, <2>4, SumIs
  <2>6. f[s] = IF s = {} THEN 0 ELSE v[c(s)] + f[s \ {c(s)}]
    BY <2>2, <2>3 DEF SumFun
  <2>7. s \ {c(s)} \in SUBSET (S \ {x}) /\ s \in SUBSET (S \ {x})
    BY <2>2
  <2>8. Sum(v, s) = f[s] /\ Sum(v, s \ {c(s)}) = f[s \ {c(s)}]
    BY <2>5, <2>7
  <2> QED BY <2>6, <2>8
<1>4. \A s \in SUBSET S : F[s] = IF s = {} THEN 0 ELSE v[c(s)] + F[s \ {c(s)}]
  <2> TAKE s \in SUBSET S
  <2>1. CASE s = {}
    BY <2>1
  <2>2. CASE s # {}
    <3>1. c(s) \in s
      BY <2>2
    <3>2. s \ {c(s)} \in SUBSET S /\ s \ {c(s)} # S
      BY <3>1
    <3>3. F[s \ {c(s)}] = step(s \ {c(s)}) /\ F[s] = step(s)
      BY <3>2
    <3>4. Sum(v, s \ {c(s)}) = step(s \ {c(s)})
      BY <1>3, <3>2
    <3>5. step(s) = v[c(s)] + Sum(v, s \ {c(s)})
      BY <2>2
    <3> HIDE DEF step, F
    <3> QED BY <2>2, <3>3, <3>4, <3>5
  <2> QED BY <2>1, <2>2
<1>5. F = [s \in SUBSET S |-> F[s]]
  OBVIOUS
<1>6. SumFun(F, v, S)
  <2> HIDE DEF F
  <2> QED BY <1>4, <1>5 DEF SumFun
<1> QED BY <1>6

\* A sum is one term and the sum of the rest.
LEMMA SumStep ==
  ASSUME NEW S, IsFiniteSet(S), NEW v
  PROVE  Sum(v, S) = IF S = {} THEN 0 ELSE v[CHOOSE x \in S : TRUE] + Sum(v, S \ {CHOOSE x \in S : TRUE})
<1>1. PICK f : SumFun(f, v, S)
  BY SumFunExists
<1>2. \A s \in SUBSET S : Sum(v, s) = f[s]
  BY <1>1, SumIs
<1>3. S \in SUBSET S /\ S \ {CHOOSE x \in S : TRUE} \in SUBSET S
  OBVIOUS
<1>4. f[S] = IF S = {} THEN 0 ELSE v[CHOOSE x \in S : TRUE] + f[S \ {CHOOSE x \in S : TRUE}]
  BY <1>1, <1>3, ZenonT(30) DEF SumFun
<1> QED BY <1>2, <1>3, <1>4

LEMMA SumOfNone ==
  ASSUME NEW v
  PROVE  Sum(v, {}) = 0
BY SumStep, FS_EmptySet

\* A sum of integers is one, and does not depend on the order.
LEMMA SumInt ==
  ASSUME NEW S, IsFiniteSet(S), NEW v, \A x \in S : v[x] \in Int
  PROVE  Sum(v, S) \in Int
<1> DEFINE Bad == {t \in SUBSET S : Sum(v, t) \notin Int}
<1>1. SUFFICES ASSUME Bad # {} PROVE FALSE
  OBVIOUS
<1>2. PICK t \in Bad : \A x \in t : t \ {x} \notin Bad
  <2>1. Bad \subseteq SUBSET S
    OBVIOUS
  <2> HIDE DEF Bad
  <2> QED BY <1>1, <2>1, LeastOf
<1>3. IsFiniteSet(t) /\ t \in SUBSET S /\ Sum(v, t) \notin Int
  BY FS_Subset
<1>4. CASE t = {}
  BY <1>3, <1>4, SumOfNone
<1>5. CASE t # {}
  <2>1. PICK x \in t : Sum(v, t) = v[x] + Sum(v, t \ {x})
    BY <1>3, <1>5, SumStep
  <2>2. Sum(v, t \ {x}) \in Int
    BY <1>2, <1>3
  <2> QED BY <1>3, <2>1, <2>2
<1> QED BY <1>4, <1>5

LEMMA SumTaking ==
  ASSUME NEW S, IsFiniteSet(S), NEW v, \A x \in S : v[x] \in Int, NEW x \in S
  PROVE  Sum(v, S) = v[x] + Sum(v, S \ {x})
<1> DEFINE Bad == {t \in SUBSET S : \E y \in t : Sum(v, t) # v[y] + Sum(v, t \ {y})}
<1>1. SUFFICES ASSUME Bad # {} PROVE FALSE
  OBVIOUS
<1>2. PICK t \in Bad : \A y \in t : t \ {y} \notin Bad
  <2>1. Bad \subseteq SUBSET S
    OBVIOUS
  <2> HIDE DEF Bad
  <2> QED BY <1>1, <2>1, LeastOf
<1>3. t \in SUBSET S /\ IsFiniteSet(t)
  BY FS_Subset
<1>4. PICK y \in t : Sum(v, t) # v[y] + Sum(v, t \ {y})
  OBVIOUS
<1>5. PICK c \in t : Sum(v, t) = v[c] + Sum(v, t \ {c})
  BY <1>3, <1>4, SumStep
<1>6. c # y
  BY <1>4, <1>5
<1>7. Sum(v, t \ {c}) = v[y] + Sum(v, (t \ {c}) \ {y})
  <2>1. y \in t \ {c} /\ t \ {c} \in SUBSET S
    BY <1>3, <1>6
  <2> QED BY <1>2, <2>1
<1>8. Sum(v, t \ {y}) = v[c] + Sum(v, (t \ {y}) \ {c})
  <2>1. c \in t \ {y} /\ t \ {y} \in SUBSET S
    BY <1>3, <1>6
  <2> QED BY <1>2, <2>1
<1>9. (t \ {y}) \ {c} = (t \ {c}) \ {y}
  OBVIOUS
<1>10. Sum(v, (t \ {c}) \ {y}) \in Int
  <2>1. IsFiniteSet((t \ {c}) \ {y})
    BY <1>3, FS_Subset
  <2> QED BY <1>3, <2>1, SumInt
<1>11. v[c] \in Int /\ v[y] \in Int
  BY <1>3
<1>12. Sum(v, t) = v[c] + (v[y] + Sum(v, (t \ {c}) \ {y})) /\ Sum(v, t \ {y}) = v[c] + Sum(v, (t \ {c}) \ {y})
  <2> HIDE DEF Bad
  <2> QED BY <1>5, <1>7, <1>8, <1>9
<1>13. Sum(v, t) = v[y] + Sum(v, t \ {y})
  <2> HIDE DEF Bad
  <2> QED BY <1>10, <1>11, <1>12
<1> QED BY <1>4, <1>13

\* Of one sum and another, each of its terms at most k times the other's.
LEMMA SumWithin ==
  ASSUME NEW S, IsFiniteSet(S), NEW v, NEW w, NEW k \in Int,
         \A x \in S : v[x] \in Int /\ w[x] \in Int /\ v[x] <= k * w[x]
  PROVE  Sum(v, S) <= k * Sum(w, S)
<1> DEFINE Bad == {t \in SUBSET S : ~(Sum(v, t) <= k * Sum(w, t))}
<1>1. SUFFICES ASSUME Bad # {} PROVE FALSE
  OBVIOUS
<1>2. PICK t \in Bad : \A y \in t : t \ {y} \notin Bad
  <2>1. Bad \subseteq SUBSET S
    OBVIOUS
  <2> HIDE DEF Bad
  <2> QED BY <1>1, <2>1, LeastOf
<1>3. t \in SUBSET S /\ IsFiniteSet(t)
  BY FS_Subset
<1>4. CASE t = {}
  <2>1. Sum(v, t) = 0 /\ Sum(w, t) = 0
    BY <1>4, SumOfNone
  <2>2. ~(Sum(v, t) <= k * Sum(w, t))
    OBVIOUS
  <2> HIDE DEF Bad
  <2> QED BY <2>1, <2>2
<1>5. CASE t # {}
  <2>1. PICK x \in t : TRUE
    BY <1>5
  <2>2. v[x] \in Int /\ w[x] \in Int /\ v[x] <= k * w[x] /\ (\A y \in t : v[y] \in Int /\ w[y] \in Int)
    BY <1>3
  <2>3. Sum(v, t) = v[x] + Sum(v, t \ {x}) /\ Sum(w, t) = w[x] + Sum(w, t \ {x})
    BY <1>3, <2>2, SumTaking
  <2>4. Sum(v, t \ {x}) \in Int /\ Sum(w, t \ {x}) \in Int
    <3>1. IsFiniteSet(t \ {x})
      BY <1>3, FS_Subset
    <3> QED BY <2>2, <3>1, SumInt
  <2>5. Sum(v, t \ {x}) <= k * Sum(w, t \ {x})
    BY <1>2, <1>3
  <2>6. ~(Sum(v, t) <= k * Sum(w, t))
    OBVIOUS
  <2> DEFINE a == Sum(v, t \ {x})
             b == Sum(w, t \ {x})
  <2>7. k * (w[x] + b) = k * w[x] + k * b
    BY <2>2, <2>4
  <2>8. v[x] + a <= k * w[x] + k * b
    <3>1. k * w[x] \in Int /\ k * b \in Int
      BY <2>2, <2>4
    <3> QED BY <2>2, <2>4, <2>5, <3>1
  <2> HIDE DEF Bad
  <2> QED BY <2>3, <2>6, <2>7, <2>8
<1> QED BY <1>4, <1>5

LEMMA SumMonotone ==
  ASSUME NEW S, IsFiniteSet(S), NEW v, NEW w,
         \A x \in S : v[x] \in Int /\ w[x] \in Int /\ v[x] <= w[x]
  PROVE  Sum(v, S) <= Sum(w, S)
<1>1. Sum(v, S) <= 1 * Sum(w, S)
  BY SumWithin
<1>2. Sum(w, S) \in Int
  BY SumInt
<1> QED BY <1>1, <1>2

LEMMA SumSame ==
  ASSUME NEW S, IsFiniteSet(S), NEW v, NEW w, \A x \in S : v[x] \in Int /\ v[x] = w[x]
  PROVE  Sum(v, S) = Sum(w, S)
<1>1. Sum(v, S) <= Sum(w, S) /\ Sum(w, S) <= Sum(v, S)
  BY SumMonotone
<1>2. Sum(v, S) \in Int /\ Sum(w, S) \in Int
  BY SumInt
<1> QED BY <1>1, <1>2

LEMMA SumZero ==
  ASSUME NEW S, IsFiniteSet(S), NEW v, \A x \in S : v[x] = 0
  PROVE  Sum(v, S) = 0
<1>1. \A x \in S : v[x] \in Int /\ v[x] <= 0 * v[x] /\ v[x] <= 2 * v[x]
  OBVIOUS
<1>2. Sum(v, S) <= 0 * Sum(v, S) /\ Sum(v, S) <= 2 * Sum(v, S)
  BY <1>1, SumWithin
<1>3. Sum(v, S) \in Int
  BY <1>1, SumInt
<1> QED BY <1>2, <1>3

\* Sums add term by term.
LEMMA SumPlus ==
  ASSUME NEW S, IsFiniteSet(S), NEW v, NEW w, NEW u,
         \A x \in S : v[x] \in Int /\ w[x] \in Int /\ u[x] \in Int /\ v[x] = w[x] + u[x]
  PROVE  Sum(v, S) = Sum(w, S) + Sum(u, S)
<1> DEFINE Bad == {t \in SUBSET S : Sum(v, t) # Sum(w, t) + Sum(u, t)}
<1>1. SUFFICES ASSUME Bad # {} PROVE FALSE
  OBVIOUS
<1>2. PICK t \in Bad : \A y \in t : t \ {y} \notin Bad
  <2>1. Bad \subseteq SUBSET S
    OBVIOUS
  <2> HIDE DEF Bad
  <2> QED BY <1>1, <2>1, LeastOf
<1>3. t \in SUBSET S /\ IsFiniteSet(t) /\ Sum(v, t) # Sum(w, t) + Sum(u, t)
  BY FS_Subset
<1>4. CASE t = {}
  BY <1>3, <1>4, SumOfNone
<1>5. CASE t # {}
  <2>1. PICK x \in t : TRUE
    BY <1>5
  <2>2. \A y \in t : v[y] \in Int /\ w[y] \in Int /\ u[y] \in Int
    BY <1>3
  <2>3. /\ Sum(v, t) = v[x] + Sum(v, t \ {x}) /\ Sum(w, t) = w[x] + Sum(w, t \ {x})
        /\ Sum(u, t) = u[x] + Sum(u, t \ {x})
    BY <1>3, <2>2, SumTaking
  <2>4. Sum(v, t \ {x}) \in Int /\ Sum(w, t \ {x}) \in Int /\ Sum(u, t \ {x}) \in Int
    <3>1. IsFiniteSet(t \ {x})
      BY <1>3, FS_Subset
    <3> QED BY <2>2, <3>1, SumInt
  <2>5. Sum(v, t \ {x}) = Sum(w, t \ {x}) + Sum(u, t \ {x})
    BY <1>2, <1>3
  <2>6. v[x] = w[x] + u[x] /\ w[x] \in Int /\ u[x] \in Int
    BY <1>3
  <2> HIDE DEF Bad
  <2> QED BY <1>3, <2>3, <2>4, <2>5, <2>6
<1> QED BY <1>4, <1>5

\* A sum over some of a set is one over all of it.
LEMMA SumWhere ==
  ASSUME NEW S, IsFiniteSet(S), NEW T, NEW v, NEW w,
         \A x \in S : v[x] \in Int /\ w[x] = IF x \in T THEN v[x] ELSE 0
  PROVE  Sum(v, S \cap T) = Sum(w, S)
<1> DEFINE Bad == {t \in SUBSET S : Sum(v, t \cap T) # Sum(w, t)}
<1>1. SUFFICES ASSUME Bad # {} PROVE FALSE
  OBVIOUS
<1>2. PICK t \in Bad : \A y \in t : t \ {y} \notin Bad
  <2>1. Bad \subseteq SUBSET S
    OBVIOUS
  <2> HIDE DEF Bad
  <2> QED BY <1>1, <2>1, LeastOf
<1>3. t \in SUBSET S /\ IsFiniteSet(t) /\ Sum(v, t \cap T) # Sum(w, t)
  BY FS_Subset
<1>4. CASE t = {}
  <2>1. t \cap T = {}
    BY <1>4
  <2> QED BY <1>3, <1>4, <2>1, SumOfNone
<1>5. CASE t # {}
  <2>1. PICK x \in t : TRUE
    BY <1>5
  <2>2. \A y \in t : v[y] \in Int /\ w[y] \in Int
    BY <1>3
  <2>3. Sum(w, t) = w[x] + Sum(w, t \ {x})
    BY <1>3, <2>2, SumTaking
  <2>4. IsFiniteSet(t \cap T) /\ IsFiniteSet(t \ {x})
    BY <1>3, FS_Subset
  <2>5. Sum(v, (t \ {x}) \cap T) = Sum(w, t \ {x})
    BY <1>2, <1>3
  <2>6. Sum(w, t \ {x}) \in Int
    BY <2>2, <2>4, SumInt
  <2>7. CASE x \in T
    <3>1. Sum(v, t \cap T) = v[x] + Sum(v, (t \cap T) \ {x})
      BY <2>2, <2>4, <2>7, SumTaking
    <3>2. (t \cap T) \ {x} = (t \ {x}) \cap T /\ w[x] = v[x]
      BY <1>3, <2>7
    <3> HIDE DEF Bad
    <3> QED BY <1>3, <2>3, <2>5, <3>1, <3>2
  <2>8. CASE x \notin T
    <3>1. t \cap T = (t \ {x}) \cap T /\ w[x] = 0
      BY <1>3, <2>8
    <3> HIDE DEF Bad
    <3> QED BY <1>3, <2>3, <2>5, <2>6, <3>1
  <2> QED BY <2>7, <2>8
<1> QED BY <1>4, <1>5

LEMMA SumOfFewer ==
  ASSUME NEW S, IsFiniteSet(S), NEW T, T \subseteq S, NEW v, \A x \in S : v[x] \in Nat
  PROVE  0 <= Sum(v, T) /\ Sum(v, T) <= Sum(v, S)
<1> DEFINE w == [x \in S |-> IF x \in T THEN v[x] ELSE 0]
<1>1. S \cap T = T
  OBVIOUS
<1>2. \A x \in S : v[x] \in Int /\ w[x] = IF x \in T THEN v[x] ELSE 0
  OBVIOUS
<1>3. \A x \in S : w[x] \in Int /\ v[x] \in Int /\ w[x] <= v[x] /\ w[x] <= 2 * w[x]
  OBVIOUS
<1> HIDE DEF w
<1>4. Sum(v, T) = Sum(w, S)
  <2>1. Sum(v, S \cap T) = Sum(w, S)
    BY <1>2, SumWhere, SMTT(30)
  <2> QED BY <1>1, <2>1
<1>5. Sum(w, S) <= Sum(v, S) /\ Sum(w, S) <= 2 * Sum(w, S)
  BY <1>3, SumMonotone, SumWithin
<1>6. Sum(w, S) \in Int
  BY <1>3, SumInt
<1> QED BY <1>4, <1>5, <1>6


LEMMA SumOfNats ==
  ASSUME NEW S, IsFiniteSet(S), NEW v, \A x \in S : v[x] \in Nat
  PROVE  Sum(v, S) \in Nat /\ \A x \in S : v[x] <= Sum(v, S)
<1>1. \A x \in S : v[x] \in Int
  OBVIOUS
<1>2. Sum(v, S) \in Int
  BY <1>1, SumInt
<1>3. Sum(v, S) >= 0
  BY SumOfFewer
<1>4. ASSUME NEW x \in S PROVE v[x] <= Sum(v, S)
  <2>1. Sum(v, S) = v[x] + Sum(v, S \ {x})
    BY <1>1, SumTaking
  <2>2. 0 <= Sum(v, S \ {x})
    BY SumOfFewer
  <2>3. Sum(v, S \ {x}) \in Int
    BY <1>1, SumInt, FS_Subset
  <2> QED BY <2>1, <2>2, <2>3
<1> QED BY <1>2, <1>3, <1>4

\* One term changes.
LEMMA SumAt ==
  ASSUME NEW S, IsFiniteSet(S), NEW v, NEW w, \A x \in S : v[x] \in Int /\ w[x] \in Int,
         NEW x \in S, \A y \in S \ {x} : w[y] = v[y]
  PROVE  Sum(w, S) = Sum(v, S) + (w[x] - v[x])
<1>1. Sum(v, S) = v[x] + Sum(v, S \ {x}) /\ Sum(w, S) = w[x] + Sum(w, S \ {x})
  BY SumTaking
<1>2. IsFiniteSet(S \ {x}) /\ \A y \in S \ {x} : v[y] \in Int /\ v[y] = w[y]
  BY FS_Subset
<1>3. Sum(v, S \ {x}) = Sum(w, S \ {x}) /\ Sum(v, S \ {x}) \in Int
  BY <1>2, SumSame, SumInt
<1> QED BY <1>1, <1>3

----------------------------------------------------------------------------
\* A fold over a finite set, taking off the element that is picked.
FoldFun(f, g, base, pick, D) ==
  f = [s \in SUBSET D |-> IF s = {} THEN base ELSE g[<<pick[s], f[s \ {pick[s]}]>>]]
Fold(g, base, pick, D) == (CHOOSE f : FoldFun(f, g, base, pick, D))[D]
Picks(pick, D) == \A s \in SUBSET D : s # {} => pick[s] \in s

LEMMA FoldFunAgree ==
  ASSUME NEW S, IsFiniteSet(S), NEW T, NEW g, NEW base, NEW pick, Picks(pick, S), NEW f, NEW h,
         FoldFun(f, g, base, pick, S), FoldFun(h, g, base, pick, T),
         NEW s, s \subseteq S, s \subseteq T
  PROVE  f[s] = h[s]
<1> DEFINE Bad == {t \in SUBSET s : f[t] # h[t]}
<1>1. SUFFICES ASSUME Bad # {} PROVE FALSE
  OBVIOUS
<1>2. IsFiniteSet(s)
  BY FS_Subset
<1>3. PICK t \in Bad : \A x \in t : t \ {x} \notin Bad
  <2> HIDE DEF Bad
  <2>1. Bad \subseteq SUBSET s
    BY DEF Bad
  <2> QED BY <1>1, <1>2, <2>1, LeastOf
<1>4. t \in SUBSET S /\ t \in SUBSET T /\ f[t] # h[t]
  OBVIOUS
<1>5. t # {} /\ f[t] = g[<<pick[t], f[t \ {pick[t]}]>>] /\ h[t] = g[<<pick[t], h[t \ {pick[t]}]>>]
  BY <1>4 DEF FoldFun
<1>6. pick[t] \in t
  BY <1>4, <1>5 DEF Picks
<1>7. f[t \ {pick[t]}] = h[t \ {pick[t]}]
  BY <1>3, <1>6
<1> QED BY <1>4, <1>5, <1>7

LEMMA FoldIs ==
  ASSUME NEW S, IsFiniteSet(S), NEW g, NEW base, NEW pick, Picks(pick, S), NEW f, FoldFun(f, g, base, pick, S)
  PROVE  \A s \in SUBSET S : Fold(g, base, pick, s) = f[s]
<1> SUFFICES ASSUME NEW s \in SUBSET S PROVE Fold(g, base, pick, s) = f[s]
  OBVIOUS
<1>1. \E h : FoldFun(h, g, base, pick, s)
  <2> DEFINE h == [t \in SUBSET s |-> f[t]]
  <2>1. \A t \in SUBSET s : h[t] = IF t = {} THEN base ELSE g[<<pick[t], h[t \ {pick[t]}]>>]
    <3> TAKE t \in SUBSET s
    <3>1. t \in SUBSET S /\ t \ {pick[t]} \in SUBSET s
      OBVIOUS
    <3>2. f[t] = IF t = {} THEN base ELSE g[<<pick[t], f[t \ {pick[t]}]>>]
      BY <3>1 DEF FoldFun
    <3> QED BY <3>1, <3>2
  <2>2. h = [t \in SUBSET s |-> h[t]]
    OBVIOUS
  <2> HIDE DEF h
  <2>3. h = [t \in SUBSET s |-> IF t = {} THEN base ELSE g[<<pick[t], h[t \ {pick[t]}]>>]]
    BY <2>1, <2>2
  <2>4. FoldFun(h, g, base, pick, s)
    BY <2>3 DEF FoldFun
  <2> QED BY <2>4
<1> DEFINE k == CHOOSE h : FoldFun(h, g, base, pick, s)
<1>2. FoldFun(k, g, base, pick, s)
  BY <1>1
<1> HIDE DEF k
<1>3. f[s] = k[s]
  BY <1>2, FoldFunAgree
<1> QED BY <1>3 DEF Fold, k

LEMMA FoldFunExists ==
  ASSUME NEW D, IsFiniteSet(D), NEW g, NEW base, NEW pick, Picks(pick, D)
  PROVE  \E f : FoldFun(f, g, base, pick, D)
<1> DEFINE Bad == {t \in SUBSET D : ~\E f : FoldFun(f, g, base, pick, t)}
<1>1. SUFFICES ASSUME Bad # {} PROVE FALSE
  OBVIOUS
<1>2. PICK S \in Bad : \A x \in S : S \ {x} \notin Bad
  <2>1. Bad \subseteq SUBSET D
    OBVIOUS
  <2> HIDE DEF Bad
  <2> QED BY <1>1, <2>1, LeastOf
<1> DEFINE step(s) == IF s = {} THEN base ELSE g[<<pick[s], Fold(g, base, pick, s \ {pick[s]})>>]
           F == [s \in SUBSET S |-> step(s)]
<1>3. \A s \in SUBSET S : s # S => Fold(g, base, pick, s) = step(s)
  <2> SUFFICES ASSUME NEW s \in SUBSET S, s # S PROVE Fold(g, base, pick, s) = step(s)
    OBVIOUS
  <2>1. PICK x \in S : x \notin s
    OBVIOUS
  <2> DEFINE T == S \ {x}
  <2>2. T \subseteq D /\ T \notin Bad /\ s \subseteq T
    BY <1>2, <2>1
  <2>3. PICK f : FoldFun(f, g, base, pick, T)
    BY <2>2
  <2>4. IsFiniteSet(T) /\ Picks(pick, T)
    BY <2>2, FS_Subset DEF Picks
  <2> HIDE DEF T
  <2>5. \A t \in SUBSET T : Fold(g, base, pick, t) = f[t]
    BY <2>3, <2>4, FoldIs
  <2>6. f[s] = IF s = {} THEN base ELSE g[<<pick[s], f[s \ {pick[s]}]>>]
    BY <2>2, <2>3 DEF FoldFun
  <2>7. s \ {pick[s]} \in SUBSET T /\ s \in SUBSET T
    BY <2>2
  <2>8. Fold(g, base, pick, s) = f[s] /\ Fold(g, base, pick, s \ {pick[s]}) = f[s \ {pick[s]}]
    BY <2>5, <2>7
  <2> QED BY <2>6, <2>8
<1>4. \A s \in SUBSET S : F[s] = IF s = {} THEN base ELSE g[<<pick[s], F[s \ {pick[s]}]>>]
  <2> TAKE s \in SUBSET S
  <2>1. CASE s = {}
    BY <2>1
  <2>2. CASE s # {}
    <3>1. pick[s] \in s
      BY <2>2 DEF Picks
    <3>2. s \ {pick[s]} \in SUBSET S /\ s \ {pick[s]} # S
      BY <3>1
    <3>3. F[s \ {pick[s]}] = step(s \ {pick[s]}) /\ F[s] = step(s)
      BY <3>2
    <3>4. Fold(g, base, pick, s \ {pick[s]}) = step(s \ {pick[s]})
      BY <1>3, <3>2
    <3>5. step(s) = g[<<pick[s], Fold(g, base, pick, s \ {pick[s]})>>]
      BY <2>2
    <3> HIDE DEF step, F
    <3> QED BY <2>2, <3>3, <3>4, <3>5
  <2> QED BY <2>1, <2>2
<1>5. F = [s \in SUBSET S |-> F[s]]
  OBVIOUS
<1>6. FoldFun(F, g, base, pick, S)
  <2> HIDE DEF F
  <2> QED BY <1>4, <1>5 DEF FoldFun
<1> QED BY <1>6

\* What each step keeps, from what held of the set without its element, holds of the fold.
LEMMA FoldHolds ==
  ASSUME NEW D, IsFiniteSet(D), NEW g, NEW base, NEW pick, Picks(pick, D), NEW I,
         base \in I[{}],
         \A s \in SUBSET D : s # {} => \A c \in I[s \ {pick[s]}] : g[<<pick[s], c>>] \in I[s]
  PROVE  \E f : FoldFun(f, g, base, pick, D) /\ \A s \in SUBSET D : f[s] \in I[s]
<1>1. PICK f : FoldFun(f, g, base, pick, D)
  BY FoldFunExists
<1> DEFINE Bad == {t \in SUBSET D : f[t] \notin I[t]}
<1>2. Bad = {}
  <2> SUFFICES ASSUME Bad # {} PROVE FALSE
    OBVIOUS
  <2>1. PICK t \in Bad : \A x \in t : t \ {x} \notin Bad
    <3>1. Bad \subseteq SUBSET D
      OBVIOUS
    <3> HIDE DEF Bad
    <3> QED BY <3>1, LeastOf
  <2>2. t \in SUBSET D /\ f[t] \notin I[t]
    OBVIOUS
  <2>3. f[t] = IF t = {} THEN base ELSE g[<<pick[t], f[t \ {pick[t]}]>>]
    BY <1>1, <2>2 DEF FoldFun
  <2>4. t # {}
    BY <2>2, <2>3
  <2>5. pick[t] \in t
    BY <2>2, <2>4 DEF Picks
  <2>6. f[t \ {pick[t]}] \in I[t \ {pick[t]}]
    BY <2>1, <2>2, <2>5
  <2> QED BY <2>2, <2>3, <2>4, <2>6
<1> QED BY <1>1, <1>2

\* The greatest of some of a sequence's places.
LEMMA GreatestIsOne ==
  ASSUME NEW n \in Nat, NEW s \in SUBSET (1..n), s # {}
  PROVE  Max(s) \in s
<1> DEFINE Bad == {t \in SUBSET (1..n) : t # {} /\ ~\E x \in t : \A y \in t : x >= y}
<1>1. Bad = {}
  <2> SUFFICES ASSUME Bad # {} PROVE FALSE
    OBVIOUS
  <2>1. IsFiniteSet(1..n)
    BY FS_Interval
  <2>2. PICK t \in Bad : \A x \in t : t \ {x} \notin Bad
    <3>1. Bad \subseteq SUBSET (1..n)
      OBVIOUS
    <3> HIDE DEF Bad
    <3> QED BY <2>1, <3>1, LeastOf
  <2>3. PICK x \in t : TRUE
    OBVIOUS
  <2>4. t \ {x} = {} \/ \E z \in t \ {x} : \A y \in t \ {x} : z >= y
    BY <2>2
  <2>5. \E z \in t : \A y \in t : z >= y
    BY <2>4
  <2> QED BY <2>5
<1>2. \E x \in s : \A y \in s : x >= y
  BY <1>1
<1> QED BY <1>2 DEF Max

----------------------------------------------------------------------------
(* The book, and the queue in it. *)

LEMMA SumOverIs ==
  ASSUME NEW v, NEW S
  PROVE  SumOver(S, LAMBDA x : v[x]) = Sum(v, S)
BY DEF SumOver, FoldSet, MapThenFoldSet, Sum, SumFun

\* The queue and the places noted in it.
QueueOk(q, slot) ==
  /\ q \in Seq(Holders) /\ slot \in [Holders -> Nat]
  /\ \A h \in Holders : slot[h] # 0 => slot[h] \in DOMAIN q /\ q[slot[h]] = h
  /\ \A i \in DOMAIN q : slot[q[i]] = i

\* What a book is, field by field.
BookFields == {"shares", "basis", "queued", "total", "queuedShares", "queue", "slot"}
BookTyped(b) ==
  /\ b.shares \in [Holders -> Nat] /\ b.basis \in [Holders -> Nat] /\ b.queued \in [Holders -> Nat]
  /\ b.total \in Nat /\ b.queuedShares \in Nat /\ b.queue \in Seq(Holders) /\ b.slot \in [Holders -> Nat]
BookForm(b) == b = [f \in BookFields |-> b[f]]

LEMMA BooksAre ==
  ASSUME NEW b
  PROVE  b \in Books <=> BookForm(b) /\ BookTyped(b)
<1>1. b \in Books => BookForm(b) /\ BookTyped(b)
  BY DEF Books, BookForm, BookTyped, BookFields
<1>2. BookForm(b) /\ BookTyped(b) => b \in Books
  BY DEF Books, BookForm, BookTyped, BookFields
<1> QED BY <1>1, <1>2

\* Coherent, with its sums as functions.
BookOk(b, locked) ==
  /\ BookForm(b) /\ BookTyped(b)
  /\ b.total = Sum(b.shares, Holders) /\ b.queuedShares = Sum(b.queued, Holders)
  /\ Len(b.queue) <= MaxQueue
  /\ \A h \in Holders : b.queued[h] + locked[h] <= b.shares[h] /\ (b.slot[h] = 0 <=> b.queued[h] = 0)
  /\ QueueOk(b.queue, b.slot)

\* BookOk is the book's type and Coherent.
LEMMA BookIs ==
  ASSUME NEW b, NEW locked
  PROVE  BookOk(b, locked) <=> b \in Books /\ Coherent(b, locked)
<1>1. SumOver(Holders, LAMBDA h : b.shares[h]) = Sum(b.shares, Holders)
  BY SumOverIs
<1>2. SumOver(Holders, LAMBDA h : b.queued[h]) = Sum(b.queued, Holders)
  BY SumOverIs
<1>3. b \in Books => b.queue \in Seq(Holders) /\ b.slot \in [Holders -> Nat]
  BY BooksAre DEF BookTyped
<1> QED BY <1>1, <1>2, <1>3, BooksAre DEF BookOk, QueueOk, Coherent

LEMMA LedgerNumbers ==
  /\ IsFiniteSet(Holders) /\ Platform \in Holders /\ FeeBps \in Nat /\ BPS \in Nat /\ FeeBps <= BPS /\ BPS > 0
  /\ MaxQueue \in Nat /\ SpotPerPerp \in Nat /\ SpotPerPerp > 0
BY BookAssumption, UnitsAssumption

\* So they do when one joins at the end.
LEMMA JoinQueue ==
  ASSUME NEW q, NEW slot, QueueOk(q, slot), NEW h \in Holders, slot[h] = 0
  PROVE  QueueOk(Append(q, h), [slot EXCEPT ![h] = Len(q) + 1])
<1> DEFINE p == Append(q, h)
           t == [slot EXCEPT ![h] = Len(q) + 1]
           n == Len(q)
<1>1. q \in Seq(Holders) /\ n \in Nat /\ DOMAIN q = 1..n
  BY DEF QueueOk
<1>2. p \in Seq(Holders) /\ DOMAIN p = 1..(n + 1) /\ p[n + 1] = h /\ \A i \in 1..n : p[i] = q[i]
  BY <1>1
<1>3. t \in [Holders -> Nat] /\ t[h] = n + 1 /\ \A k \in Holders \ {h} : t[k] = slot[k]
  BY <1>1 DEF QueueOk
<1> HIDE DEF p, t, n
<1>4. ASSUME NEW k \in Holders, t[k] # 0 PROVE t[k] \in DOMAIN p /\ p[t[k]] = k
  BY <1>1, <1>2, <1>3, <1>4 DEF QueueOk
<1>5. ASSUME NEW i \in DOMAIN p PROVE t[p[i]] = i
  <2>1. CASE i = n + 1
    BY <1>2, <1>3, <2>1
  <2>2. CASE i \in 1..n
    <3>1. p[i] = q[i] /\ slot[q[i]] = i /\ q[i] \in Holders
      BY <1>1, <1>2, <2>2 DEF QueueOk
    <3>2. q[i] # h
      BY <3>1, <2>2
    <3> QED BY <1>3, <3>1, <3>2
  <2> QED BY <1>1, <1>2, <2>1, <2>2
<1> QED BY <1>2, <1>3, <1>4, <1>5 DEF QueueOk, p, t, n

LineWithout(q, slot, h) == Front([q EXCEPT ![slot[h]] = Last(q)])
PlacesWithout(q, slot, h) == [slot EXCEPT ![Last(q)] = slot[h], ![h] = 0]

\* The last holder takes the place of the one who leaves, and all others keep theirs.
LEMMA DropQueue ==
  ASSUME NEW q, NEW slot, QueueOk(q, slot), NEW h \in Holders, slot[h] # 0,
         NEW p, p = LineWithout(q, slot, h), NEW t, t = PlacesWithout(q, slot, h)
  PROVE  /\ QueueOk(p, t) /\ Len(p) <= Len(q)
         /\ t[h] = 0 /\ \A k \in Holders \ {h} : t[k] = 0 <=> slot[k] = 0
<1> DEFINE n == Len(q)
           at == slot[h]
           end == q[n]
<1>1. q \in Seq(Holders) /\ n \in Nat /\ DOMAIN q = 1..n /\ slot \in [Holders -> Nat] /\ q \in [1..n -> Holders]
  BY DEF QueueOk
<1>2. at \in 1..n /\ q[at] = h /\ n \in 1..n /\ end \in Holders
  BY <1>1 DEF QueueOk
<1>3. slot[end] = n
  BY <1>1, <1>2 DEF QueueOk
<1>4. p \in Seq(Holders) /\ Len(p) = n - 1 /\ DOMAIN p = 1..(n - 1)
        /\ \A i \in 1..(n - 1) : p[i] = IF i = at THEN end ELSE q[i]
  <2> DEFINE r == [q EXCEPT ![at] = end]
  <2>1. r \in Seq(Holders) /\ Len(r) = n /\ \A i \in 1..n : r[i] = IF i = at THEN end ELSE q[i]
    BY <1>1, <1>2, ExceptSeq
  <2>2. p = Front(r)
    BY DEF Last, LineWithout
  <2> HIDE DEF r, at, end, n
  <2>3. p = SubSeq(r, 1, n - 1)
    BY <2>1, <2>2 DEF Front
  <2>4. 1 \in Int /\ n - 1 \in Int /\ \A i \in 1..(n - 1) : i \in 1..n
    BY <1>1
  <2>5. \A i \in 1..(n - 1) : r[i] \in Holders
    BY <2>1, <2>4, ElementOfSeq
  <2>6. /\ SubSeq(r, 1, n - 1) \in Seq(Holders)
        /\ Len(SubSeq(r, 1, n - 1)) = IF 1 <= n - 1 THEN n - 1 - 1 + 1 ELSE 0
        /\ \A i \in 1..(n - 1 - 1 + 1) : SubSeq(r, 1, n - 1)[i] = r[1 + i - 1]
    BY <2>4, <2>5, SubSeqProperties
  <2>7. n - 1 - 1 + 1 = n - 1 /\ (\A i \in 1..(n - 1) : 1 + i - 1 = i) /\ n - 1 \in Nat
    BY <1>1, <1>2
  <2> DEFINE z == SubSeq(r, 1, n - 1)
             m == n - 1
  <2>8. m \in Nat
    BY <2>7
  <2>9. z \in Seq(Holders) /\ Len(z) = IF 1 <= m THEN (m - 1) + 1 ELSE 0
    BY <2>6
  <2>10. \A i \in 1..m : z[i] = r[i]
    <3> SUFFICES ASSUME NEW i \in 1..m PROVE z[i] = r[i]
      OBVIOUS
    <3>1. i \in 1..((m - 1) + 1) /\ 1 + i - 1 = i
      BY <2>8
    <3>2. z[i] = r[1 + i - 1]
      BY <2>6, <3>1
    <3> QED BY <3>1, <3>2
  <2> HIDE DEF z, m
  <2>11. Len(z) = m
    BY <2>9, <2>8
  <2>12. p \in Seq(Holders) /\ Len(p) = n - 1 /\ \A i \in 1..(n - 1) : p[i] = r[i]
    BY <2>3, <2>9, <2>10, <2>11 DEF z, m
  <2>13. DOMAIN p = 1..(n - 1)
    BY <2>12
  <2> QED BY <2>1, <2>4, <2>12, <2>13
<1>5. t = [slot EXCEPT ![end] = at, ![h] = 0]
  BY DEF Last, PlacesWithout
<1> HIDE DEF at, end, n
<1>6. t \in [Holders -> Nat] /\ t[h] = 0 /\ (end # h => t[end] = at) /\ \A k \in Holders \ {h, end} : t[k] = slot[k]
  BY <1>1, <1>2, <1>5, SMTT(30)
<1>7. end = h <=> at = n
  BY <1>2, <1>3 DEF at, end
<1>8. ASSUME NEW k \in Holders, t[k] # 0 PROVE t[k] \in DOMAIN p /\ p[t[k]] = k
  <2>1. k # h
    BY <1>6, <1>8
  <2>2. CASE k = end
    <3>1. at # n /\ at \in 1..(n - 1) /\ t[k] = at
      BY <1>1, <1>2, <1>6, <1>7, <2>1, <2>2
    <3> QED BY <1>4, <2>2, <3>1
  <2>3. CASE k # end
    <3>1. t[k] = slot[k]
      BY <1>6, <2>1, <2>3
    <3>2. slot[k] \in 1..n /\ q[slot[k]] = k
      BY <1>1, <1>8, <3>1 DEF QueueOk
    <3>3. slot[k] # n /\ slot[k] # at
      BY <1>2, <2>1, <2>3, <3>2 DEF end
    <3>4. slot[k] \in 1..(n - 1)
      BY <1>1, <3>2, <3>3
    <3> QED BY <1>4, <3>1, <3>2, <3>3, <3>4
  <2> QED BY <2>2, <2>3
<1>9. ASSUME NEW i \in DOMAIN p PROVE t[p[i]] = i
  <2>1. i \in 1..(n - 1) /\ i \in 1..n /\ i # n
    BY <1>1, <1>4
  <2>2. CASE i = at
    <3>1. p[i] = end /\ end # h
      BY <1>4, <1>7, <2>1, <2>2
    <3> QED BY <1>6, <2>2, <3>1
  <2>3. CASE i # at
    <3>1. p[i] = q[i] /\ slot[q[i]] = i /\ q[i] \in Holders
      BY <1>1, <1>4, <2>1, <2>3 DEF QueueOk
    <3>2. q[i] # end /\ q[i] # h
      BY <1>3, <2>1, <2>3, <3>1 DEF at
    <3> QED BY <1>6, <3>1, <3>2
  <2> QED BY <2>2, <2>3
<1>10. \A k \in Holders \ {h} : t[k] = 0 <=> slot[k] = 0
  BY <1>1, <1>2, <1>3, <1>6
<1>11. QueueOk(p, t)
  BY <1>4, <1>6, <1>8, <1>9 DEF QueueOk
<1>12. Len(p) <= Len(q)
  BY <1>1, <1>4 DEF n
<1> QED BY <1>6, <1>10, <1>11, <1>12

LEMMA MintKeeps ==
  ASSUME NEW b, NEW lock, BookOk(b, lock), NEW to \in Holders, NEW amount \in Nat,
         NEW locked, \A h \in Holders : b.queued[h] + locked[h] <= Mint(b, to, amount).shares[h]
  PROVE  BookOk(Mint(b, to, amount), locked)
<1> DEFINE c == Mint(b, to, amount)
           v == b.shares
           w == c.shares
<1>1. BookForm(b) /\ BookTyped(b)
  BY DEF BookOk
<1>2. c.shares = [b.shares EXCEPT ![to] = @ + amount] /\ c.total = b.total + amount /\ c.basis = b.basis
        /\ c.queued = b.queued /\ c.queuedShares = b.queuedShares /\ c.queue = b.queue /\ c.slot = b.slot
  BY <1>1 DEF Mint, BookForm, BookFields
<1>3. BookForm(c)
  BY <1>1 DEF Mint, BookForm
<1> HIDE DEF c
<1>4. BookTyped(c)
  <2>1. b.shares \in [Holders -> Nat] /\ b.total \in Nat
    BY <1>1 DEF BookTyped
  <2>2. c.shares \in [Holders -> Nat] /\ c.total \in Nat
    BY <1>2, <2>1
  <2> QED BY <1>1, <1>2, <2>2, SMTT(30) DEF BookTyped
<1>5. \A h \in Holders : v[h] \in Int /\ w[h] \in Int
  <2>1. v \in [Holders -> Nat] /\ w \in [Holders -> Nat]
    BY <1>1, <1>4 DEF BookTyped
  <2> HIDE DEF v, w
  <2> QED BY <2>1
<1>6. w[to] = v[to] + amount /\ \A h \in Holders \ {to} : w[h] = v[h]
  BY <1>1, <1>2 DEF BookTyped
<1>7. \A h \in Holders : c.queued[h] + locked[h] <= c.shares[h]
  BY <1>2 DEF c
<1>8. c.total = Sum(c.shares, Holders)
  <2>1. b.total = Sum(v, Holders)
    BY DEF BookOk
  <2> HIDE DEF v, w
  <2>2. Sum(w, Holders) = Sum(v, Holders) + (w[to] - v[to])
    BY <1>5, <1>6, LedgerNumbers, SumAt
  <2>3. Sum(v, Holders) \in Int /\ Sum(w, Holders) = Sum(v, Holders) + amount
    BY <1>5, <1>6, <2>2, LedgerNumbers, SumInt
  <2> QED BY <1>2, <2>1, <2>3 DEF w
<1> QED BY <1>1, <1>2, <1>3, <1>4, <1>7, <1>8 DEF BookOk, c

LEMMA EnqueueKeeps ==
  ASSUME NEW b, NEW locked, BookOk(b, locked), NEW h \in Holders, NEW n \in Nat, n > 0,
         (b.queued[h] + n) + locked[h] <= b.shares[h],
         b.slot[h] = 0 => Len(b.queue) < MaxQueue
  PROVE  BookOk(Enqueue(b, h, n), locked) /\ Enqueue(b, h, n).total = b.total
<1> DEFINE j == Join(b, h)
           c == Enqueue(b, h, n)
           v == b.queued
           w == c.queued
<1>1. BookForm(b) /\ BookTyped(b) /\ QueueOk(b.queue, b.slot)
  BY DEF BookOk
<1>2. /\ BookForm(j) /\ j.shares = b.shares /\ j.total = b.total /\ j.basis = b.basis
      /\ j.queued = b.queued /\ j.queuedShares = b.queuedShares
      /\ j.queue = IF b.slot[h] = 0 THEN Append(b.queue, h) ELSE b.queue
      /\ j.slot = IF b.slot[h] = 0 THEN [b.slot EXCEPT ![h] = Len(b.queue) + 1] ELSE b.slot
  <2>1. CASE b.slot[h] # 0
    BY <1>1, <2>1 DEF Join
  <2>2. CASE b.slot[h] = 0
    <3>1. j = [b EXCEPT !.queue = Append(@, h), !.slot[h] = Len(b.queue) + 1]
      BY <2>2 DEF Join
    <3> HIDE DEF j
    <3>2. BookForm(j)
      BY <1>1, <3>1 DEF BookForm
    <3>3. /\ j.shares = b.shares /\ j.total = b.total /\ j.basis = b.basis
          /\ j.queued = b.queued /\ j.queuedShares = b.queuedShares
          /\ j.queue = Append(b.queue, h) /\ j.slot = [b.slot EXCEPT ![h] = Len(b.queue) + 1]
      BY <1>1, <3>1 DEF BookForm, BookFields
    <3> QED BY <2>2, <3>2, <3>3
  <2> QED BY <2>1, <2>2
<1>3. c = [j EXCEPT !.queued[h] = @ + n, !.queuedShares = @ + n]
  BY DEF Enqueue
<1> HIDE DEF c, j
<1>4. BookForm(c)
  BY <1>2, <1>3 DEF BookForm
<1>5. /\ c.shares = b.shares /\ c.total = b.total /\ c.basis = b.basis
      /\ c.queued = [b.queued EXCEPT ![h] = @ + n] /\ c.queuedShares = b.queuedShares + n
      /\ c.queue = j.queue /\ c.slot = j.slot
  BY <1>2, <1>3 DEF BookForm, BookFields
<1>6. QueueOk(c.queue, c.slot)
  <2>1. CASE b.slot[h] = 0
    BY <1>1, <1>2, <1>5, <2>1, JoinQueue
  <2>2. CASE b.slot[h] # 0
    BY <1>1, <1>2, <1>5, <2>2
  <2> QED BY <2>1, <2>2
<1>7. BookTyped(c)
  <2>1. c.queue \in Seq(Holders) /\ c.slot \in [Holders -> Nat]
    BY <1>6 DEF QueueOk
  <2>2. c.shares \in [Holders -> Nat] /\ c.basis \in [Holders -> Nat] /\ c.total \in Nat
    BY <1>1, <1>5 DEF BookTyped
  <2>3. c.queued \in [Holders -> Nat] /\ c.queuedShares \in Nat
    BY <1>1, <1>5 DEF BookTyped
  <2> QED BY <2>1, <2>2, <2>3 DEF BookTyped
<1>8. w[h] = v[h] + n /\ (\A k \in Holders \ {h} : w[k] = v[k]) /\ \A k \in Holders : v[k] \in Int /\ w[k] \in Int
  BY <1>1, <1>5, <1>7, SMTT(30) DEF BookTyped
<1>9. c.queuedShares = Sum(c.queued, Holders)
  <2>1. b.queuedShares = Sum(v, Holders)
    BY DEF BookOk
  <2> HIDE DEF v, w
  <2>2. Sum(w, Holders) = Sum(v, Holders) + (w[h] - v[h])
    BY <1>8, LedgerNumbers, SumAt
  <2>3. Sum(v, Holders) \in Int /\ Sum(w, Holders) = Sum(v, Holders) + n
    BY <1>8, <2>2, LedgerNumbers, SumInt
  <2> QED BY <1>5, <2>1, <2>3 DEF w
<1>10. Len(c.queue) <= MaxQueue
  <2>1. b.queue \in Seq(Holders) /\ Len(b.queue) <= MaxQueue
    BY <1>1 DEF BookOk, BookTyped
  <2>2. CASE b.slot[h] = 0
    <3>1. Len(c.queue) = Len(b.queue) + 1 /\ Len(b.queue) < MaxQueue
      BY <1>2, <1>5, <2>1, <2>2
    <3> QED BY <3>1, <2>1, LedgerNumbers
  <2>3. CASE b.slot[h] # 0
    BY <1>2, <1>5, <2>1, <2>3
  <2> QED BY <2>2, <2>3
<1>11. \A k \in Holders : c.queued[k] + locked[k] <= c.shares[k] /\ (c.slot[k] = 0 <=> c.queued[k] = 0)
  <2> SUFFICES ASSUME NEW k \in Holders
               PROVE  c.queued[k] + locked[k] <= c.shares[k] /\ (c.slot[k] = 0 <=> c.queued[k] = 0)
    OBVIOUS
  <2>1. b.queued[k] + locked[k] <= b.shares[k] /\ (b.slot[k] = 0 <=> b.queued[k] = 0)
    BY DEF BookOk
  <2>2. b.slot \in [Holders -> Nat] /\ b.queued \in [Holders -> Nat] /\ Len(b.queue) \in Nat
    BY <1>1, SMTT(30) DEF BookTyped
  <2>3. CASE k = h
    <3>1. c.queued[k] # 0 /\ c.slot[k] # 0
      BY <1>2, <1>5, <1>8, <2>2, <2>3
    <3> QED BY <1>5, <1>8, <2>3, <3>1
  <2>4. CASE k # h
    BY <1>2, <1>5, <1>8, <2>1, <2>2, <2>4
  <2> QED BY <2>3, <2>4
<1>12. c.total = Sum(c.shares, Holders)
  BY <1>5 DEF BookOk
<1>13. BookOk(c, locked)
  BY <1>4, <1>6, <1>7, <1>9, <1>10, <1>11, <1>12 DEF BookOk
<1> QED BY <1>5, <1>13 DEF c

LEMMA PartOf ==
  ASSUME NEW a \in Nat, NEW s \in Nat, NEW m \in Nat, m > 0, s <= m
  PROVE  (a * s) \div m \in Nat /\ (a * s) \div m <= a
<1>1. a * s <= a * m /\ a * s \in Nat
  <2>1. PICK d \in Nat : m = s + d
    <3>1. m - s \in Nat /\ m = s + (m - s)
      OBVIOUS
    <3> QED BY <3>1
  <2>2. a * m = a * s + a * d /\ a * d \in Nat /\ a * s \in Nat
    BY <2>1
  <2> QED BY <2>2
<1> DEFINE x == a * s
           q == x \div m
<1>2. x \in Nat /\ x <= a * m
  BY <1>1
<1> HIDE DEF x
<1>3. q \in Int /\ m * q <= x
  BY <1>2
<1>4. q >= 0
  BY <1>2
<1> HIDE DEF q
<1>5. q <= a
  <2> SUFFICES ASSUME q >= a + 1 PROVE FALSE
    BY <1>3
  <2>1. PICK d \in Nat : q = (a + 1) + d
    <3>1. q - (a + 1) \in Nat /\ q = (a + 1) + (q - (a + 1))
      BY <1>3
    <3> QED BY <3>1
  <2>2. m * q = (m * a + m) + m * d /\ m * d \in Nat /\ m * a = a * m /\ m * a \in Nat
    BY <2>1
  <2> QED BY <1>2, <1>3, <2>2
<1> QED BY <1>3, <1>4, <1>5 DEF q, x

\* A payment takes `burned` and `fee` of what the holder asked for, and the holder
\* out of the queue when nothing is left of it.
Served(b, h, burned, fee) == DropIfDone(SettleHolder(b, h, burned, fee), h)

LEMMA SettledIs ==
  ASSUME NEW b, BookForm(b), BookTyped(b), NEW h \in Holders, NEW burned \in Nat, NEW fee \in Nat,
         burned + fee <= b.queued[h], b.queued[h] <= b.shares[h], b.queued[h] > 0,
         h = Platform => fee = 0, b.queuedShares >= burned + fee, b.total >= burned,
         NEW c, c = SettleHolder(b, h, burned, fee)
  PROVE  /\ BookForm(c) /\ BookTyped(c)
         /\ c.shares[h] = b.shares[h] - (burned + fee)
         /\ h # Platform => c.shares[Platform] = b.shares[Platform] + fee
         /\ \A k \in Holders \ {h, Platform} : c.shares[k] = b.shares[k]
         /\ c.queued[h] = b.queued[h] - (burned + fee) /\ \A k \in Holders \ {h} : c.queued[k] = b.queued[k]
         /\ c.queuedShares = b.queuedShares - (burned + fee) /\ c.total = b.total - burned
         /\ c.queue = b.queue /\ c.slot = b.slot
<1> DEFINE s == burned + fee
           left == [b.shares EXCEPT ![h] = @ - s]
           kept == (b.basis[h] * s) \div b.shares[h]
<1>1. c = [b EXCEPT !.basis[h] = @ - kept, !.shares = [left EXCEPT ![Platform] = @ + fee],
                    !.queued[h] = @ - s, !.queuedShares = @ - s, !.total = @ - burned]
  BY DEF SettleHolder
<1>2. /\ b.shares \in [Holders -> Nat] /\ b.basis \in [Holders -> Nat] /\ b.queued \in [Holders -> Nat]
      /\ b.total \in Nat /\ b.queuedShares \in Nat /\ b.queue \in Seq(Holders) /\ b.slot \in [Holders -> Nat]
  BY DEF BookTyped
<1>3. s \in Nat /\ s <= b.shares[h] /\ b.shares[h] > 0
  BY <1>2
<1>4. kept \in Nat /\ kept <= b.basis[h]
  <2> DEFINE a == b.basis[h]
             m == b.shares[h]
  <2>1. a \in Nat /\ m \in Nat /\ m > 0 /\ s <= m
    BY <1>2, <1>3
  <2> HIDE DEF a, m, s
  <2>2. (a * s) \div m \in Nat /\ (a * s) \div m <= a
    BY <1>3, <2>1, PartOf
  <2> QED BY <2>2 DEF a, m
<1> HIDE DEF kept
<1>5. left \in [Holders -> Nat] /\ left[h] = b.shares[h] - s /\ \A k \in Holders \ {h} : left[k] = b.shares[k]
  BY <1>2, <1>3, SMTT(30)
<1> HIDE DEF left
<1>6. BookForm(c)
  BY <1>1 DEF BookForm
<1>7. /\ c.shares = [left EXCEPT ![Platform] = @ + fee] /\ c.basis = [b.basis EXCEPT ![h] = @ - kept]
      /\ c.queued = [b.queued EXCEPT ![h] = @ - s] /\ c.queuedShares = b.queuedShares - s
      /\ c.total = b.total - burned /\ c.queue = b.queue /\ c.slot = b.slot
  BY <1>1 DEF BookForm, BookFields
<1>8. c.shares \in [Holders -> Nat] /\ c.basis \in [Holders -> Nat] /\ c.queued \in [Holders -> Nat]
  <2>1. c.shares \in [Holders -> Nat]
    BY <1>5, <1>7, LedgerNumbers
  <2>2. c.basis \in [Holders -> Nat]
    BY <1>2, <1>4, <1>7, SMTT(30)
  <2>3. c.queued \in [Holders -> Nat]
    BY <1>2, <1>3, <1>7
  <2> QED BY <2>1, <2>2, <2>3
<1>9. BookTyped(c)
  <2>1. c.total \in Nat /\ c.queuedShares \in Nat
    BY <1>2, <1>3, <1>7, SMTT(30)
  <2>2. c.queue \in Seq(Holders) /\ c.slot \in [Holders -> Nat]
    BY <1>2, <1>7
  <2> QED BY <1>8, <2>1, <2>2 DEF BookTyped
<1>10. /\ c.shares[h] = b.shares[h] - s /\ (h # Platform => c.shares[Platform] = b.shares[Platform] + fee)
       /\ \A k \in Holders \ {h, Platform} : c.shares[k] = b.shares[k]
  <2>1. CASE h = Platform
    BY <1>2, <1>3, <1>5, <1>7, <2>1, LedgerNumbers, SMTT(30)
  <2>2. CASE h # Platform
    <3>1. Platform \in Holders /\ DOMAIN left = Holders
      BY <1>5, LedgerNumbers
    <3>2. c.shares[Platform] = left[Platform] + fee /\ \A k \in Holders \ {Platform} : c.shares[k] = left[k]
      BY <1>7, <3>1
    <3> QED BY <1>5, <2>2, <3>1, <3>2
  <2> QED BY <2>1, <2>2
<1>11. c.queued[h] = b.queued[h] - s /\ \A k \in Holders \ {h} : c.queued[k] = b.queued[k]
  BY <1>2, <1>7
<1> QED BY <1>6, <1>7, <1>9, <1>10, <1>11

LEMMA DropIs ==
  ASSUME NEW b, BookForm(b), BookTyped(b), NEW h \in Holders, QueueOk(b.queue, b.slot), b.slot[h] # 0,
         NEW c, c = Drop(b, h)
  PROVE  /\ BookForm(c) /\ BookTyped(c) /\ QueueOk(c.queue, c.slot) /\ Len(c.queue) <= Len(b.queue)
         /\ c.shares = b.shares /\ c.basis = b.basis /\ c.queued = b.queued
         /\ c.total = b.total /\ c.queuedShares = b.queuedShares
         /\ c.slot[h] = 0 /\ \A k \in Holders \ {h} : c.slot[k] = 0 <=> b.slot[k] = 0
<1> DEFINE line == LineWithout(b.queue, b.slot, h)
           places == PlacesWithout(b.queue, b.slot, h)
<1>1. c = [b EXCEPT !.queue = line, !.slot = places]
  BY DEF Drop, LineWithout, PlacesWithout
<1>2. QueueOk(line, places) /\ Len(line) <= Len(b.queue) /\ places[h] = 0
        /\ \A k \in Holders \ {h} : places[k] = 0 <=> b.slot[k] = 0
  <2> HIDE DEF line, places
  <2>1. line = LineWithout(b.queue, b.slot, h) /\ places = PlacesWithout(b.queue, b.slot, h)
    BY DEF line, places
  <2> QED BY <2>1, DropQueue
<1> HIDE DEF line, places
<1>3. BookForm(c)
  BY <1>1 DEF BookForm
<1>4. /\ c.shares = b.shares /\ c.basis = b.basis /\ c.queued = b.queued /\ c.total = b.total
      /\ c.queuedShares = b.queuedShares /\ c.queue = line /\ c.slot = places
  BY <1>1 DEF BookForm, BookFields
<1>5. BookTyped(c)
  <2>1. c.queue \in Seq(Holders) /\ c.slot \in [Holders -> Nat]
    BY <1>2, <1>4 DEF QueueOk
  <2> QED BY <1>4, <2>1 DEF BookTyped
<1> QED BY <1>2, <1>3, <1>4, <1>5

----------------------------------------------------------------------------
(* One holder is served, then a queue of them. *)

\* A holder who is paid, or part of whose request is, leaves the book in order.
LEMMA ServedKeeps ==
  ASSUME NEW b, NEW locked \in [Holders -> Nat], BookOk(b, locked), NEW h \in Holders, b.queued[h] > 0,
         NEW burned \in Nat, NEW fee \in Nat, burned + fee <= b.queued[h], h = Platform => fee = 0,
         NEW c, c = Served(b, h, burned, fee)
  PROVE  BookOk(c, locked) /\ \A k \in Holders \ {h} : c.queued[k] = b.queued[k]
<1> DEFINE d == SettleHolder(b, h, burned, fee)
           v == b.shares
           w == d.shares
           u == b.queued
           x == d.queued
           s == burned + fee
<1>1. BookForm(b) /\ BookTyped(b) /\ QueueOk(b.queue, b.slot)
  BY DEF BookOk
<1>2. b.queued[h] + locked[h] <= b.shares[h] /\ b.total = Sum(v, Holders) /\ b.queuedShares = Sum(u, Holders)
  BY DEF BookOk
<1>3. v \in [Holders -> Nat] /\ u \in [Holders -> Nat] /\ s \in Nat
  <2>1. v \in [Holders -> Nat] /\ u \in [Holders -> Nat]
    BY <1>1 DEF BookTyped
  <2>2. s \in Nat
    OBVIOUS
  <2> QED BY <2>1, <2>2
<1>4. b.queued[h] <= b.shares[h]
  BY <1>2, <1>3
<1>5. b.total >= b.shares[h] /\ b.queuedShares >= b.queued[h]
  <2> HIDE DEF u, v
  <2>1. (\A k \in Holders : v[k] \in Nat) /\ (\A k \in Holders : u[k] \in Nat) /\ IsFiniteSet(Holders)
    BY <1>3, LedgerNumbers
  <2>2. v[h] <= Sum(v, Holders) /\ u[h] <= Sum(u, Holders)
    BY <2>1, SumOfNats
  <2>3. Sum(v, Holders) \in Nat /\ Sum(u, Holders) \in Nat
    BY <2>1, SumOfNats
  <2>4. b.total >= v[h] /\ b.queuedShares >= u[h]
    BY <1>2, <1>3, <2>2, <2>3
  <2> QED BY <2>4 DEF u, v
<1>6. b.queuedShares >= s /\ b.total >= burned
  BY <1>1, <1>3, <1>4, <1>5 DEF BookTyped
<1>7. /\ BookForm(d) /\ BookTyped(d)
      /\ d.shares[h] = b.shares[h] - s
      /\ h # Platform => d.shares[Platform] = b.shares[Platform] + fee
      /\ \A k \in Holders \ {h, Platform} : d.shares[k] = b.shares[k]
      /\ d.queued[h] = b.queued[h] - s /\ \A k \in Holders \ {h} : d.queued[k] = b.queued[k]
      /\ d.queuedShares = b.queuedShares - s /\ d.total = b.total - burned
      /\ d.queue = b.queue /\ d.slot = b.slot
  <2> HIDE DEF d
  <2>1. d = SettleHolder(b, h, burned, fee)
    BY DEF d
  <2> QED BY <1>1, <1>4, <1>6, <2>1, SettledIs
<1> HIDE DEF d
<1>8. w \in [Holders -> Nat] /\ x \in [Holders -> Nat]
  BY <1>7 DEF BookTyped
<1>9. Sum(w, Holders) = Sum(v, Holders) - burned
  <2>1. \A k \in Holders : v[k] \in Int /\ w[k] \in Int
    BY <1>3, <1>8
  <2>2. Sum(v, Holders) \in Int
    BY <2>1, LedgerNumbers, SumInt
  <2>3. CASE h = Platform
    <3>1. w[h] - v[h] = 0 - burned /\ \A k \in Holders \ {h} : w[k] = v[k]
      BY <1>3, <1>7, <2>1, <2>3
    <3> HIDE DEF v, w
    <3>2. Sum(w, Holders) = Sum(v, Holders) + (w[h] - v[h])
      BY <2>1, <3>1, LedgerNumbers, SumAt
    <3> QED BY <2>2, <3>1, <3>2
  <2>4. CASE h # Platform
    <3> DEFINE left == [v EXCEPT ![h] = v[h] - s]
    <3>1. left[h] = v[h] - s /\ (\A k \in Holders \ {h} : left[k] = v[k]) /\ \A k \in Holders : left[k] \in Int
      BY <1>3
    <3>2. w[Platform] = left[Platform] + fee /\ \A k \in Holders \ {Platform} : w[k] = left[k]
      BY <1>3, <1>7, <2>4, <3>1, LedgerNumbers
    <3> HIDE DEF v, w, left
    <3>3. Sum(left, Holders) = Sum(v, Holders) + (left[h] - v[h])
      BY <2>1, <3>1, LedgerNumbers, SumAt
    <3>4. Sum(w, Holders) = Sum(left, Holders) + (w[Platform] - left[Platform])
      BY <2>1, <3>1, <3>2, LedgerNumbers, SumAt
    <3>5. w[Platform] - left[Platform] = fee /\ left[h] - v[h] = 0 - s
      BY <2>1, <3>1, <3>2, LedgerNumbers
    <3> HIDE DEF s
    <3>6. Sum(w, Holders) = (Sum(v, Holders) - s) + fee
      BY <1>3, <2>2, <3>3, <3>4, <3>5
    <3> QED BY <2>2, <3>6 DEF s
  <2> QED BY <2>3, <2>4
<1>10. Sum(x, Holders) = Sum(u, Holders) - s
  <2>1. (\A k \in Holders : u[k] \in Int /\ x[k] \in Int) /\ (\A k \in Holders \ {h} : x[k] = u[k]) /\ x[h] - u[h] = 0 - s
    BY <1>3, <1>7, <1>8
  <2> HIDE DEF u, x, s
  <2>2. Sum(x, Holders) = Sum(u, Holders) + (x[h] - u[h])
    BY <2>1, LedgerNumbers, SumAt
  <2>3. Sum(u, Holders) \in Int
    BY <2>1, LedgerNumbers, SumInt
  <2> QED BY <1>3, <2>1, <2>2, <2>3
<1>11. \A k \in Holders : d.queued[k] + locked[k] <= d.shares[k]
  <2> SUFFICES ASSUME NEW k \in Holders PROVE d.queued[k] + locked[k] <= d.shares[k]
    OBVIOUS
  <2>1. b.queued[k] + locked[k] <= b.shares[k] /\ b.queued[k] \in Nat /\ b.shares[k] \in Nat /\ locked[k] \in Nat
    BY <1>1 DEF BookOk, BookTyped
  <2>2. CASE k = h
    BY <1>3, <1>7, <2>1, <2>2
  <2>3. CASE k # h /\ k = Platform
    BY <1>7, <2>1, <2>3
  <2>4. CASE k # h /\ k # Platform
    BY <1>7, <2>1, <2>4
  <2> QED BY <2>2, <2>3, <2>4
<1>12. d.total = Sum(d.shares, Holders) /\ d.queuedShares = Sum(d.queued, Holders)
  BY <1>2, <1>7, <1>9, <1>10
<1>13. Len(d.queue) <= MaxQueue /\ QueueOk(d.queue, d.slot) /\ d.slot[h] # 0
         /\ \A k \in Holders \ {h} : d.slot[k] = 0 <=> d.queued[k] = 0
  BY <1>1, <1>7 DEF BookOk
<1>14. CASE d.queued[h] # 0
  <2>1. c = d
    BY <1>14 DEF Served, DropIfDone, d
  <2>2. \A k \in Holders : d.slot[k] = 0 <=> d.queued[k] = 0
    BY <1>13, <1>14
  <2>3. BookOk(d, locked)
    BY <1>7, <1>11, <1>12, <1>13, <2>2 DEF BookOk
  <2> QED BY <1>7, <2>1, <2>3
<1>15. CASE d.queued[h] = 0
  <2>1. c = Drop(d, h)
    BY <1>15 DEF Served, DropIfDone, d
  <2>2. /\ BookForm(c) /\ BookTyped(c) /\ QueueOk(c.queue, c.slot) /\ Len(c.queue) <= Len(d.queue)
        /\ c.shares = d.shares /\ c.basis = d.basis /\ c.queued = d.queued
        /\ c.total = d.total /\ c.queuedShares = d.queuedShares
        /\ c.slot[h] = 0 /\ \A k \in Holders \ {h} : c.slot[k] = 0 <=> d.slot[k] = 0
    BY <1>7, <1>13, <2>1, DropIs
  <2>3. \A k \in Holders : c.slot[k] = 0 <=> c.queued[k] = 0
    BY <1>13, <1>15, <2>2
  <2>4. Len(c.queue) <= MaxQueue
    <3>1. Len(c.queue) \in Nat /\ Len(d.queue) \in Nat
      BY <1>7, <2>2 DEF BookTyped
    <3> QED BY <1>13, <2>2, <3>1, LedgerNumbers
  <2>5. BookOk(c, locked)
    BY <1>11, <1>12, <2>2, <2>3, <2>4 DEF BookOk
  <2> QED BY <1>7, <2>2, <2>5
<1> QED BY <1>14, <1>15

\* Those of a queue who are to be paid are served one after the other.
ServesInTurn(f, q, base, paid, burn, fee) ==
  f = [s \in SUBSET (DOMAIN q) |->
         IF s = {} THEN base
         ELSE LET c == f[s \ {Max(s)}]
                  h == q[Max(s)]
              IN  IF h \in paid THEN Served(c, h, burn[h], fee[h]) ELSE c]

\* On the way each book is in order, and nobody is served twice or for another.
ServedOk(f, q, base, locked, paid) ==
  \A s \in SUBSET (DOMAIN q) :
    /\ BookOk(f[s], locked)
    /\ \A h \in Holders \ paid : f[s].queued[h] = base.queued[h]
    /\ \A i \in DOMAIN q \ s : f[s].queued[q[i]] = base.queued[q[i]]

\* What is asked of a payment for the holder, of what they asked for.
FairFor(h, asked, burn, fee) ==
  /\ asked > 0 /\ burn \in Nat /\ fee \in Nat /\ burn + fee <= asked /\ (h = Platform => fee = 0)

\* Serving those who are paid in turn leaves the book in order.
LEMMA QueueServed ==
  ASSUME NEW base, NEW locked \in [Holders -> Nat], BookOk(base, locked),
         NEW q \in Seq(Holders), NEW slot, \A i \in DOMAIN q : slot[q[i]] = i,
         NEW paid, NEW burn, NEW fee,
         \A h \in paid \cap Holders : FairFor(h, base.queued[h], burn[h], fee[h])
  PROVE  \E f : ServesInTurn(f, q, base, paid, burn, fee) /\ ServedOk(f, q, base, locked, paid)
<1> DEFINE D == DOMAIN q
           Fits(c, s) == /\ BookOk(c, locked)
                         /\ \A h \in Holders \ paid : c.queued[h] = base.queued[h]
                         /\ \A i \in D \ s : c.queued[q[i]] = base.queued[q[i]]
           I == [s \in SUBSET D |-> {c \in Books : Fits(c, s)}]
           pick == [s \in SUBSET D |-> Max(s)]
           serve(i, c) == IF q[i] \in paid THEN Served(c, q[i], burn[q[i]], fee[q[i]]) ELSE c
           g == [p \in D \X Books |-> serve(p[1], p[2])]
<1>1. D = 1..Len(q) /\ Len(q) \in Nat /\ IsFiniteSet(D) /\ \A i \in D : q[i] \in Holders
  <2>1. D = 1..Len(q) /\ Len(q) \in Nat /\ \A i \in D : q[i] \in Holders
    OBVIOUS
  <2>2. IsFiniteSet(1..Len(q))
    BY <2>1, FS_Interval
  <2> QED BY <2>1, <2>2
<1>2. Picks(pick, D)
  <2> SUFFICES ASSUME NEW s \in SUBSET D, s # {} PROVE pick[s] \in s
    BY DEF Picks
  <2>1. Max(s) \in s
    BY <1>1, GreatestIsOne
  <2> QED BY <2>1
<1>3. base \in I[{}]
  <2>1. base \in Books
    BY BooksAre DEF BookOk
  <2>2. Fits(base, {})
    OBVIOUS
  <2> QED BY <2>1, <2>2
<1>4. ASSUME NEW s \in SUBSET D, s # {}, NEW c \in I[s \ {pick[s]}]
      PROVE  g[<<pick[s], c>>] \in I[s] /\ g[<<pick[s], c>>] = serve(pick[s], c)
  <2> DEFINE i == pick[s]
             h == q[i]
             d == serve(i, c)
  <2>1. i \in s /\ i \in D /\ h \in Holders
    BY <1>1, <1>2, <1>4 DEF Picks
  <2> HIDE DEF pick
  <2>2. c \in Books /\ Fits(c, s \ {i})
    BY <2>1
  <2>3. g[<<i, c>>] = d
    BY <2>1, <2>2
  <2>4. c.queued[h] = base.queued[h]
    BY <2>1, <2>2
  <2>5. CASE h \in paid
    <3>1. FairFor(h, base.queued[h], burn[h], fee[h])
      BY <2>1, <2>5
    <3>2. d = Served(c, h, burn[h], fee[h])
      BY <2>5
    <3> HIDE DEF d
    <3>3. BookOk(d, locked) /\ \A k \in Holders \ {h} : d.queued[k] = c.queued[k]
      <4> HIDE DEF h
      <4> QED BY <2>1, <2>2, <2>4, <3>1, <3>2, ServedKeeps, SMTT(30) DEF FairFor
    <3>4. \A k \in Holders \ paid : d.queued[k] = base.queued[k]
      BY <2>2, <2>5, <3>3
    <3>5. ASSUME NEW j \in D \ s PROVE d.queued[q[j]] = base.queued[q[j]]
      <4>1. q[j] # h /\ q[j] \in Holders
        BY <1>1, <2>1, SMTT(30)
      <4>2. c.queued[q[j]] = base.queued[q[j]]
        BY <2>2
      <4> QED BY <3>3, <4>1, <4>2
    <3>6. d \in Books
      BY <3>3, BooksAre DEF BookOk
    <3>7. Fits(d, s)
      BY <3>3, <3>4, <3>5
    <3>8. d \in I[s]
      BY <3>6, <3>7
    <3> HIDE DEF I, g
    <3> QED BY <2>3, <3>8 DEF d
  <2>6. CASE h \notin paid
    <3>1. d = c
      BY <2>6
    <3>2. Fits(c, s)
      BY <2>2
    <3>3. c \in I[s]
      BY <2>2, <3>2
    <3> HIDE DEF I, g
    <3> QED BY <2>3, <3>1, <3>3
  <2> QED BY <2>5, <2>6
<1>5. PICK f : FoldFun(f, g, base, pick, D) /\ \A s \in SUBSET D : f[s] \in I[s]
  <2>1. \A s \in SUBSET D : s # {} => \A c \in I[s \ {pick[s]}] : g[<<pick[s], c>>] \in I[s]
    BY <1>4
  <2> HIDE DEF D, I, pick, g
  <2> QED BY <1>1, <1>2, <1>3, <2>1, FoldHolds
<1>6. \A s \in SUBSET D : Fits(f[s], s)
  BY <1>5
<1>7. ServesInTurn(f, q, base, paid, burn, fee)
  <2>1. ASSUME NEW s \in SUBSET D
        PROVE  f[s] = IF s = {} THEN base
                      ELSE IF q[Max(s)] \in paid
                           THEN Served(f[s \ {Max(s)}], q[Max(s)], burn[q[Max(s)]], fee[q[Max(s)]])
                           ELSE f[s \ {Max(s)}]
    <3>1. f[s] = IF s = {} THEN base ELSE g[<<pick[s], f[s \ {pick[s]}]>>]
      BY <1>5 DEF FoldFun
    <3>2. CASE s = {}
      BY <3>1, <3>2
    <3>3. CASE s # {}
      <4>1. f[s \ {pick[s]}] \in I[s \ {pick[s]}]
        <5>1. s \ {pick[s]} \in SUBSET D
          OBVIOUS
        <5> HIDE DEF I, pick
        <5> QED BY <1>5, <5>1
      <4>2. g[<<pick[s], f[s \ {pick[s]}]>>] = serve(pick[s], f[s \ {pick[s]}])
        <5> HIDE DEF I, g, pick
        <5> QED BY <1>4, <3>3, <4>1
      <4>3. pick[s] = Max(s)
        OBVIOUS
      <4> HIDE DEF g, I, pick
      <4> QED BY <3>1, <3>3, <4>2, <4>3
    <3> QED BY <3>2, <3>3
  <2>2. f = [s \in SUBSET D |-> f[s]]
    BY <1>5 DEF FoldFun
  <2> HIDE DEF I, g, pick
  <2> QED BY <2>1, <2>2 DEF ServesInTurn
<1>8. ServedOk(f, q, base, locked, paid)
  BY <1>6 DEF ServedOk
<1> QED BY <1>7, <1>8

----------------------------------------------------------------------------
(* Quotes, and the requests too small to carry a payment. *)

LEMMA NatDiv ==
  ASSUME NEW a \in Nat, NEW m \in Nat, m > 0
  PROVE  a \div m \in Nat
OBVIOUS

LEMMA NatTimes ==
  ASSUME NEW a \in Nat, NEW m \in Nat
  PROVE  a * m \in Nat
OBVIOUS

\* A price that a point can pay at.
PriceOk(price) == price.value \in Nat /\ price.shares \in Nat /\ price.value > 0 /\ price.shares > 0

\* A quote burns and takes no more than was asked for.
LEMMA QuoteIsFair ==
  ASSUME NEW b, BookTyped(b), NEW h \in Holders, b.shares[h] > 0, b.queued[h] > 0,
         NEW price, PriceOk(price), NEW num \in Nat, NEW den \in Nat, den > 0, num <= den,
         NEW quote, quote = Quote(b, h, price, num, den)
  PROVE  FairFor(h, b.queued[h], quote.burn, quote.fee) /\ quote.net \in Nat
<1> DEFINE asked == b.queued[h]
           m == b.shares[h]
           basis == b.basis[h]
           v == price.value
           k == price.shares
           s == (asked * num) \div den
           gross == (s * v) \div k
           cost == (basis * s) \div m
           gain == gross - cost
           p == (gain * FeeBps) \div BPS
           cut == (s * p) \div gross
           fee == IF h # Platform /\ gross > cost THEN cut ELSE 0
           paid == s - fee
           net == ((paid * v) \div k) \div SpotPerPerp
<1>1. quote = [burn |-> paid, fee |-> fee, net |-> net]
  <2>1. Quote(b, h, price, num, den) = [burn |-> paid, fee |-> fee, net |-> net]
    BY ZenonT(60) DEF Quote
  <2> HIDE DEF paid, fee, net
  <2> QED BY <2>1
<1>2. asked \in Nat /\ m \in Nat /\ basis \in Nat /\ m > 0 /\ asked > 0
  BY DEF BookTyped
<1>3. v \in Nat /\ k \in Nat /\ v > 0 /\ k > 0
  BY DEF PriceOk
<1> HIDE DEF asked, m, basis, v, k
<1>4. s \in Nat /\ s <= asked
  BY <1>2, PartOf
<1> HIDE DEF s
<1>5. gross \in Nat
  BY <1>3, <1>4, NatTimes, NatDiv
<1>6. cost \in Nat
  BY <1>2, <1>4, NatTimes, NatDiv
<1> HIDE DEF gross, cost
<1>7. fee \in Nat /\ fee <= s /\ (h = Platform => fee = 0)
  <2>1. CASE h # Platform /\ gross > cost
    <3>1. gain \in Nat /\ gain <= gross /\ gross > 0
      BY <1>5, <1>6, <2>1
    <3> HIDE DEF gain
    <3>2. p \in Nat /\ p <= gain
      BY <3>1, LedgerNumbers, PartOf
    <3> HIDE DEF p
    <3>3. p <= gross
      BY <1>5, <3>1, <3>2
    <3>4. cut \in Nat /\ cut <= s
      BY <1>4, <1>5, <3>1, <3>2, <3>3, PartOf
    <3> HIDE DEF cut
    <3> QED BY <2>1, <3>4
  <2>2. CASE ~(h # Platform /\ gross > cost)
    <3>1. fee = 0
      BY <2>2
    <3> HIDE DEF fee
    <3> QED BY <1>4, <3>1
  <2> QED BY <2>1, <2>2
<1> HIDE DEF fee
<1>8. paid \in Nat /\ paid + fee = s
  BY <1>4, <1>7
<1> HIDE DEF paid
<1>9. net \in Nat
  <2> DEFINE x == (paid * v) \div k
  <2>1. x \in Nat
    BY <1>3, <1>8, NatTimes, NatDiv
  <2> HIDE DEF x
  <2>2. x \div SpotPerPerp \in Nat
    BY <2>1, LedgerNumbers, NatDiv
  <2> QED BY <2>2 DEF x
<1> HIDE DEF net
<1>10. quote.burn = paid /\ quote.fee = fee /\ quote.net = net
  BY <1>1
<1>11. paid + fee <= asked
  BY <1>4, <1>8
<1>12. FairFor(h, asked, paid, fee)
  BY <1>2, <1>7, <1>8, <1>11 DEF FairFor
<1> QED BY <1>9, <1>10, <1>12 DEF asked

\* All of what the holder asked for leaves the queue empty of them.
LEMMA ServedWhole ==
  ASSUME NEW b, BookForm(b), BookTyped(b), NEW h \in Holders
  PROVE  Served(b, h, b.queued[h], 0) = Drop(SettleHolder(b, h, b.queued[h], 0), h)
<1> DEFINE n == b.queued[h]
           c == SettleHolder(b, h, n, 0)
           kept == (b.basis[h] * (n + 0)) \div b.shares[h]
           left == [[b.shares EXCEPT ![h] = @ - (n + 0)] EXCEPT ![Platform] = @ + 0]
<1>1. n \in Nat /\ b.queued \in [Holders -> Nat]
  BY DEF BookTyped
<1>2. c = [b EXCEPT !.basis[h] = @ - kept, !.shares = left,
                    !.queued[h] = @ - (n + 0), !.queuedShares = @ - (n + 0), !.total = @ - n]
  BY DEF SettleHolder
<1> HIDE DEF c, kept, left
<1>3. c.queued = [b.queued EXCEPT ![h] = @ - (n + 0)]
  BY <1>2 DEF BookForm, BookFields
<1>4. c.queued[h] = 0
  BY <1>1, <1>3
<1> QED BY <1>4 DEF Served, DropIfDone, c

LEMMA PlacesAreOfHolders ==
  ASSUME NEW b, NEW locked, BookOk(b, locked)
  PROVE  /\ b.queue \in Seq(Holders) /\ \A i \in DOMAIN b.queue : b.slot[b.queue[i]] = i
         /\ \A i \in DOMAIN b.queue : b.queue[i] \in Holders /\ b.queued[b.queue[i]] > 0
         /\ IsFiniteSet(DOMAIN b.queue) /\ \A s \in SUBSET (DOMAIN b.queue) : s # {} => Max(s) \in s
<1>1. b.queue \in Seq(Holders) /\ b.queued \in [Holders -> Nat] /\ \A i \in DOMAIN b.queue : b.slot[b.queue[i]] = i
  BY DEF BookOk, BookTyped, QueueOk
<1>2. DOMAIN b.queue = 1..Len(b.queue) /\ Len(b.queue) \in Nat /\ \A i \in DOMAIN b.queue : b.queue[i] \in Holders
  BY <1>1
<1>3. \A i \in DOMAIN b.queue : b.queued[b.queue[i]] > 0
  <2> SUFFICES ASSUME NEW i \in DOMAIN b.queue PROVE b.queued[b.queue[i]] > 0
    OBVIOUS
  <2> DEFINE h == b.queue[i]
  <2>1. h \in Holders /\ b.slot[h] = i /\ i # 0
    BY <1>1, <1>2
  <2> HIDE DEF h
  <2>2. b.queued[h] # 0 /\ b.queued[h] \in Nat
    BY <1>1, <2>1 DEF BookOk
  <2> QED BY <2>2 DEF h
<1>4. IsFiniteSet(DOMAIN b.queue)
  BY <1>2, FS_Interval, SMTT(30)
<1>5. \A s \in SUBSET (DOMAIN b.queue) : s # {} => Max(s) \in s
  BY <1>2, GreatestIsOne
<1> QED BY <1>1, <1>2, <1>3, <1>4, <1>5

\* Clearing the dust is serving those it is about, whole and for nothing.
LEMMA DustKeeps ==
  ASSUME NEW b, NEW locked \in [Holders -> Nat], BookOk(b, locked), NEW dust, dust \subseteq ToSet(b.queue)
  PROVE  /\ BookOk(DustCleared(b, dust), locked)
         /\ \A h \in Holders \ dust : DustCleared(b, dust).queued[h] = b.queued[h]
<1> DEFINE q == b.queue
           D == DOMAIN q
           none == [h \in Holders |-> 0]
           step(c, h) == IF h \in dust THEN Drop(SettleHolder(c, h, c.queued[h], 0), h) ELSE c
           F(f) == f = [s \in SUBSET D |-> IF s = {} THEN b ELSE step(f[s \ {Max(s)}], q[Max(s)])]
           result == CHOOSE f : F(f)
<1>1. DustCleared(b, dust) = result[D]
  BY DEF DustCleared, FoldLeft, MapThenFoldSet
<1>2. /\ q \in Seq(Holders) /\ \A i \in D : b.slot[q[i]] = i
      /\ \A i \in D : q[i] \in Holders /\ b.queued[q[i]] > 0
      /\ IsFiniteSet(D) /\ \A s \in SUBSET D : s # {} => Max(s) \in s
  BY PlacesAreOfHolders
<1>3. \A h \in dust \cap Holders : FairFor(h, b.queued[h], b.queued[h], none[h])
  <2> SUFFICES ASSUME NEW h \in dust \cap Holders PROVE FairFor(h, b.queued[h], b.queued[h], none[h])
    OBVIOUS
  <2>1. b.queued[h] > 0
    BY <1>2 DEF ToSet
  <2>2. b.queued[h] \in Nat
    BY DEF BookOk, BookTyped
  <2> QED BY <2>1, <2>2 DEF FairFor
<1>4. PICK f : /\ ServesInTurn(f, q, b, dust, b.queued, none)
               /\ \A s \in SUBSET D :
                     /\ BookOk(f[s], locked)
                     /\ \A h \in Holders \ dust : f[s].queued[h] = b.queued[h]
                     /\ \A i \in D \ s : f[s].queued[q[i]] = b.queued[q[i]]
  <2> DEFINE places == b.slot
             asked == b.queued
  <2>1. (\A i \in D : places[q[i]] = i) /\ \A h \in dust \cap Holders : FairFor(h, b.queued[h], asked[h], none[h])
    BY <1>2, <1>3
  <2> HIDE DEF none, places, q, asked
  <2>2. \E f : ServesInTurn(f, q, b, dust, asked, none) /\ ServedOk(f, q, b, locked, dust)
    BY <1>2, <2>1, QueueServed
  <2> QED BY <2>2 DEF asked, ServedOk
<1>5. ASSUME NEW s \in SUBSET D
      PROVE  f[s] = IF s = {} THEN b ELSE step(f[s \ {Max(s)}], q[Max(s)])
  <2>1. f[s] = IF s = {} THEN b
               ELSE IF q[Max(s)] \in dust
                    THEN Served(f[s \ {Max(s)}], q[Max(s)], b.queued[q[Max(s)]], none[q[Max(s)]])
                    ELSE f[s \ {Max(s)}]
    BY <1>4 DEF ServesInTurn
  <2>2. CASE s # {}
    <3> DEFINE i == Max(s)
               h == q[i]
               c == f[s \ {i}]
    <3>1. i \in s /\ i \in D /\ h \in Holders
      BY <1>2, <2>2
    <3> HIDE DEF i
    <3>2. BookOk(c, locked) /\ c.queued[h] = b.queued[h]
      BY <1>4, <3>1
    <3>3. none[h] = 0
      BY <3>1
    <3>4. Served(c, h, b.queued[h], none[h]) = Drop(SettleHolder(c, h, c.queued[h], 0), h)
      <4> HIDE DEF c, h, none
      <4> QED BY <3>1, <3>2, <3>3, ServedWhole DEF BookOk
    <3> HIDE DEF c, h, none
    <3> QED BY <2>1, <2>2, <3>4 DEF i, h, c
  <2> HIDE DEF none, step
  <2> QED BY <2>1, <2>2
<1>6. F(f)
  <2>1. f = [s \in SUBSET D |-> f[s]]
    BY <1>4 DEF ServesInTurn
  <2> HIDE DEF step
  <2> QED BY <1>5, <2>1
<1>7. F(result)
  <2> HIDE DEF F
  <2> QED BY <1>6
<1> HIDE DEF result, step
<1>8. result[D] = f[D]
  <2> DEFINE Bad == {s \in SUBSET D : result[s] # f[s]}
  <2>1. SUFFICES ASSUME Bad # {} PROVE FALSE
    OBVIOUS
  <2>2. PICK s \in Bad : \A x \in s : s \ {x} \notin Bad
    <3>1. Bad \subseteq SUBSET D
      OBVIOUS
    <3> HIDE DEF Bad, F, D
    <3> QED BY <1>2, <2>1, <3>1, LeastOf
  <2>3. s \in SUBSET D /\ result[s] # f[s]
    OBVIOUS
  <2>4. f[s] = IF s = {} THEN b ELSE step(f[s \ {Max(s)}], q[Max(s)])
    BY <1>6, <2>3
  <2>5. result[s] = IF s = {} THEN b ELSE step(result[s \ {Max(s)}], q[Max(s)])
    BY <1>7, <2>3
  <2> HIDE DEF F
  <2>6. s # {} /\ Max(s) \in s
    BY <1>2, <2>3, <2>4, <2>5
  <2>7. result[s \ {Max(s)}] = f[s \ {Max(s)}]
    BY <2>2, <2>3, <2>6
  <2> HIDE DEF Bad
  <2> QED BY <2>3, <2>4, <2>5, <2>7
<1>9. D \in SUBSET D
  OBVIOUS
<1> QED BY <1>1, <1>4, <1>8, <1>9

----------------------------------------------------------------------------
(* A payment, and the deposits of a point. *)

LEMMA NetsAdd ==
  ASSUME NEW S, IsFiniteSet(S), NEW quotes, NEW nets, \A h \in S : nets[h] = quotes[h].net
  PROVE  SumOver(S, LAMBDA h : quotes[h].net) = Sum(nets, S)
<1> DEFINE c(s) == CHOOSE x \in s : TRUE
           F(f) == f = [s \in SUBSET S |-> IF s = {} THEN 0 ELSE quotes[c(s)].net + f[s \ {c(s)}]]
           total == (CHOOSE f : F(f))[S]
<1>1. SumOver(S, LAMBDA h : quotes[h].net) = total
  BY DEF SumOver, FoldSet, MapThenFoldSet
<1>2. \A f : SumFun(f, nets, S) <=> F(f)
  <2>1. \A s \in SUBSET S : s # {} => nets[c(s)] = quotes[c(s)].net
    OBVIOUS
  <2> QED BY <2>1 DEF SumFun
<1>3. PICK g : SumFun(g, nets, S)
  BY SumFunExists
<1> HIDE DEF F
<1>4. F(CHOOSE f : F(f))
  BY <1>2, <1>3
<1>5. SumFun(CHOOSE f : F(f), nets, S)
  BY <1>2, <1>4
<1> DEFINE k == CHOOSE f : F(f)
<1>6. SumFun(k, nets, S)
  BY <1>5
<1> HIDE DEF k
<1>7. Sum(nets, S) = k[S]
  BY <1>6, SumIs
<1> QED BY <1>1, <1>7 DEF k

CoreShares(S, quotes, onEvm) == SumOver(S, LAMBDA h : (quotes[h].net - onEvm[h]) * SpotPerPerp)

LEMMA CoreShareAdds ==
  ASSUME NEW S, IsFiniteSet(S), NEW quotes, NEW onEvm, NEW v,
         \A h \in S : v[h] = (quotes[h].net - onEvm[h]) * SpotPerPerp
  PROVE  CoreShares(S, quotes, onEvm) = Sum(v, S)
<1> DEFINE c(s) == CHOOSE x \in s : TRUE
           part(h) == (quotes[h].net - onEvm[h]) * SpotPerPerp
           F(f) == f = [s \in SUBSET S |-> IF s = {} THEN 0 ELSE part(c(s)) + f[s \ {c(s)}]]
           total == (CHOOSE f : F(f))[S]
<1>1. CoreShares(S, quotes, onEvm) = total
  BY DEF CoreShares, SumOver, FoldSet, MapThenFoldSet
<1>2. \A f : SumFun(f, v, S) <=> F(f)
  <2>1. \A s \in SUBSET S : s # {} => v[c(s)] = part(c(s))
    OBVIOUS
  <2> HIDE DEF part
  <2> QED BY <2>1 DEF SumFun
<1>3. PICK g : SumFun(g, v, S)
  BY SumFunExists
<1> HIDE DEF F
<1>4. F(CHOOSE f : F(f))
  BY <1>2, <1>3
<1>5. SumFun(CHOOSE f : F(f), v, S)
  BY <1>2, <1>4
<1> DEFINE k == CHOOSE f : F(f)
<1>6. SumFun(k, v, S)
  BY <1>5
<1> HIDE DEF k
<1>7. Sum(v, S) = k[S]
  BY <1>6, SumIs
<1> QED BY <1>1, <1>7 DEF k

\* A queue paid as quoted, one holder after the other.
PaidInTurn(f, q, cleared, paid, quote) ==
  f = [s \in SUBSET (DOMAIN q) |->
         IF s = {} THEN cleared
         ELSE IF q[Max(s)] \in paid
              THEN DropIfDone(SettleHolder(f[s \ {Max(s)}], q[Max(s)], quote[q[Max(s)]].burn,
                                           quote[q[Max(s)]].fee), q[Max(s)])
              ELSE f[s \ {Max(s)}]]
AllPaid(q, cleared, paid, quote) == (CHOOSE f : PaidInTurn(f, q, cleared, paid, quote))[DOMAIN q]

LEMMA AllPaidKeeps ==
  ASSUME NEW q \in Seq(Holders), NEW slot, \A i \in DOMAIN q : slot[q[i]] = i,
         IsFiniteSet(DOMAIN q), \A s \in SUBSET (DOMAIN q) : s # {} => Max(s) \in s,
         NEW cleared, NEW locked \in [Holders -> Nat], BookOk(cleared, locked), NEW paid, NEW quote,
         \A h \in paid \cap Holders : FairFor(h, cleared.queued[h], quote[h].burn, quote[h].fee)
  PROVE  BookOk(AllPaid(q, cleared, paid, quote), locked)
<1> DEFINE D == DOMAIN q
           burn == [h \in Holders |-> quote[h].burn]
           fee == [h \in Holders |-> quote[h].fee]
           step(c, h) == IF h \in paid THEN Served(c, h, quote[h].burn, quote[h].fee) ELSE c
           F(f) == f = [s \in SUBSET D |-> IF s = {} THEN cleared ELSE step(f[s \ {Max(s)}], q[Max(s)])]
           result == CHOOSE f : F(f)
<1>1. AllPaid(q, cleared, paid, quote) = result[D]
  BY DEF AllPaid, PaidInTurn, Served
<1>2. \A h \in paid \cap Holders : FairFor(h, cleared.queued[h], burn[h], fee[h])
  OBVIOUS
<1>3. PICK f : ServesInTurn(f, q, cleared, paid, burn, fee) /\ ServedOk(f, q, cleared, locked, paid)
  <2> HIDE DEF burn, fee
  <2> QED BY <1>2, QueueServed
<1>4. ASSUME NEW s \in SUBSET D
      PROVE  f[s] = IF s = {} THEN cleared ELSE step(f[s \ {Max(s)}], q[Max(s)])
  <2>1. f[s] = IF s = {} THEN cleared
               ELSE IF q[Max(s)] \in paid
                    THEN Served(f[s \ {Max(s)}], q[Max(s)], burn[q[Max(s)]], fee[q[Max(s)]])
                    ELSE f[s \ {Max(s)}]
    BY <1>3 DEF ServesInTurn
  <2>2. CASE s # {}
    <3>1. q[Max(s)] \in Holders
      BY <2>2
    <3>2. burn[q[Max(s)]] = quote[q[Max(s)]].burn /\ fee[q[Max(s)]] = quote[q[Max(s)]].fee
      BY <3>1
    <3> HIDE DEF burn, fee
    <3> QED BY <2>1, <2>2, <3>2
  <2> HIDE DEF burn, fee, step
  <2> QED BY <2>1, <2>2
<1>5. F(f)
  <2>1. f = [s \in SUBSET D |-> f[s]]
    BY <1>3 DEF ServesInTurn
  <2> HIDE DEF step
  <2> QED BY <1>4, <2>1
<1>6. F(result)
  <2> HIDE DEF F
  <2> QED BY <1>5
<1> HIDE DEF result, step
<1>7. result[D] = f[D]
  <2> DEFINE Bad == {s \in SUBSET D : result[s] # f[s]}
  <2>1. SUFFICES ASSUME Bad # {} PROVE FALSE
    OBVIOUS
  <2>2. PICK s \in Bad : \A x \in s : s \ {x} \notin Bad
    <3>1. Bad \subseteq SUBSET D
      OBVIOUS
    <3> HIDE DEF Bad, F
    <3> QED BY <2>1, <3>1, LeastOf
  <2>3. s \in SUBSET D /\ result[s] # f[s]
    OBVIOUS
  <2>4. f[s] = IF s = {} THEN cleared ELSE step(f[s \ {Max(s)}], q[Max(s)])
    BY <1>5, <2>3
  <2>5. result[s] = IF s = {} THEN cleared ELSE step(result[s \ {Max(s)}], q[Max(s)])
    BY <1>6, <2>3
  <2> HIDE DEF F
  <2>6. s # {} /\ Max(s) \in s
    BY <2>3, <2>4, <2>5
  <2>7. result[s \ {Max(s)}] = f[s \ {Max(s)}]
    BY <2>2, <2>3, <2>6
  <2> HIDE DEF Bad
  <2> QED BY <2>3, <2>4, <2>5, <2>7
<1>8. D \in SUBSET D
  OBVIOUS
<1> QED BY <1>1, <1>3, <1>7, <1>8 DEF ServedOk

\* What a payment leaves: a book in order, and whole amounts to send.
LEMMA PayKeeps ==
  ASSUME NEW b, NEW locked \in [Holders -> Nat], BookOk(b, locked), NEW price, PriceOk(price),
         NEW evm \in Int, NEW core \in Int
  PROVE  LET p == Pay(b, price, evm, core)
         IN  BookOk(p.book, locked) /\ p.evm \in Int /\ p.core \in Int
<1> DEFINE q == b.queue
           full == [h \in ToSet(b.queue) |-> Quote(b, h, price, 1, 1)]
           dust == {h \in DOMAIN full : full[h].net = 0}
           due == DOMAIN full \ dust
           cleared == DustCleared(b, dust)
           wanted == SumOver(due, LAMBDA h : full[h].net)
           have == Spare(evm + core, Len(b.queue))
           quote == IF wanted <= have THEN full
                    ELSE [h \in due |-> Quote(cleared, h, price, have, wanted)]
           paid == {h \in due : quote[h].net # 0}
           sum == SumOver(paid, LAMBDA h : quote[h].net)
           fromEvm == SmallerOf(evm, sum)
           onEvm == [h \in paid |-> (quote[h].net * fromEvm) \div sum]
           inEvm == SumOver(paid, LAMBDA h : onEvm[h])
           inCore == SumOver(paid, LAMBDA h : (quote[h].net - onEvm[h]) * SpotPerPerp)
           paidOut == AllPaid(q, cleared, paid, quote)
<1>1. Pay(b, price, evm, core) = [book |-> paidOut, evm |-> inEvm, core |-> inCore]
  BY DEF Pay, FoldLeft, MapThenFoldSet, AllPaid, PaidInTurn
<1>2. /\ q \in Seq(Holders) /\ \A i \in DOMAIN q : b.slot[q[i]] = i
      /\ \A i \in DOMAIN q : q[i] \in Holders /\ b.queued[q[i]] > 0
      /\ IsFiniteSet(DOMAIN q) /\ \A s \in SUBSET (DOMAIN q) : s # {} => Max(s) \in s
  BY PlacesAreOfHolders
<1>3. DOMAIN full = ToSet(q) /\ \A h \in ToSet(q) : h \in Holders /\ b.queued[h] > 0 /\ full[h] = Quote(b, h, price, 1, 1)
  BY <1>2 DEF ToSet
<1>4. \A h \in ToSet(q) : FairFor(h, b.queued[h], full[h].burn, full[h].fee) /\ full[h].net \in Nat
  <2> SUFFICES ASSUME NEW h \in ToSet(q)
               PROVE  FairFor(h, b.queued[h], full[h].burn, full[h].fee) /\ full[h].net \in Nat
    OBVIOUS
  <2>1. h \in Holders /\ b.queued[h] > 0 /\ full[h] = Quote(b, h, price, 1, 1)
    BY <1>3
  <2>2. BookTyped(b) /\ b.shares[h] > 0
    BY <2>1 DEF BookOk, BookTyped
  <2> DEFINE one == full[h]
  <2> HIDE DEF full
  <2>3. 1 \in Nat /\ 1 > 0 /\ 1 <= 1
    OBVIOUS
  <2>4. one = Quote(b, h, price, 1, 1)
    BY <2>1
  <2> HIDE DEF one
  <2>5. FairFor(h, b.queued[h], one.burn, one.fee) /\ one.net \in Nat
    BY <2>1, <2>2, <2>3, <2>4, QuoteIsFair
  <2> QED BY <2>5 DEF one
<1>5. dust \subseteq ToSet(q) /\ due \subseteq ToSet(q) /\ due \cap dust = {} /\ due \subseteq Holders /\ IsFiniteSet(due)
  <2>1. dust \subseteq ToSet(q) /\ due \subseteq ToSet(q) /\ due \cap dust = {} /\ due \subseteq Holders
    <3> HIDE DEF full
    <3> QED BY <1>3
  <2> HIDE DEF due
  <2> QED BY <2>1, LedgerNumbers, FS_Subset
<1> HIDE DEF full
<1>6. BookOk(cleared, locked) /\ \A h \in due : cleared.queued[h] = b.queued[h]
  <2> HIDE DEF dust, due, q
  <2>1. BookOk(cleared, locked) /\ \A h \in Holders \ dust : cleared.queued[h] = b.queued[h]
    BY <1>5, DustKeeps DEF q
  <2> QED BY <1>5, <2>1
<1> HIDE DEF dust, cleared
<1>7. wanted \in Nat
  <2> DEFINE nets == [h \in due |-> full[h].net]
  <2>1. \A h \in due : nets[h] \in Nat /\ nets[h] = full[h].net
    <3> HIDE DEF due
    <3> QED BY <1>4, <1>5
  <2> HIDE DEF nets, due
  <2>2. wanted = Sum(nets, due)
    BY <1>5, <2>1, NetsAdd
  <2>3. Sum(nets, due) \in Nat
    BY <1>5, <2>1, SumOfNats
  <2> QED BY <2>2, <2>3
<1> HIDE DEF wanted
<1>8. have \in Nat
  <2>1. Len(b.queue) \in Nat
    BY <1>2
  <2> QED BY <2>1 DEF Spare
<1> HIDE DEF have, due
<1>9. \A h \in due : FairFor(h, cleared.queued[h], quote[h].burn, quote[h].fee) /\ quote[h].net \in Nat
  <2> SUFFICES ASSUME NEW h \in due
               PROVE  FairFor(h, cleared.queued[h], quote[h].burn, quote[h].fee) /\ quote[h].net \in Nat
    OBVIOUS
  <2>1. h \in ToSet(q) /\ h \in Holders /\ cleared.queued[h] = b.queued[h] /\ b.queued[h] > 0
    BY <1>3, <1>5, <1>6
  <2>2. CASE wanted <= have
    <3>1. quote = full
      BY <2>2
    <3> HIDE DEF quote
    <3> QED BY <1>4, <2>1, <3>1
  <2>3. CASE ~(wanted <= have)
    <3> DEFINE one == quote[h]
    <3>1. one = Quote(cleared, h, price, have, wanted)
      BY <2>3
    <3> HIDE DEF one, quote
    <3>2. have <= wanted /\ wanted > 0
      BY <1>7, <1>8, <2>3
    <3>3. BookTyped(cleared) /\ cleared.queued[h] > 0 /\ cleared.shares[h] > 0
      <4>1. BookTyped(cleared) /\ cleared.queued[h] + locked[h] <= cleared.shares[h] /\ locked[h] \in Nat
        BY <1>6, <2>1 DEF BookOk
      <4>2. cleared.queued[h] \in Nat /\ cleared.shares[h] \in Nat
        BY <2>1, <4>1 DEF BookTyped
      <4> QED BY <2>1, <4>1, <4>2
    <3>4. FairFor(h, cleared.queued[h], one.burn, one.fee) /\ one.net \in Nat
      BY <1>7, <1>8, <2>1, <3>1, <3>2, <3>3, QuoteIsFair
    <3> QED BY <3>4 DEF one
  <2> QED BY <2>2, <2>3
<1> HIDE DEF quote
<1>10. /\ paid \subseteq due /\ IsFiniteSet(paid) /\ paid \subseteq Holders
       /\ \A h \in paid : quote[h].net \in Nat /\ quote[h].net # 0
  <2>1. paid \subseteq due /\ \A h \in paid : quote[h].net # 0
    OBVIOUS
  <2> HIDE DEF paid
  <2> QED BY <1>5, <1>9, <2>1, FS_Subset
<1> HIDE DEF paid
<1>11. BookOk(paidOut, locked)
  <2>1. \A h \in paid \cap Holders : FairFor(h, cleared.queued[h], quote[h].burn, quote[h].fee)
    BY <1>9, <1>10
  <2> DEFINE places == b.slot
  <2>2. \A i \in DOMAIN q : places[q[i]] = i
    BY <1>2
  <2> HIDE DEF q, places
  <2> QED BY <1>2, <1>6, <2>1, <2>2, AllPaidKeeps, ZenonT(60)
<1> DEFINE nets == [h \in paid |-> quote[h].net]
<1>12. \A h \in paid : nets[h] \in Nat /\ nets[h] = quote[h].net /\ nets[h] > 0
  BY <1>10
<1> HIDE DEF nets, paidOut
<1>13. sum \in Nat /\ \A h \in paid : nets[h] <= sum
  <2>1. sum = Sum(nets, paid)
    BY <1>10, <1>12, NetsAdd
  <2> HIDE DEF sum
  <2> QED BY <1>10, <1>12, <2>1, SumOfNats
<1> HIDE DEF sum
<1>14. fromEvm \in Int
  BY <1>13 DEF SmallerOf
<1> HIDE DEF fromEvm
<1>15. \A h \in paid : onEvm[h] \in Int
  <2> SUFFICES ASSUME NEW h \in paid PROVE onEvm[h] \in Int
    OBVIOUS
  <2>1. onEvm[h] = (nets[h] * fromEvm) \div sum
    BY <1>12
  <2>2. sum > 0 /\ nets[h] \in Nat
    BY <1>12, <1>13
  <2>3. nets[h] * fromEvm \in Int
    BY <1>14, <2>2
  <2> QED BY <1>13, <2>1, <2>2, <2>3
<1> HIDE DEF onEvm
<1>16. inEvm \in Int
  <2>1. inEvm = Sum(onEvm, paid)
    BY SumOverIs
  <2> HIDE DEF inEvm
  <2> QED BY <1>10, <1>15, <2>1, SumInt
<1>17. inCore \in Int
  <2> DEFINE v == [h \in paid |-> (quote[h].net - onEvm[h]) * SpotPerPerp]
  <2>1. \A h \in paid : v[h] = (quote[h].net - onEvm[h]) * SpotPerPerp /\ v[h] \in Int
    BY <1>10, <1>15, LedgerNumbers
  <2> HIDE DEF v
  <2>2. CoreShares(paid, quote, onEvm) = Sum(v, paid)
    BY <1>10, <2>1, CoreShareAdds
  <2>3. inCore = CoreShares(paid, quote, onEvm)
    BY DEF CoreShares
  <2> HIDE DEF inCore
  <2> QED BY <1>10, <2>1, <2>2, <2>3, SumInt
<1> HIDE DEF inEvm, inCore
<1> QED BY <1>1, <1>11, <1>16, <1>17

\* The book with the shares that deposits mint, at their cost.
WithMinted(b, mint, cost) ==
  [b EXCEPT !.shares = [h \in Holders |-> @[h] + mint[h]],
            !.basis = [h \in Holders |-> @[h] + cost[h]],
            !.total = @ + Sum(mint, Holders)]

LEMMA DepositsKeep ==
  ASSUME NEW b, NEW locked \in [Holders -> Nat], BookOk(b, locked),
         NEW mint, NEW cost, \A h \in Holders : mint[h] \in Nat /\ cost[h] \in Nat,
         NEW c, c = WithMinted(b, mint, cost)
  PROVE  BookOk(c, locked) /\ c.queuedShares = b.queuedShares /\ c.total >= b.total
<1> DEFINE v == b.shares
           w == [h \in Holders |-> v[h] + mint[h]]
           x == [h \in Holders |-> b.basis[h] + cost[h]]
           n == Sum(mint, Holders)
<1>1. BookForm(b) /\ BookTyped(b) /\ v \in [Holders -> Nat] /\ b.total = Sum(v, Holders)
  BY DEF BookOk, BookTyped
<1>2. c = [b EXCEPT !.shares = w, !.basis = x, !.total = @ + n]
  BY DEF WithMinted
<1>3. w \in [Holders -> Nat] /\ x \in [Holders -> Nat] /\ \A h \in Holders : w[h] = v[h] + mint[h] /\ w[h] >= v[h]
  BY <1>1 DEF BookTyped
<1>4. n \in Nat
  BY LedgerNumbers, SumOfNats
<1> HIDE DEF w, x, n
<1>5. BookForm(c)
  BY <1>1, <1>2 DEF BookForm
<1>6. /\ c.shares = w /\ c.basis = x /\ c.total = b.total + n /\ c.queued = b.queued
      /\ c.queuedShares = b.queuedShares /\ c.queue = b.queue /\ c.slot = b.slot
  BY <1>1, <1>2 DEF BookForm, BookFields
<1>7. BookTyped(c)
  <2>1. c.total \in Nat
    BY <1>1, <1>4, <1>6 DEF BookTyped
  <2> QED BY <1>1, <1>3, <1>6, <2>1 DEF BookTyped
<1>8. Sum(w, Holders) = Sum(v, Holders) + n
  <2>1. \A h \in Holders : w[h] \in Int /\ v[h] \in Int /\ mint[h] \in Int /\ w[h] = v[h] + mint[h]
    BY <1>1, <1>3
  <2> HIDE DEF v
  <2> QED BY <2>1, LedgerNumbers, SumPlus DEF n
<1>9. \A h \in Holders : c.queued[h] + locked[h] <= c.shares[h]
  <2> SUFFICES ASSUME NEW h \in Holders PROVE c.queued[h] + locked[h] <= c.shares[h]
    OBVIOUS
  <2>1. b.queued[h] + locked[h] <= b.shares[h] /\ b.queued[h] \in Nat /\ b.shares[h] \in Nat /\ locked[h] \in Nat
    BY DEF BookOk, BookTyped
  <2>2. w[h] >= v[h] /\ w[h] \in Nat
    BY <1>3
  <2> QED BY <1>6, <2>1, <2>2
<1>10. c.total >= b.total
  BY <1>1, <1>4, <1>6 DEF BookTyped
<1> QED BY <1>1, <1>5, <1>6, <1>7, <1>8, <1>9, <1>10 DEF BookOk

----------------------------------------------------------------------------
(* The term of a funded stage. *)

\* A record that has at least these fields.
Form(r, fields) == r = [f \in DOMAIN r |-> r[f]] /\ fields \subseteq DOMAIN r

ChallengeForm(c) ==
  Form(c, {"status", "owed", "sent", "before", "done", "payoutAt", "returnAt", "returned"})
FundedForm(f) == Form(f, {"start", "owed", "age"}) /\ f.age \in Ages(FundedTerm)

Forms ==
  /\ stage \in [Seats -> {"Idle", "Challenge", "PassedAwaitingKey", "Funded", "Closing"}]
  /\ sales \in [Seats -> Nat] /\ fundedKey \in [Seats -> Nat]
  /\ fundedSince \in [Seats -> Ages(FundedTerm)]
  /\ challenge = [s \in Seats |-> challenge[s]] /\ funded = [s \in Seats |-> funded[s]]
  /\ \A s \in Seats : ChallengeForm(challenge[s]) /\ FundedForm(funded[s])
  /\ seats \subseteq Seats

\* Until a challenge has passed its seat is the challenge's.
SeatFits(s) == challenge[s].status \in {"created", "active", "stopped"} => stage[s] = "Challenge"

\* A note is of no stage that has not begun yet, and of the one that runs it is no older.
NoteFits(s) ==
  /\ fundedKey[s] <= sales[s]
  /\ stage[s] \in {"Challenge", "PassedAwaitingKey"} => fundedSince[s] = Unset \/ fundedKey[s] # sales[s]
  /\ stage[s] = "Funded" =>
       /\ funded[s].age # Unset
       /\ fundedSince[s] # Unset /\ fundedKey[s] = sales[s] => fundedSince[s] <= funded[s].age

TermInv == Forms /\ \A s \in Seats : SeatFits(s) /\ NoteFits(s)

LEMMA TermIsNat == FundedTerm \in Nat /\ FundedTerm > 0 /\ Ages(FundedTerm) = -1..FundedTerm
BY SeatsAssumption DEF Ages, Unset

LEMMA InitTermInv == Init => TermInv
<1> SUFFICES ASSUME Init PROVE TermInv
  OBVIOUS
<1>1. Forms
  BY TermIsNat DEF Init, SeatsInit, Forms, ChallengeForm, FundedForm, Form, NoChallenge, NotFunded, Unset
<1>2. \A s \in Seats : stage[s] = "Idle" /\ challenge[s].status = "none" /\ fundedKey[s] = 0 /\ sales[s] = 0
  BY DEF Init, SeatsInit, NoChallenge
<1> QED BY <1>1, <1>2 DEF TermInv, SeatFits, NoteFits

----------------------------------------------------------------------------
(* Steps on one seat. *)

\* What a step of one seat leaves of the others.
OnlySeat(s) ==
  /\ stage' = [stage EXCEPT ![s] = stage'[s]]
  /\ sales' = [sales EXCEPT ![s] = sales'[s]]
  /\ challenge' = [challenge EXCEPT ![s] = challenge'[s]]
  /\ funded' = [funded EXCEPT ![s] = funded'[s]]
  /\ fundedSince' = [fundedSince EXCEPT ![s] = fundedSince'[s]]
  /\ fundedKey' = [fundedKey EXCEPT ![s] = fundedKey'[s]]

SeatForms(s) ==
  /\ stage[s] \in {"Idle", "Challenge", "PassedAwaitingKey", "Funded", "Closing"}
  /\ sales[s] \in Nat /\ fundedKey[s] \in Nat /\ fundedSince[s] \in Ages(FundedTerm)
  /\ ChallengeForm(challenge[s]) /\ FundedForm(funded[s])

LEMMA SeatStep ==
  ASSUME TermInv, NEW s \in Seats, OnlySeat(s), seats' \subseteq Seats,
         SeatForms(s)', SeatFits(s)', NoteFits(s)'
  PROVE  TermInv'
<1>1. /\ stage' \in [Seats -> {"Idle", "Challenge", "PassedAwaitingKey", "Funded", "Closing"}]
      /\ sales' \in [Seats -> Nat] /\ fundedKey' \in [Seats -> Nat]
      /\ fundedSince' \in [Seats -> Ages(FundedTerm)]
  BY DEF TermInv, Forms, OnlySeat, SeatForms
<1>2. challenge' = [r \in Seats |-> challenge'[r]] /\ funded' = [r \in Seats |-> funded'[r]]
  BY DEF TermInv, Forms, OnlySeat
<1>3. \A r \in Seats \ {s} :
        /\ stage'[r] = stage[r] /\ sales'[r] = sales[r] /\ fundedKey'[r] = fundedKey[r]
        /\ fundedSince'[r] = fundedSince[r] /\ challenge'[r] = challenge[r] /\ funded'[r] = funded[r]
  BY DEF TermInv, Forms, OnlySeat
<1>4. Forms'
  BY <1>1, <1>2, <1>3 DEF TermInv, Forms, SeatForms
<1>5. \A r \in Seats \ {s} : SeatFits(r)' /\ NoteFits(r)'
  BY <1>3 DEF TermInv, SeatFits, NoteFits
<1> QED BY <1>4, <1>5 DEF TermInv

\* A step that leaves stages, sales and notes as they are, and starts no challenge.
LEMMA ChallengeStep ==
  ASSUME TermInv, NEW s \in Seats, UNCHANGED <<stage, sales, funded, fundedSince, fundedKey, seats>>,
         challenge' = [challenge EXCEPT ![s] = challenge'[s]], ChallengeForm(challenge[s])',
         challenge'[s].status \in {"created", "active", "stopped"} =>
           challenge[s].status \in {"created", "active", "stopped"}
  PROVE  TermInv'
<1>1. OnlySeat(s) /\ SeatForms(s)' /\ SeatFits(s)' /\ NoteFits(s)' /\ seats' \subseteq Seats
  BY DEF TermInv, Forms, OnlySeat, SeatForms, SeatFits, NoteFits
<1> QED BY <1>1, SeatStep

LEMMA SeatFacts ==
  ASSUME TermInv, NEW s \in Seats
  PROVE  SeatForms(s) /\ SeatFits(s) /\ NoteFits(s)
BY DEF TermInv, Forms, SeatForms

Notes == <<fundedSince, fundedKey, seats>>

LEMMA SeatCallKeeps ==
  ASSUME TermInv, NEW s \in Seats, SeatCall(s) \/ BuyChallenge(s), UNCHANGED Notes
  PROVE  TermInv'
<1> USE SeatFacts
<1>1. CASE Activate(s) \/ StopChallenge(s) \/ DrainChallenge(s) \/ PayTrader(s)
  <2>1. UNCHANGED <<stage, sales, funded, fundedSince, fundedKey, seats>>
    BY <1>1 DEF Activate, StopChallenge, DrainChallenge, PayTrader, Notes
  <2>2. /\ challenge' = [challenge EXCEPT ![s] = challenge'[s]] /\ ChallengeForm(challenge[s])'
        /\ challenge'[s].status \in {"created", "active", "stopped"} =>
             challenge[s].status \in {"created", "active", "stopped"}
    <3> DEFINE c == challenge[s]
    <3>1. ChallengeForm(c) /\ DOMAIN challenge = Seats
      BY DEF TermInv, Forms, SeatForms
    <3>2. CASE Activate(s)
      BY <3>1, <3>2 DEF Activate, ChallengeForm, Form
    <3>3. CASE StopChallenge(s)
      BY <3>1, <3>3 DEF StopChallenge, ChallengeForm, Form
    <3>4. CASE DrainChallenge(s)
      <4>1. PICK back : challenge' = [challenge EXCEPT ![s] = [c EXCEPT !.returnAt = back]]
        BY <3>4 DEF DrainChallenge
      <4> QED BY <3>1, <4>1 DEF ChallengeForm, Form
    <3>5. CASE PayTrader(s)
      <4>1. PICK pay, held, back : challenge' = [challenge EXCEPT ![s] = [c EXCEPT
              !.done = TRUE, !.sent = pay, !.before = held, !.payoutAt = 0, !.returnAt = back]]
        BY <3>5 DEF PayTrader
      <4> DEFINE d == [c EXCEPT !.done = TRUE, !.sent = pay, !.before = held, !.payoutAt = 0, !.returnAt = back]
      <4>2. ChallengeForm(d) /\ d.status = c.status
        BY <3>1 DEF ChallengeForm, Form
      <4> HIDE DEF d
      <4>3. challenge' = [challenge EXCEPT ![s] = d]
        BY <4>1 DEF d
      <4> QED BY <3>1, <4>2, <4>3
    <3> QED BY <1>1, <3>2, <3>3, <3>4, <3>5
  <2> QED BY <2>1, <2>2, ChallengeStep
<1>2. CASE Graduate(s)
  <2>1. OnlySeat(s) /\ stage'[s] = "PassedAwaitingKey" /\ challenge'[s].status = "passed"
          /\ UNCHANGED <<sales, funded, fundedSince, fundedKey, seats>> /\ ChallengeForm(challenge[s])'
    BY <1>2 DEF Graduate, OnlySeat, TermInv, Forms, ChallengeForm, Form, NoChallenge, Notes
  <2>2. stage[s] = "Challenge"
    BY <1>2 DEF Graduate, TermInv, SeatFits
  <2>3. SeatForms(s)' /\ SeatFits(s)' /\ NoteFits(s)' /\ seats' \subseteq Seats
    BY <2>1, <2>2 DEF TermInv, Forms, SeatForms, SeatFits, NoteFits
  <2> QED BY <2>1, <2>3, SeatStep
<1>3. CASE HandBack(s)
  <2>1. /\ OnlySeat(s) /\ ChallengeForm(challenge[s])' /\ stage'[s] \in {stage[s], "Idle"}
        /\ UNCHANGED <<sales, funded, fundedSince, fundedKey, seats>>
        /\ \/ challenge'[s].status = "none"
           \/ challenge'[s].status = challenge[s].status /\ stage' = stage
    <3> DEFINE c == challenge[s]
    <3>1. \/ /\ stage' = stage
             /\ \E returned, back : challenge' = [challenge EXCEPT ![s] = [c EXCEPT !.returned = returned, !.returnAt = back]]
          \/ /\ stage' = [stage EXCEPT ![s] = IF @ = "Challenge" THEN "Idle" ELSE @]
             /\ challenge' = [challenge EXCEPT ![s] = NoChallenge]
      <4> DEFINE held == spot[Challenge(s)]
                 left == c.returned # 0 /\ (held < c.returned \/ Waited(s))
      <4>1. CASE held # 0 /\ ~left
        BY <1>3, <4>1 DEF HandBack
      <4>2. CASE ~(held # 0 /\ ~left)
        BY <1>3, <4>2 DEF HandBack
      <4> QED BY <4>1, <4>2
    <3>2. ChallengeForm(c) /\ DOMAIN challenge = Seats /\ DOMAIN stage = Seats
      BY DEF TermInv, Forms, SeatForms
    <3>3. ChallengeForm(NoChallenge) /\ NoChallenge.status = "none"
      BY DEF ChallengeForm, Form, NoChallenge
    <3>4. /\ ChallengeForm(challenge'[s]) /\ stage'[s] \in {stage[s], "Idle"}
          /\ challenge'[s].status = "none" \/ (challenge'[s].status = c.status /\ stage' = stage)
          /\ challenge' = [challenge EXCEPT ![s] = challenge'[s]] /\ stage' = [stage EXCEPT ![s] = stage'[s]]
      <4>1. CASE stage' = stage
        <5>1. CASE \E returned, back : challenge' = [challenge EXCEPT ![s] = [c EXCEPT !.returned = returned, !.returnAt = back]]
          <6>1. PICK returned, back : challenge' = [challenge EXCEPT ![s] = [c EXCEPT !.returned = returned, !.returnAt = back]]
            BY <5>1
          <6>2. stage = [stage EXCEPT ![s] = stage[s]]
            BY DEF TermInv, Forms
          <6> QED BY <3>2, <4>1, <6>1, <6>2 DEF ChallengeForm, Form
        <5>2. CASE challenge' = [challenge EXCEPT ![s] = NoChallenge]
          <6>1. stage = [stage EXCEPT ![s] = stage[s]]
            BY DEF TermInv, Forms
          <6> QED BY <3>2, <3>3, <4>1, <5>2, <6>1
        <5> QED BY <3>1, <5>1, <5>2
      <4>2. CASE stage' # stage
        BY <3>1, <3>2, <3>3, <4>2
      <4> QED BY <4>1, <4>2
    <3>5. UNCHANGED <<sales, funded, fundedSince, fundedKey, seats>>
      BY <1>3 DEF HandBack, Notes
    <3> QED BY <3>4, <3>5 DEF OnlySeat, TermInv, Forms
  <2>2. SeatForms(s)' /\ SeatFits(s)' /\ NoteFits(s)' /\ seats' \subseteq Seats
    BY <2>1 DEF TermInv, Forms, SeatForms, SeatFits, NoteFits
  <2> QED BY <2>1, <2>2, SeatStep
<1>4. CASE OpenFundedStage(s)
  <2>1. /\ OnlySeat(s) /\ stage[s] = "PassedAwaitingKey" /\ stage'[s] = "Funded" /\ funded'[s].age = 0
        /\ FundedForm(funded[s])' /\ UNCHANGED <<sales, challenge, fundedSince, fundedKey, seats>>
    <3>1. \E start : funded' = [funded EXCEPT ![s] = [start |-> start, owed |-> 0, age |-> 0]]
      BY <1>4 DEF OpenFundedStage
    <3>2. \E start : funded'[s] = [start |-> start, owed |-> 0, age |-> 0]
      BY <3>1 DEF TermInv, Forms
    <3>3. funded'[s].age = 0 /\ FundedForm(funded'[s])
      BY <3>2, TermIsNat DEF FundedForm, Form, NotFunded
    <3>4. funded' = [funded EXCEPT ![s] = funded'[s]]
      BY <3>1 DEF TermInv, Forms
    <3> QED BY <1>4, <3>3, <3>4 DEF OpenFundedStage, OnlySeat, TermInv, Forms, Notes
  <2>2. SeatForms(s)' /\ SeatFits(s)' /\ NoteFits(s)' /\ seats' \subseteq Seats
    BY <2>1 DEF TermInv, Forms, SeatForms, SeatFits, NoteFits, Unset
  <2> QED BY <2>1, <2>2, SeatStep
<1>5. CASE AbandonFundedStage(s) \/ BreachFunded(s) \/ SettleFunded(s)
  <2>1. /\ OnlySeat(s) /\ stage[s] \in {"PassedAwaitingKey", "Funded", "Closing"} /\ stage'[s] \in {"Idle", "Closing"}
        /\ FundedForm(funded[s])' /\ UNCHANGED <<sales, challenge, fundedSince, fundedKey, seats>>
    <3>1. stage[s] \in {"PassedAwaitingKey", "Funded", "Closing"} /\ stage'[s] \in {"Idle", "Closing"}
            /\ stage' = [stage EXCEPT ![s] = stage'[s]]
            /\ UNCHANGED <<sales, challenge, fundedSince, fundedKey, seats>>
      BY <1>5 DEF AbandonFundedStage, BreachFunded, EndFunded, SettleFunded, TermInv, Forms, Notes
    <3> DEFINE Ended(f, d) ==
          \/ d = f \/ d = NotFunded
          \/ \E owed : d = [f EXCEPT !.owed = owed, !.age = Unset]
          \/ \E owed : d = [f EXCEPT !.owed = owed]
    <3>2. funded' = funded \/ \E d : funded' = [funded EXCEPT ![s] = d] /\ Ended(funded[s], d)
      <4>1. CASE AbandonFundedStage(s)
        BY <4>1 DEF AbandonFundedStage
      <4>2. CASE BreachFunded(s)
        BY <4>2 DEF BreachFunded, EndFunded
      <4>3. CASE SettleFunded(s)
        BY <4>3 DEF SettleFunded
      <4> QED BY <1>5, <4>1, <4>2, <4>3
    <3>3. PICK d : funded' = [funded EXCEPT ![s] = d] /\ Ended(funded[s], d)
      <4>1. funded = [funded EXCEPT ![s] = funded[s]]
        BY DEF TermInv, Forms
      <4> QED BY <3>2, <4>1
    <3>4. funded'[s] = d
      BY <3>3 DEF TermInv, Forms
    <3>5. FundedForm(funded[s]) /\ Unset \in Ages(FundedTerm)
      BY TermIsNat DEF SeatForms, Unset
    <3>6. FundedForm(d)
      <4>1. CASE \E owed : d = [funded[s] EXCEPT !.owed = owed, !.age = Unset]
        BY <3>5, <4>1 DEF FundedForm, Form, NotFunded
      <4>2. CASE \E owed : d = [funded[s] EXCEPT !.owed = owed]
        BY <3>5, <4>2 DEF FundedForm, Form, NotFunded
      <4>3. CASE d = NotFunded
        BY <3>5, <4>3 DEF FundedForm, Form, NotFunded
      <4> QED BY <3>3, <3>5, <4>1, <4>2, <4>3
    <3> QED BY <3>3, <3>4, <3>6, <3>1, <3>2 DEF OnlySeat, TermInv, Forms
  <2>2. SeatForms(s)' /\ SeatFits(s)' /\ NoteFits(s)' /\ seats' \subseteq Seats
    BY <2>1 DEF TermInv, Forms, SeatForms, SeatFits, NoteFits
  <2> QED BY <2>1, <2>2, SeatStep
<1>6. CASE BuyChallenge(s)
  <2>1. /\ OnlySeat(s) /\ stage'[s] = "Challenge" /\ sales'[s] = sales[s] + 1 /\ ChallengeForm(challenge[s])'
        /\ UNCHANGED <<funded, fundedSince, fundedKey, seats>>
    BY <1>6 DEF BuyChallenge, OnlySeat, TermInv, Forms, ChallengeForm, Form, NoChallenge, Notes
  <2>2. SeatForms(s)' /\ SeatFits(s)' /\ NoteFits(s)' /\ seats' \subseteq Seats
    BY <2>1 DEF TermInv, Forms, SeatForms, SeatFits, NoteFits
  <2> QED BY <2>1, <2>2, SeatStep
<1> QED BY <1>1, <1>2, <1>3, <1>4, <1>5, <1>6 DEF SeatCall

----------------------------------------------------------------------------
(* The shared pool's own steps, and time. *)

LEMMA NoteKeeps ==
  ASSUME TermInv, NEW noted \in SUBSET Seats, Note(noted), UNCHANGED <<stage, sales, challenge, funded, seats>>
  PROVE  TermInv'
<1>1. \A s \in Seats :
        /\ fundedSince'[s] \in Ages(FundedTerm) /\ fundedKey'[s] \in Nat
        /\ SeatFits(s)' /\ NoteFits(s)'
  <2> SUFFICES ASSUME NEW s \in Seats
               PROVE  /\ fundedSince'[s] \in Ages(FundedTerm) /\ fundedKey'[s] \in Nat
                      /\ SeatFits(s)' /\ NoteFits(s)'
    OBVIOUS
  <2>1. SeatForms(s) /\ SeatFits(s) /\ NoteFits(s)
    BY SeatFacts
  <2>2. /\ fundedSince'[s] = IF s \in noted THEN Noted(s).since ELSE fundedSince[s]
        /\ fundedKey'[s] = IF s \in noted THEN Noted(s).key ELSE fundedKey[s]
    BY DEF Note
  <2>3. \/ fundedSince'[s] = fundedSince[s] /\ fundedKey'[s] = fundedKey[s]
        \/ stage[s] # "Funded" /\ fundedSince'[s] = Unset /\ fundedKey'[s] = 0
        \/ stage[s] = "Funded" /\ fundedSince'[s] = 0 /\ fundedKey'[s] = sales[s]
    BY <2>2 DEF Noted
  <2> QED BY <2>1, <2>3, TermIsNat DEF SeatForms, SeatFits, NoteFits, FundedForm, Unset
<1>2. Forms'
  BY <1>1 DEF TermInv, Forms, Note
<1> QED BY <1>1, <1>2 DEF TermInv

LEMMA EndFundedTermKeeps ==
  ASSUME TermInv, NEW s \in Seats, EndFundedTerm(s)
  PROVE  TermInv'
<1>1. /\ stage[s] = "Funded" /\ stage' = [stage EXCEPT ![s] = "Closing"]
      /\ funded' = [funded EXCEPT ![s].owed = Untaken, ![s].age = Unset]
      /\ fundedSince' = [fundedSince EXCEPT ![s] = Unset] /\ fundedKey' = [fundedKey EXCEPT ![s] = 0]
      /\ UNCHANGED <<sales, challenge, seats>>
  BY DEF EndFundedTerm, StopFunded, EndFunded
<1>2. OnlySeat(s) /\ SeatForms(s)'
  <2>1. OnlySeat(s)
    BY <1>1 DEF OnlySeat, TermInv, Forms
  <2>2. funded'[s] = [funded[s] EXCEPT !.owed = Untaken, !.age = Unset] /\ FundedForm(funded[s]) /\ Unset \in Ages(FundedTerm)
    BY <1>1, SeatFacts, TermIsNat DEF TermInv, Forms, SeatForms, Unset
  <2>3. FundedForm(funded'[s])
    BY <2>2 DEF FundedForm, Form, NotFunded
  <2>4. stage'[s] = "Closing" /\ fundedKey'[s] = 0 /\ fundedSince'[s] = Unset /\ sales'[s] = sales[s] /\ challenge'[s] = challenge[s]
    BY <1>1 DEF TermInv, Forms
  <2> QED BY <2>1, <2>2, <2>3, <2>4, SeatFacts DEF SeatForms
<1>3. SeatFits(s)' /\ NoteFits(s)' /\ seats' \subseteq Seats
  BY <1>1, SeatFacts DEF SeatForms, SeatFits, NoteFits, TermInv, Forms
<1> QED BY <1>2, <1>3, SeatStep

LEMMA AgedToType ==
  ASSUME NEW i \in Ages(FundedTerm), NEW j \in Ages(FundedTerm)
  PROVE  /\ AgedTo(i, FundedTerm) \in Ages(FundedTerm)
         /\ i = Unset <=> AgedTo(i, FundedTerm) = Unset
         /\ i <= j => AgedTo(i, FundedTerm) <= AgedTo(j, FundedTerm) \/ i = Unset
BY TermIsNat DEF AgedTo, Unset

LEMMA TickKeeps == TermInv /\ Tick => TermInv'
<1> SUFFICES ASSUME TermInv, Tick PROVE TermInv'
  OBVIOUS
<1>1. UNCHANGED <<stage, sales, fundedKey, seats>>
  BY DEF Tick, SeatsTick
<1>2. \A s \in Seats :
        /\ ChallengeForm(challenge[s])' /\ challenge'[s].status = challenge[s].status
        /\ FundedForm(funded[s])' /\ funded'[s].age = AgedTo(funded[s].age, FundedTerm)
        /\ fundedSince'[s] = AgedTo(fundedSince[s], FundedTerm) /\ fundedSince'[s] \in Ages(FundedTerm)
  <2> SUFFICES ASSUME NEW s \in Seats
               PROVE  /\ ChallengeForm(challenge[s])' /\ challenge'[s].status = challenge[s].status
                      /\ FundedForm(funded[s])' /\ funded'[s].age = AgedTo(funded[s].age, FundedTerm)
                      /\ fundedSince'[s] = AgedTo(fundedSince[s], FundedTerm) /\ fundedSince'[s] \in Ages(FundedTerm)
    OBVIOUS
  <2>1. PICK at, back : challenge'[s] = [challenge[s] EXCEPT !.payoutAt = at, !.returnAt = back]
    BY DEF Tick, SeatsTick
  <2>2. funded'[s] = [funded[s] EXCEPT !.age = AgedTo(@, FundedTerm)]
    BY DEF Tick, SeatsTick
  <2>3. ChallengeForm(challenge[s]) /\ FundedForm(funded[s]) /\ fundedSince[s] \in Ages(FundedTerm)
    BY SeatFacts DEF SeatForms
  <2>4. ChallengeForm(challenge'[s]) /\ challenge'[s].status = challenge[s].status
    BY <2>1, <2>3 DEF ChallengeForm, Form, NoChallenge
  <2>5. AgedTo(funded[s].age, FundedTerm) \in Ages(FundedTerm) /\ AgedTo(fundedSince[s], FundedTerm) \in Ages(FundedTerm)
    BY <2>3, AgedToType DEF FundedForm
  <2>6. FundedForm(funded'[s]) /\ funded'[s].age = AgedTo(funded[s].age, FundedTerm)
    BY <2>2, <2>3, <2>5 DEF FundedForm, Form, NotFunded
  <2>7. fundedSince'[s] = AgedTo(fundedSince[s], FundedTerm)
    BY DEF Tick
  <2> QED BY <2>4, <2>5, <2>6, <2>7
<1>3. Forms'
  BY <1>1, <1>2 DEF Tick, SeatsTick, TermInv, Forms
<1>4. \A s \in Seats : SeatFits(s)' /\ NoteFits(s)'
  BY <1>1, <1>2, AgedToType DEF TermInv, Forms, FundedForm, SeatFits, NoteFits
<1> QED BY <1>3, <1>4 DEF TermInv

LEMMA NextTermInv == TermInv /\ [Next]_vars => TermInv'
<1> SUFFICES ASSUME TermInv, [Next]_vars PROVE TermInv'
  OBVIOUS
<1>0. seats \subseteq Seats
  BY DEF TermInv, Forms
<1>1. CASE Start \/ Seal \/ (\E s \in Seats : AddSeat(s) \/ ArmSeat(s) \/ ReleaseSeat(s) \/ Collect(s))
           \/ (\E h \in Holders, n \in Requests : RequestRedeem(h, n))
           \/ (\E t \in Tickets : OpenTicket(t) \/ Transfer(t))
  <2>1. UNCHANGED <<stage, sales, challenge, funded, fundedSince, fundedKey>> /\ seats' \subseteq Seats
    BY <1>0, <1>1 DEF Start, Seal, AddSeat, ArmSeat, ReleaseSeat, Collect, RequestRedeem, OpenTicket, Transfer, seatVars,
       poolVars, termVars
  <2> QED BY <2>1 DEF TermInv, Forms, SeatFits, NoteFits
<1>2. ASSUME NEW s \in Seats, NoteFunded(s) PROVE TermInv'
  <2>1. {s} \in SUBSET Seats /\ UNCHANGED <<stage, sales, challenge, funded, seats>> /\ Note({s})
    BY <1>2 DEF NoteFunded, seatVars
  <2> QED BY <2>1, NoteKeeps
<1>3. ASSUME NEW s \in Seats, EndFundedTerm(s) PROVE TermInv'
  BY <1>3, EndFundedTermKeeps
<1>4. ASSUME NEW named, Settle(named) PROVE TermInv'
  <2>1. seats \in SUBSET Seats /\ UNCHANGED <<stage, sales, challenge, funded, seats>> /\ Note(seats)
    BY <1>0, <1>4 DEF Settle
  <2> QED BY <2>1, NoteKeeps
<1>5. CASE Elsewhere /\ UNCHANGED poolVars
  <2>1. UNCHANGED Notes
    BY <1>5 DEF poolVars, Notes
  <2>2. CASE EndBlock \/ \E a \in Traded : Trade(a) \/ Flat(a)
    <3>1. UNCHANGED <<stage, sales, challenge, funded>>
      BY <2>2 DEF EndBlock, Trade, Flat, seatVars
    <3> QED BY <2>1, <3>1 DEF TermInv, Forms, SeatFits, NoteFits, Notes
  <2>3. ASSUME NEW s \in seats, SeatCall(s) \/ BuyChallenge(s) PROVE TermInv'
    BY <1>0, <2>1, <2>3, SeatCallKeeps
  <2> QED BY <1>5, <2>2, <2>3 DEF Elsewhere
<1>6. CASE UNCHANGED vars
  BY <1>6 DEF vars, TermInv, Forms, SeatFits, NoteFits
<1> QED BY <1>1, <1>2, <1>3, <1>4, <1>5, <1>6, TickKeeps DEF Next

----------------------------------------------------------------------------

\* A stage ends by a breach, or by its term.
LEMMA OnlyTermEnds ==
  ASSUME TermInv, Next, NEW s \in Seats, stage[s] = "Funded", stage'[s] = "Closing", ~RuleBroken(s)
  PROVE  EndFundedTerm(s)
<1>1. stage' # stage
  OBVIOUS
<1>2. ASSUME NEW r \in Seats, SeatCall(r) \/ BuyChallenge(r) PROVE FALSE
  <2>1. stage' = [stage EXCEPT ![r] = stage'[r]] /\ stage \in [Seats -> {"Idle", "Challenge", "PassedAwaitingKey", "Funded", "Closing"}]
    BY <1>1, <1>2 DEF SeatCall, BuyChallenge, Activate, StopChallenge, Graduate, DrainChallenge, PayTrader, HandBack,
       OpenFundedStage, AbandonFundedStage, BreachFunded, EndFunded, SettleFunded, TermInv, Forms
  <2>2. r = s
    BY <2>1
  <2> QED BY <1>2, <2>1, <2>2 DEF SeatCall, BuyChallenge, Activate, StopChallenge, Graduate, DrainChallenge, PayTrader, HandBack,
       OpenFundedStage, AbandonFundedStage, BreachFunded, EndFunded, SettleFunded, TermInv, SeatFits
<1>3. ASSUME NEW r \in Seats, EndFundedTerm(r) PROVE r = s
  BY <1>3 DEF EndFundedTerm, StopFunded, EndFunded, TermInv, Forms
<1>4. ~Tick /\ ~Start /\ ~Seal /\ (\A named : ~Settle(named)) /\ ~EndBlock /\ (\A a \in Traded : ~Trade(a) /\ ~Flat(a))
  BY <1>1 DEF Tick, SeatsTick, Start, Seal, Settle, EndBlock, Trade, Flat, seatVars
<1>5. /\ \A r \in Seats : ~AddSeat(r) /\ ~ArmSeat(r) /\ ~ReleaseSeat(r) /\ ~Collect(r) /\ ~NoteFunded(r)
      /\ \A h \in Holders, n \in Requests : ~RequestRedeem(h, n)
      /\ \A t \in Tickets : ~OpenTicket(t) /\ ~Transfer(t)
  BY <1>1 DEF AddSeat, ArmSeat, ReleaseSeat, Collect, NoteFunded, RequestRedeem, OpenTicket, Transfer, seatVars
<1>6. seats \subseteq Seats
  BY DEF TermInv, Forms
<1> QED BY <1>2, <1>3, <1>4, <1>5, <1>6 DEF Next, Elsewhere

\* The term ends only a funded stage that has run it, however long nobody noted it and however
\* many stages of the seat went before it (endFundedTerm, _noteFunded).
THEOREM TermAlwaysItsOwn == Spec => TermIsItsOwn
<1>1. TermInv /\ [Next]_vars =>
        [\A s \in Seats : fundedSince[s] # Unset /\ stage[s] = "Funded" /\ stage'[s] = "Closing"
                            /\ ~RuleBroken(s) => funded[s].age >= FundedTerm]_vars
  <2> SUFFICES ASSUME TermInv, Next, NEW s \in Seats, fundedSince[s] # Unset, stage[s] = "Funded",
                      stage'[s] = "Closing", ~RuleBroken(s)
               PROVE  funded[s].age >= FundedTerm
    BY DEF vars
  <2>1. EndFundedTerm(s)
    BY OnlyTermEnds
  <2>2. fundedKey[s] = sales[s] /\ fundedSince[s] >= FundedTerm
    BY <2>1, TermIsNat DEF EndFundedTerm, Noted
  <2>3. fundedSince[s] <= funded[s].age
    BY <2>2, SeatFacts DEF NoteFits
  <2>4. fundedSince[s] \in Ages(FundedTerm) /\ funded[s].age \in Ages(FundedTerm)
    BY SeatFacts DEF SeatForms, FundedForm
  <2> QED BY <2>2, <2>3, <2>4, TermIsNat
<1> QED BY <1>1, InitTermInv, NextTermInv, PTL DEF Spec, TermIsItsOwn

----------------------------------------------------------------------------
(* The money of the pool is whole numbers wherever it is, and so is its worth. *)

Actions == ({"send"} \X Accounts \X (Accounts \cup {Out}) \X Int) \cup ({"toPerp", "toSpot"} \X Traded \X Int)

ChallengeMoney(c) == c.owed \in Int /\ c.sent \in Int
FundedMoney(f) == f.start \in Int /\ f.owed \in Int

\* The money is whole numbers, wherever it is.
Money ==
  /\ spot \in [Accounts -> Int] /\ equity \in [Traded -> Int] /\ exists \subseteq Accounts
  /\ usdc \in Int /\ earned \in [Seats -> Int] /\ flight \in Seq(Actions)
  /\ \A s \in Seats : ChallengeMoney(challenge[s]) /\ FundedMoney(funded[s])
  /\ IsFiniteSet(seats) /\ listed \subseteq Tickets

\* Nothing has happened before the platform starts.
Fresh == spot[POOL] = Seed /\ flight = <<>> /\ seats = {} /\ \A t \in Tickets : tickets[t] = "None"

LedgerInv ==
  /\ TermInv /\ Money
  /\ Started \/ Fresh
  /\ BookOk(book, Locked)

LEMMA PoolNumbers ==
  /\ Capital \in Nat /\ FundedCapital \in Nat /\ TargetBps \in Nat /\ ShareChallengeBps \in Nat
  /\ ShareFundedBps \in Nat /\ Price \in Nat /\ NewAccountFee \in Nat /\ SpotPerPerp \in Nat /\ SpotPerPerp > 0
  /\ BPS \in Nat /\ BPS > 0 /\ Seed \in Nat /\ Seed > 0 /\ MinDeposit \in Nat
BY SeatsAssumption, UnitsAssumption, SharedPoolAssumption

LEMMA AllAccounts ==
  /\ POOL \in Accounts /\ Seats \subseteq Traded /\ Traded \subseteq Accounts /\ Tickets \subseteq Accounts
  /\ \A s \in Seats : Challenge(s) \in Traded
BY DEF Accounts, Traded, Challenges

LEMMA TicketsFinite == IsFiniteSet(Tickets)
<1>1. IsFiniteSet(1..TicketsEach)
  BY SharedPoolAssumption, FS_Interval
<1>2. IsFiniteSet(Holders \X (1..TicketsEach))
  BY <1>1, LedgerNumbers, FS_Product
<1> QED BY <1>2, SharedPoolAssumption, FS_Subset

LEMMA SeatMoney ==
  ASSUME Money, NEW s \in Seats
  PROVE  /\ spot[s] \in Int /\ equity[s] \in Int /\ spot[Challenge(s)] \in Int /\ equity[Challenge(s)] \in Int
         /\ earned[s] \in Int /\ ChallengeMoney(challenge[s]) /\ FundedMoney(funded[s])
         /\ OnHyperCore(s) \in Int /\ OnHyperCore(Challenge(s)) \in Int
<1>1. /\ spot[s] \in Int /\ equity[s] \in Int /\ spot[Challenge(s)] \in Int /\ equity[Challenge(s)] \in Int
      /\ earned[s] \in Int /\ ChallengeMoney(challenge[s]) /\ FundedMoney(funded[s])
  BY AllAccounts DEF Money
<1> QED BY <1>1, PoolNumbers DEF OnHyperCore

LEMMA ShareIsInt ==
  ASSUME NEW profit \in Int, NEW bps \in Nat
  PROVE  Share(profit, bps) \in Int
<1> DEFINE x == profit * bps * SpotPerPerp
<1>1. x \in Int
  BY PoolNumbers
<1> HIDE DEF x
<1>2. x \div BPS \in Int
  BY <1>1, PoolNumbers
<1> QED BY <1>2 DEF Share, x

LEMMA OwedIsInt ==
  ASSUME Money, NEW s \in Seats
  PROVE  OwedToTraders(s) \in Int
<1> DEFINE c == challenge[s]
           eq == equity[Challenge(s)]
           a == CASE stage[s] = "Funded" -> Share(equity[s] - funded[s].start, ShareFundedBps)
                  [] stage[s] = "Closing" /\ funded[s].owed = Untaken ->
                       Share(equity[s] - funded[s].start, ShareFundedBps)
                  [] stage[s] = "Closing" /\ funded[s].owed # Untaken -> funded[s].owed
                  [] OTHER -> 0
           b == CASE c.status = "passed" /\ ~c.done -> c.owed
                  [] c.status = "passed" /\ c.done -> IF PayoutOnItsWay(s) THEN c.sent ELSE 0
                  [] c.status = "active" /\ eq >= Target -> Share(eq - Capital, ShareChallengeBps)
                  [] OTHER -> 0
<1>1. OwedToTraders(s) = a + b
  BY DEF OwedToTraders
<1>2. /\ equity[s] \in Int /\ funded[s].start \in Int /\ funded[s].owed \in Int /\ eq \in Int
      /\ c.owed \in Int /\ c.sent \in Int
  BY SeatMoney DEF ChallengeMoney, FundedMoney
<1>3. Share(equity[s] - funded[s].start, ShareFundedBps) \in Int /\ Share(eq - Capital, ShareChallengeBps) \in Int
  <2>1. equity[s] - funded[s].start \in Int /\ eq - Capital \in Int
    BY <1>2, PoolNumbers
  <2> QED BY <2>1, PoolNumbers, ShareIsInt
<1>4. a \in Int
  <2>1. CASE stage[s] = "Funded"
    BY <1>3, <2>1
  <2>2. CASE stage[s] = "Closing" /\ funded[s].owed = Untaken
    BY <1>3, <2>2
  <2>3. CASE stage[s] = "Closing" /\ funded[s].owed # Untaken
    BY <1>2, <2>3
  <2>4. CASE stage[s] # "Funded" /\ stage[s] # "Closing"
    BY <2>4
  <2> QED BY <2>1, <2>2, <2>3, <2>4
<1>5. b \in Int
  <2>1. CASE c.status = "passed" /\ ~c.done
    BY <1>2, <2>1
  <2>2. CASE c.status = "passed" /\ c.done
    BY <1>2, <2>2
  <2>3. CASE c.status = "active" /\ eq >= Target
    BY <1>3, <2>3
  <2>4. CASE c.status # "passed" /\ ~(c.status = "active" /\ eq >= Target)
    BY <2>4
  <2> QED BY <2>1, <2>2, <2>3, <2>4
<1> HIDE DEF a, b
<1> QED BY <1>1, <1>4, <1>5

LEMMA SeatValueIsInt ==
  ASSUME Money, NEW s \in Seats
  PROVE  SeatValue(s) \in Int
<1> DEFINE x == IF challenge[s].status = "none" THEN 0 ELSE OnHyperCore(Challenge(s))
           e == earned[s] * SpotPerPerp
<1>1. x \in Int /\ e \in Int /\ OnHyperCore(s) \in Int
  BY SeatMoney, PoolNumbers
<1>2. OwedToTraders(s) \in Int
  BY OwedIsInt
<1>3. SeatValue(s) = (OnHyperCore(s) + (e - OwedToTraders(s))) + x
  BY DEF SeatValue
<1> HIDE DEF x, e
<1> QED BY <1>1, <1>2, <1>3

LEMMA SeatValuesAdd ==
  ASSUME NEW S, IsFiniteSet(S), NEW v, \A s \in S : v[s] = SeatValue(s)
  PROVE  SumOver(S, SeatValue) = Sum(v, S)
<1> DEFINE c(s) == CHOOSE x \in s : TRUE
           F(f) == f = [s \in SUBSET S |-> IF s = {} THEN 0 ELSE SeatValue(c(s)) + f[s \ {c(s)}]]
           total == (CHOOSE f : F(f))[S]
<1>1. SumOver(S, SeatValue) = total
  BY DEF SumOver, FoldSet, MapThenFoldSet
<1>2. \A f : SumFun(f, v, S) <=> F(f)
  <2>1. \A s \in SUBSET S : s # {} => v[c(s)] = SeatValue(c(s))
    OBVIOUS
  <2> QED BY <2>1 DEF SumFun
<1>3. PICK g : SumFun(g, v, S)
  BY SumFunExists
<1> HIDE DEF F
<1>4. F(CHOOSE f : F(f))
  BY <1>2, <1>3
<1>5. SumFun(CHOOSE f : F(f), v, S)
  BY <1>2, <1>4
<1> DEFINE k == CHOOSE f : F(f)
<1>6. SumFun(k, v, S)
  BY <1>5
<1> HIDE DEF k
<1>7. Sum(v, S) = k[S]
  BY <1>6, SumIs
<1> QED BY <1>1, <1>7 DEF k

\* What the pool is worth is a whole number, never below zero.
LEMMA ValueIsNat ==
  ASSUME Money, seats \subseteq Seats
  PROVE  Value \in Nat
<1> DEFINE of == [s \in seats |-> SeatValue(s)]
           a == SumOver(seats, SeatValue)
           b == SumOver(listed, LAMBDA t : spot[t])
           u == usdc * SpotPerPerp
           v == spot[POOL] + u + a + b
<1>1. a \in Int
  <2>1. \A s \in seats : of[s] = SeatValue(s) /\ of[s] \in Int
    BY SeatValueIsInt
  <2> HIDE DEF of
  <2>2. IsFiniteSet(seats)
    BY DEF Money
  <2>3. a = Sum(of, seats)
    BY <2>1, <2>2, SeatValuesAdd
  <2> QED BY <2>1, <2>2, <2>3, SumInt
<1>2. b \in Int
  <2>1. b = Sum(spot, listed)
    BY SumOverIs
  <2>2. IsFiniteSet(listed) /\ \A t \in listed : spot[t] \in Int
    BY TicketsFinite, FS_Subset, AllAccounts DEF Money
  <2> QED BY <2>1, <2>2, SumInt
<1>3. u \in Int /\ spot[POOL] \in Int
  BY PoolNumbers, AllAccounts DEF Money
<1>4. Value = IF v > 0 THEN v ELSE 0
  BY DEF Value
<1> HIDE DEF a, b, u
<1> QED BY <1>1, <1>2, <1>3, <1>4

----------------------------------------------------------------------------
(* What is sent, and how it lands. *)

Worlds == [spot : [Accounts -> Int], equity : [Traded -> Int], exists : SUBSET Accounts]

\* An action that lands leaves whole amounts on known accounts.
LEMMA LandKeeps ==
  ASSUME NEW w \in Worlds, NEW x \in Actions
  PROVE  Land(w, x) \in Worlds
<1> DEFINE a == x[2]
           fee == IF x[3] \in w.exists \cup {Out} THEN 0 ELSE NewAccountFee
<1>0. w.spot \in [Accounts -> Int] /\ w.equity \in [Traded -> Int] /\ w.exists \subseteq Accounts /\ fee \in Int
  BY PoolNumbers DEF Worlds
<1>1. CASE x[1] = "send" /\ a \in Accounts /\ x[3] \in Accounts \cup {Out} /\ x[4] \in Int
  <2>1. CASE w.spot[a] < x[4] + fee
    <3>1. Land(w, x) = w
      BY <1>1, <2>1 DEF Land
    <3> QED BY <3>1
  <2>2. CASE ~(w.spot[a] < x[4] + fee)
    <3> DEFINE after == [p \in Accounts |-> w.spot[p] - (IF p = a THEN x[4] + fee ELSE 0)
                                                      + (IF p = x[3] THEN x[4] ELSE 0)]
               there == w.exists \cup ({x[3]} \ {Out})
    <3>1. Land(w, x) = [w EXCEPT !.spot = after, !.exists = there]
      BY <1>0, <1>1, <2>2 DEF Land
    <3>2. after \in [Accounts -> Int]
      <4> SUFFICES ASSUME NEW p \in Accounts PROVE after[p] \in Int
        OBVIOUS
      <4> DEFINE out == IF p = a THEN x[4] + fee ELSE 0
                 in == IF p = x[3] THEN x[4] ELSE 0
      <4>1. out \in Int /\ in \in Int /\ w.spot[p] \in Int
        BY <1>0, <1>1
      <4>2. after[p] = w.spot[p] - out + in
        OBVIOUS
      <4> HIDE DEF out, in, after
      <4> QED BY <4>1, <4>2
    <3>3. there \subseteq Accounts
      BY <1>0, <1>1
    <3> HIDE DEF after, there
    <3>4. [w EXCEPT !.spot = after, !.exists = there] \in Worlds
      BY <3>2, <3>3 DEF Worlds
    <3> QED BY <3>1, <3>4
  <2> QED BY <2>1, <2>2
<1>2. CASE x[1] = "toPerp" /\ a \in Traded /\ x[3] \in Int
  <2>1. a \in Accounts /\ w.spot[a] - x[3] * SpotPerPerp \in Int /\ w.equity[a] + x[3] \in Int
    BY <1>0, <1>2, AllAccounts, PoolNumbers
  <2>2. Land(w, x) = w \/ Land(w, x) = [w EXCEPT !.spot[a] = @ - x[3] * SpotPerPerp, !.equity[a] = @ + x[3]]
    BY <1>2 DEF Land
  <2>3. [w EXCEPT !.spot[a] = @ - x[3] * SpotPerPerp, !.equity[a] = @ + x[3]] \in Worlds
    BY <1>0, <1>2, <2>1 DEF Worlds
  <2> QED BY <2>2, <2>3
<1>3. CASE x[1] = "toSpot" /\ a \in Traded /\ x[3] \in Int
  <2>1. a \in Accounts /\ w.spot[a] + x[3] * SpotPerPerp \in Int /\ w.equity[a] - x[3] \in Int
    BY <1>0, <1>3, AllAccounts, PoolNumbers
  <2>2. Land(w, x) = w \/ Land(w, x) = [w EXCEPT !.spot[a] = @ + x[3] * SpotPerPerp, !.equity[a] = @ - x[3]]
    BY <1>3 DEF Land
  <2>3. [w EXCEPT !.spot[a] = @ + x[3] * SpotPerPerp, !.equity[a] = @ - x[3]] \in Worlds
    BY <1>0, <1>3, <2>1 DEF Worlds
  <2> QED BY <2>2, <2>3
<1> QED BY <1>1, <1>2, <1>3 DEF Actions

\* So does all that was sent in a block, in order.
LEMMA EndBlockMoney ==
  ASSUME Money, EndBlock
  PROVE  spot' \in [Accounts -> Int] /\ equity' \in [Traded -> Int] /\ exists' \subseteq Accounts
<1> DEFINE D == DOMAIN flight
           base == [spot |-> spot, equity |-> equity, exists |-> exists]
           F(f) == f = [s \in SUBSET D |-> IF s = {} THEN base ELSE Land(f[s \ {Max(s)}], flight[Max(s)])]
           result == CHOOSE f : F(f)
           pick == [s \in SUBSET D |-> Max(s)]
           g == [p \in D \X Worlds |-> Land(p[2], flight[p[1]])]
           I == [s \in SUBSET D |-> Worlds]
<1>1. spot' = result[D].spot /\ equity' = result[D].equity /\ exists' = result[D].exists
  BY DEF EndBlock, FoldLeft, MapThenFoldSet
<1>2. D = 1..Len(flight) /\ Len(flight) \in Nat /\ IsFiniteSet(D) /\ \A i \in D : flight[i] \in Actions
  <2>1. flight \in Seq(Actions)
    BY DEF Money
  <2>2. D = 1..Len(flight) /\ Len(flight) \in Nat /\ \A i \in D : flight[i] \in Actions
    BY <2>1
  <2>3. IsFiniteSet(1..Len(flight))
    BY <2>2, FS_Interval
  <2> QED BY <2>2, <2>3
<1>3. Picks(pick, D)
  <2> SUFFICES ASSUME NEW s \in SUBSET D, s # {} PROVE pick[s] \in s
    BY DEF Picks
  <2>1. Max(s) \in s
    BY <1>2, GreatestIsOne
  <2> QED BY <2>1
<1>4. base \in I[{}]
  BY DEF Worlds, Money
<1>5. \A i \in D : \A w \in Worlds : g[<<i, w>>] = Land(w, flight[i]) /\ g[<<i, w>>] \in Worlds
  BY <1>2, LandKeeps
<1>6. PICK f : FoldFun(f, g, base, pick, D) /\ \A s \in SUBSET D : f[s] \in I[s]
  <2>1. \A s \in SUBSET D : s # {} => \A c \in I[s \ {pick[s]}] : g[<<pick[s], c>>] \in I[s]
    <3> SUFFICES ASSUME NEW s \in SUBSET D, s # {}, NEW c \in I[s \ {pick[s]}] PROVE g[<<pick[s], c>>] \in I[s]
      OBVIOUS
    <3>1. pick[s] \in D /\ c \in Worlds /\ I[s] = Worlds
      <4>1. pick[s] \in D
        BY <1>3 DEF Picks
      <4>2. s \ {pick[s]} \in SUBSET D
        OBVIOUS
      <4> HIDE DEF pick
      <4> QED BY <4>1, <4>2
    <3> HIDE DEF g, I, pick
    <3> QED BY <1>5, <3>1
  <2> HIDE DEF D, I, pick, g, base
  <2> QED BY <1>2, <1>3, <1>4, <2>1, FoldHolds
<1>7. \A s \in SUBSET D : f[s] \in Worlds
  BY <1>6
<1>8. F(f)
  <2>1. ASSUME NEW s \in SUBSET D
        PROVE  f[s] = IF s = {} THEN base ELSE Land(f[s \ {Max(s)}], flight[Max(s)])
    <3>1. f[s] = IF s = {} THEN base ELSE g[<<pick[s], f[s \ {pick[s]}]>>]
      BY <1>6 DEF FoldFun
    <3>2. CASE s # {}
      <4>1. pick[s] \in D /\ pick[s] = Max(s) /\ s \ {pick[s]} \in SUBSET D
        BY <1>3, <3>2 DEF Picks
      <4> HIDE DEF pick, g, base
      <4>2. g[<<pick[s], f[s \ {pick[s]}]>>] = Land(f[s \ {pick[s]}], flight[pick[s]])
        BY <1>5, <1>7, <4>1
      <4> QED BY <3>1, <3>2, <4>1, <4>2
    <3> HIDE DEF g, pick, base
    <3> QED BY <3>1, <3>2
  <2>2. f = [s \in SUBSET D |-> f[s]]
    BY <1>6 DEF FoldFun
  <2> HIDE DEF g, I, pick, base
  <2> QED BY <2>1, <2>2
<1>9. F(result)
  <2> HIDE DEF F
  <2> QED BY <1>8
<1> HIDE DEF result
<1>10. result[D] = f[D]
  <2> DEFINE Bad == {s \in SUBSET D : result[s] # f[s]}
  <2>1. SUFFICES ASSUME Bad # {} PROVE FALSE
    OBVIOUS
  <2>2. PICK s \in Bad : \A x \in s : s \ {x} \notin Bad
    <3>1. Bad \subseteq SUBSET D
      OBVIOUS
    <3> HIDE DEF Bad, F, D
    <3> QED BY <1>2, <2>1, <3>1, LeastOf
  <2>3. s \in SUBSET D /\ result[s] # f[s]
    OBVIOUS
  <2> HIDE DEF base
  <2>4. f[s] = IF s = {} THEN base ELSE Land(f[s \ {Max(s)}], flight[Max(s)])
    BY <1>8, <2>3
  <2>5. result[s] = IF s = {} THEN base ELSE Land(result[s \ {Max(s)}], flight[Max(s)])
    BY <1>9, <2>3
  <2> HIDE DEF F
  <2>6. s # {} /\ Max(s) \in s
    <3>1. s # {}
      BY <2>3, <2>4, <2>5
    <3> QED BY <1>2, <2>3, <3>1, GreatestIsOne
  <2>7. result[s \ {Max(s)}] = f[s \ {Max(s)}]
    BY <2>2, <2>3, <2>6
  <2> HIDE DEF Bad
  <2> QED BY <2>3, <2>4, <2>5, <2>7
<1>11. result[D] \in Worlds
  <2>1. D \in SUBSET D
    OBVIOUS
  <2> QED BY <1>7, <1>10, <2>1
<1> QED BY <1>1, <1>11 DEF Worlds

\* What is sent is a sequence of actions.
LEMMA SendIsAction ==
  /\ \A from \in Accounts, to \in Accounts \cup {Out}, n \in Int : SendUsdc(from, to, n) \in Seq(Actions)
  /\ \A a \in Traded, n \in Int : ToPerp(a, n) \in Seq(Actions) /\ ToSpot(a, n) \in Seq(Actions)
<1>1. ASSUME NEW from \in Accounts, NEW to \in Accounts \cup {Out}, NEW n \in Int
      PROVE  SendUsdc(from, to, n) \in Seq(Actions)
  <2> DEFINE x == <<"send", from, to, n>>
  <2>1. x \in Actions
    BY DEF Actions
  <2> HIDE DEF x
  <2>2. <<x>> \in Seq(Actions) /\ <<>> \in Seq(Actions)
    BY <2>1
  <2> QED BY <2>2 DEF SendUsdc, x
<1>2. ASSUME NEW a \in Traded, NEW n \in Int, NEW kind \in {"toPerp", "toSpot"}
      PROVE  <<<<kind, a, n>>>> \in Seq(Actions)
  <2> DEFINE x == <<kind, a, n>>
  <2>1. x \in Actions
    BY DEF Actions
  <2> HIDE DEF x
  <2>2. <<x>> \in Seq(Actions)
    BY <2>1
  <2> QED BY <2>2 DEF x
<1>3. <<>> \in Seq(Actions)
  OBVIOUS
<1> QED BY <1>1, <1>2, <1>3 DEF ToPerp, ToSpot

LEMMA SendKeeps ==
  ASSUME Money, NEW actions \in Seq(Actions), Send(actions)
  PROVE  flight' \in Seq(Actions)
<1>1. flight \in Seq(Actions) /\ flight' = flight \o actions
  BY DEF Money, Send
<1> QED BY <1>1, ConcatProperties

\* Sweeping the closed tickets sends one action each.
LEMMA SweepIsActions ==
  ASSUME Money, NEW kept, kept \subseteq Tickets
  PROVE  Sweep(kept) \in Seq(Actions)
<1> DEFINE W == Seq(Actions)
           pay(t) == SendUsdc(t, POOL, spot[t])
           c(s) == CHOOSE x \in s : TRUE
           F(f) == f = [s \in SUBSET kept |-> IF s = {} THEN <<>> ELSE f[s \ {c(s)}] \o pay(c(s))]
           result == CHOOSE f : F(f)
           pick == [s \in SUBSET kept |-> c(s)]
           g == [p \in kept \X W |-> p[2] \o pay(p[1])]
           I == [s \in SUBSET kept |-> W]
<1>1. Sweep(kept) = result[kept]
  BY DEF Sweep, FoldSet, MapThenFoldSet
<1>2. IsFiniteSet(kept) /\ \A t \in kept : pay(t) \in W
  <2>1. \A t \in kept : t \in Accounts /\ POOL \in Accounts \cup {Out} /\ spot[t] \in Int
    BY AllAccounts DEF Money
  <2>2. IsFiniteSet(kept)
    BY TicketsFinite, FS_Subset
  <2> QED BY <2>1, <2>2, SendIsAction
<1> HIDE DEF pay
<1>3. Picks(pick, kept)
  BY DEF Picks
<1>4. <<>> \in I[{}]
  OBVIOUS
<1>5. \A t \in kept : \A w \in W : g[<<t, w>>] = w \o pay(t) /\ g[<<t, w>>] \in W
  <2> SUFFICES ASSUME NEW t \in kept, NEW w \in W PROVE g[<<t, w>>] = w \o pay(t) /\ g[<<t, w>>] \in W
    OBVIOUS
  <2>1. g[<<t, w>>] = w \o pay(t)
    OBVIOUS
  <2>2. w \o pay(t) \in W
    BY <1>2, ConcatProperties
  <2> QED BY <2>1, <2>2
<1> HIDE DEF W
<1>6. PICK f : FoldFun(f, g, <<>>, pick, kept) /\ \A s \in SUBSET kept : f[s] \in I[s]
  <2>1. \A s \in SUBSET kept : s # {} => \A d \in I[s \ {pick[s]}] : g[<<pick[s], d>>] \in I[s]
    <3> SUFFICES ASSUME NEW s \in SUBSET kept, s # {}, NEW d \in I[s \ {pick[s]}] PROVE g[<<pick[s], d>>] \in I[s]
      OBVIOUS
    <3>1. pick[s] \in kept /\ d \in W /\ I[s] = W
      <4>1. pick[s] \in kept
        BY <1>3 DEF Picks
      <4>2. s \ {pick[s]} \in SUBSET kept
        OBVIOUS
      <4> HIDE DEF pick
      <4> QED BY <4>1, <4>2
    <3> HIDE DEF g, I, pick
    <3> QED BY <1>5, <3>1
  <2> HIDE DEF I, pick, g
  <2> QED BY <1>2, <1>3, <1>4, <2>1, FoldHolds
<1>7. \A s \in SUBSET kept : f[s] \in W
  BY <1>6
<1>8. F(f)
  <2>1. ASSUME NEW s \in SUBSET kept
        PROVE  f[s] = IF s = {} THEN <<>> ELSE f[s \ {c(s)}] \o pay(c(s))
    <3>1. f[s] = IF s = {} THEN <<>> ELSE g[<<pick[s], f[s \ {pick[s]}]>>]
      BY <1>6 DEF FoldFun
    <3>2. CASE s # {}
      <4>1. pick[s] \in kept /\ pick[s] = c(s) /\ s \ {pick[s]} \in SUBSET kept
        BY <1>3, <3>2 DEF Picks
      <4> HIDE DEF pick, g, c
      <4>2. g[<<pick[s], f[s \ {pick[s]}]>>] = f[s \ {pick[s]}] \o pay(pick[s])
        BY <1>5, <1>7, <4>1
      <4> QED BY <3>1, <3>2, <4>1, <4>2
    <3> HIDE DEF g, pick, c
    <3> QED BY <3>1, <3>2
  <2>2. f = [s \in SUBSET kept |-> f[s]]
    BY <1>6 DEF FoldFun
  <2> HIDE DEF g, I, pick, c
  <2> QED BY <2>1, <2>2
<1>9. F(result)
  <2> HIDE DEF F
  <2> QED BY <1>8
<1> HIDE DEF result
<1>10. result[kept] = f[kept]
  <2> DEFINE Bad == {s \in SUBSET kept : result[s] # f[s]}
  <2>1. SUFFICES ASSUME Bad # {} PROVE FALSE
    OBVIOUS
  <2>2. PICK s \in Bad : \A x \in s : s \ {x} \notin Bad
    <3>1. Bad \subseteq SUBSET kept
      OBVIOUS
    <3> HIDE DEF Bad, F
    <3> QED BY <1>2, <2>1, <3>1, LeastOf
  <2>3. s \in SUBSET kept /\ result[s] # f[s]
    OBVIOUS
  <2>4. f[s] = IF s = {} THEN <<>> ELSE f[s \ {c(s)}] \o pay(c(s))
    BY <1>8, <2>3
  <2>5. result[s] = IF s = {} THEN <<>> ELSE result[s \ {c(s)}] \o pay(c(s))
    BY <1>9, <2>3
  <2> HIDE DEF F
  <2>6. s # {} /\ c(s) \in s
    BY <2>3, <2>4, <2>5
  <2> HIDE DEF c
  <2>7. result[s \ {c(s)}] = f[s \ {c(s)}]
    BY <2>2, <2>3, <2>6
  <2> HIDE DEF Bad
  <2> QED BY <2>3, <2>4, <2>5, <2>7
<1>11. kept \in SUBSET kept
  OBVIOUS
<1> QED BY <1>1, <1>7, <1>10, <1>11 DEF W

----------------------------------------------------------------------------
(* A settlement point and the book. *)

MintedOf(S, price) == SumOver(S, LAMBDA t : Minted(price, spot[t]))

LEMMA MintedAdds ==
  ASSUME NEW S, IsFiniteSet(S), NEW price, NEW v, \A t \in S : v[t] = Minted(price, spot[t])
  PROVE  MintedOf(S, price) = Sum(v, S)
<1> DEFINE c(s) == CHOOSE x \in s : TRUE
           F(f) == f = [s \in SUBSET S |-> IF s = {} THEN 0 ELSE Minted(price, spot[c(s)]) + f[s \ {c(s)}]]
           total == (CHOOSE f : F(f))[S]
<1>1. MintedOf(S, price) = total
  BY DEF MintedOf, SumOver, FoldSet, MapThenFoldSet
<1>2. \A f : SumFun(f, v, S) <=> F(f)
  <2>1. \A s \in SUBSET S : s # {} => v[c(s)] = Minted(price, spot[c(s)])
    OBVIOUS
  <2> QED BY <2>1 DEF SumFun
<1>3. PICK g : SumFun(g, v, S)
  BY SumFunExists
<1> HIDE DEF F
<1>4. F(CHOOSE f : F(f))
  BY <1>2, <1>3
<1>5. SumFun(CHOOSE f : F(f), v, S)
  BY <1>2, <1>4
<1> DEFINE k == CHOOSE f : F(f)
<1>6. SumFun(k, v, S)
  BY <1>5
<1> HIDE DEF k
<1>7. Sum(v, S) = k[S]
  BY <1>6, SumIs
<1> QED BY <1>1, <1>7 DEF k

LEMMA WithDepositsKeeps ==
  ASSUME NEW b, NEW locked \in [Holders -> Nat], BookOk(b, locked), NEW price, PriceOk(price),
         NEW deposits, deposits \subseteq Tickets, \A t \in deposits : spot[t] \in Nat
  PROVE  /\ BookOk(WithDeposits(b, deposits, price), locked)
         /\ WithDeposits(b, deposits, price).queuedShares = b.queuedShares
<1> DEFINE of(h) == {t \in deposits : Depositor(t) = h}
           mint == [h \in Holders |-> MintedOf(of(h), price)]
           cost == [h \in Holders |-> SumOver(of(h), LAMBDA t : spot[t])]
           all == SumOver(Holders, LAMBDA h : mint[h])
           c == WithDeposits(b, deposits, price)
<1>1. c = [b EXCEPT !.shares = [h \in Holders |-> @[h] + mint[h]],
                    !.basis = [h \in Holders |-> @[h] + cost[h]],
                    !.total = @ + all]
  BY DEF WithDeposits, MintedOf
<1>2. all = Sum(mint, Holders)
  BY SumOverIs
<1>3. \A h \in Holders : mint[h] \in Nat /\ cost[h] \in Nat
  <2> SUFFICES ASSUME NEW h \in Holders PROVE mint[h] \in Nat /\ cost[h] \in Nat
    OBVIOUS
  <2> DEFINE S == of(h)
             v == [t \in S |-> Minted(price, spot[t])]
  <2>1. IsFiniteSet(S) /\ \A t \in S : spot[t] \in Nat
    <3>1. S \subseteq Tickets /\ \A t \in S : spot[t] \in Nat
      OBVIOUS
    <3> HIDE DEF S
    <3> QED BY <3>1, TicketsFinite, FS_Subset
  <2>2. mint[h] = MintedOf(S, price) /\ cost[h] = SumOver(S, LAMBDA t : spot[t])
    OBVIOUS
  <2> HIDE DEF S, mint, cost
  <2>3. \A t \in S : v[t] \in Nat /\ v[t] = Minted(price, spot[t])
    <3> SUFFICES ASSUME NEW t \in S PROVE Minted(price, spot[t]) \in Nat
      OBVIOUS
    <3> DEFINE x == spot[t]
               k == price.shares
               n == price.value
    <3>1. x \in Nat /\ k \in Nat /\ n \in Nat /\ n > 0
      BY <2>1 DEF PriceOk
    <3>2. Minted(price, spot[t]) = (x * k) \div n
      BY DEF Minted
    <3> HIDE DEF x, k, n
    <3>3. (x * k) \div n \in Nat
      BY <3>1, NatTimes, NatDiv
    <3> QED BY <3>2, <3>3
  <2> HIDE DEF v
  <2>4. mint[h] = Sum(v, S)
    BY <2>1, <2>2, <2>3, MintedAdds
  <2>5. SumOver(S, LAMBDA t : spot[t]) = Sum(spot, S)
    BY SumOverIs
  <2>6. Sum(v, S) \in Nat /\ Sum(spot, S) \in Nat
    BY <2>1, <2>3, SumOfNats
  <2> QED BY <2>2, <2>4, <2>5, <2>6
<1> HIDE DEF mint, cost, all, c
<1>4. c = WithMinted(b, mint, cost)
  BY <1>1, <1>2 DEF WithMinted
<1>5. BookOk(c, locked) /\ c.queuedShares = b.queuedShares
  BY <1>3, <1>4, DepositsKeep
<1> QED BY <1>5 DEF c

LEMMA LockedIs ==
  /\ Locked \in [Holders -> Nat] /\ \A h \in Holders \ {Platform} : Locked[h] = 0
  /\ Started => Locked[Platform] = Seed
  /\ ~Started => Locked[Platform] = 0
BY PoolNumbers, LedgerNumbers DEF Locked, Started

\* Once started it stays so: the platform's starting shares are always there.
LEMMA LockStays ==
  ASSUME Started, NEW locked, locked = Locked, NEW c, BookOk(c, locked), book' = c
  PROVE  BookOk(book, Locked)' /\ Started'
<1> DEFINE v == c.shares
<1>1. v \in [Holders -> Nat] /\ c.queued \in [Holders -> Nat] /\ c.total = Sum(v, Holders) /\ c.total \in Nat
        /\ c.queued[Platform] + locked[Platform] <= c.shares[Platform]
  BY LedgerNumbers DEF BookOk, BookTyped
<1>2. locked[Platform] = Seed /\ Seed > 0 /\ Seed \in Nat
  BY LockedIs, PoolNumbers
<1>3. v[Platform] >= Seed
  BY <1>1, <1>2, LedgerNumbers
<1>4. Sum(v, Holders) >= v[Platform]
  <2>1. \A h \in Holders : v[h] \in Nat
    BY <1>1
  <2> HIDE DEF v
  <2>2. v[Platform] <= Sum(v, Holders) /\ Sum(v, Holders) \in Nat /\ v[Platform] \in Nat
    BY <2>1, LedgerNumbers, SumOfNats
  <2> QED BY <2>2
<1>5. c.total > 0
  <2> HIDE DEF v
  <2>1. v[Platform] \in Nat
    BY <1>1, LedgerNumbers
  <2> QED BY <1>1, <1>2, <1>3, <1>4, <2>1
<1>6. Locked' = locked
  BY <1>5 DEF Locked, Started
<1> QED BY <1>5, <1>6 DEF Started

----------------------------------------------------------------------------
(* The calls on a seat and on its challenge leave the money whole. *)

\* A step of one seat.
LEMMA SeatMoneyStep ==
  ASSUME TermInv, Money, NEW s \in Seats, UNCHANGED <<spot, equity, usdc, seats, listed>>, exists' \subseteq Accounts,
         challenge' = [challenge EXCEPT ![s] = challenge'[s]], funded' = [funded EXCEPT ![s] = funded'[s]],
         earned' = [earned EXCEPT ![s] = earned'[s]], earned'[s] \in Int, flight' \in Seq(Actions),
         ChallengeMoney(challenge'[s]), FundedMoney(funded'[s])
  PROVE  Money'
<1>1. \A r \in Seats : /\ challenge'[r] = challenge[r] \/ r = s
                       /\ funded'[r] = funded[r] \/ r = s
  BY DEF TermInv, Forms
<1>2. \A r \in Seats : ChallengeMoney(challenge'[r]) /\ FundedMoney(funded'[r])
  BY <1>1 DEF Money
<1>3. earned' \in [Seats -> Int]
  BY DEF Money
<1> QED BY <1>2, <1>3 DEF Money, ChallengeMoney, FundedMoney

\* What a step of a seat that leaves a part of it alone leaves of it.
LEMMA SeatStays ==
  ASSUME TermInv, Money, NEW s \in Seats
  PROVE  /\ challenge = [challenge EXCEPT ![s] = challenge[s]] /\ funded = [funded EXCEPT ![s] = funded[s]]
         /\ earned = [earned EXCEPT ![s] = earned[s]] /\ earned[s] \in Int /\ flight \in Seq(Actions)
         /\ ChallengeMoney(challenge[s]) /\ FundedMoney(funded[s]) /\ exists \subseteq Accounts
         /\ ChallengeForm(challenge[s]) /\ FundedForm(funded[s])
         /\ DOMAIN challenge = Seats /\ DOMAIN funded = Seats /\ DOMAIN earned = Seats
BY DEF TermInv, Forms, Money

LEMMA TwoSends ==
  ASSUME Money, NEW a \in Traded, NEW n \in Int, NEW to \in Accounts \cup {Out}, NEW m \in Int
  PROVE  ToSpot(a, n) \o SendUsdc(a, to, m) \in Seq(Actions)
<1>1. ToSpot(a, n) \in Seq(Actions) /\ SendUsdc(a, to, m) \in Seq(Actions)
  BY SendIsAction, AllAccounts
<1> QED BY <1>1, ConcatProperties

LEMMA ChallengeCallMoney ==
  ASSUME TermInv, Money, NEW s \in Seats, UNCHANGED poolVars,
         Activate(s) \/ StopChallenge(s) \/ Graduate(s) \/ DrainChallenge(s) \/ PayTrader(s) \/ HandBack(s)
  PROVE  Money'
<1> DEFINE c == challenge[s]
           eq == equity[Challenge(s)]
           held == spot[Challenge(s)]
<1>1. UNCHANGED <<spot, equity, usdc, seats, listed, exists, funded>> /\ (UNCHANGED earned \/ Activate(s))
  BY DEF Activate, StopChallenge, Graduate, DrainChallenge, PayTrader, HandBack, coreVars, poolVars
<1>2. eq \in Int /\ held \in Int /\ earned[s] \in Int /\ c.owed \in Int /\ c.sent \in Int /\ Challenge(s) \in Traded
        /\ s \in Accounts
  BY SeatMoney, AllAccounts DEF ChallengeMoney
<1>3. ChallengeForm(c) /\ DOMAIN challenge = Seats /\ flight \in Seq(Actions)
  BY SeatStays
<1>4. /\ challenge' = [challenge EXCEPT ![s] = challenge'[s]] /\ ChallengeMoney(challenge'[s])
      /\ earned' = [earned EXCEPT ![s] = earned'[s]] /\ earned'[s] \in Int /\ flight' \in Seq(Actions)
  <2>1. CASE Activate(s)
    <3>1. challenge' = [challenge EXCEPT ![s] = challenge'[s]] /\ ChallengeMoney(challenge'[s])
      BY <1>2, <1>3, <2>1 DEF Activate, ChallengeForm, Form, ChallengeMoney
    <3>2. earned' = [earned EXCEPT ![s] = earned'[s]] /\ earned'[s] \in Int
      <4>1. earned' = [earned EXCEPT ![s] = earned[s] + Price] /\ DOMAIN earned = Seats
        BY <2>1, SeatStays DEF Activate
      <4>2. earned[s] + Price \in Int
        BY <1>2, PoolNumbers
      <4> QED BY <4>1, <4>2
    <3>3. ToPerp(Challenge(s), Capital) \in Seq(Actions) /\ Send(ToPerp(Challenge(s), Capital))
      BY <1>2, <2>1, SendIsAction, PoolNumbers DEF Activate
    <3>4. flight' \in Seq(Actions)
      BY <3>3, SendKeeps
    <3> QED BY <3>1, <3>2, <3>4
  <2>2. CASE StopChallenge(s)
    <3>1. challenge' = [challenge EXCEPT ![s] = challenge'[s]] /\ ChallengeMoney(challenge'[s])
      BY <1>2, <1>3, <2>2 DEF StopChallenge, ChallengeForm, Form, ChallengeMoney
    <3>2. UNCHANGED <<earned, flight>>
      BY <2>2 DEF StopChallenge
    <3> QED BY <3>1, <3>2, SeatStays
  <2>3. CASE Graduate(s)
    <3> DEFINE share == Share(eq - Capital, ShareChallengeBps)
    <3>1. share \in Int
      <4>1. eq - Capital \in Int
        BY <1>2, PoolNumbers
      <4> QED BY <4>1, PoolNumbers, ShareIsInt
    <3>2. challenge' = [challenge EXCEPT ![s].status = "passed", ![s].owed = share]
      BY <2>3 DEF Graduate
    <3> HIDE DEF share
    <3>3. challenge' = [challenge EXCEPT ![s] = challenge'[s]] /\ ChallengeMoney(challenge'[s])
      BY <1>2, <1>3, <3>1, <3>2 DEF ChallengeForm, Form, ChallengeMoney
    <3>4. UNCHANGED <<earned, flight>>
      BY <2>3 DEF Graduate
    <3> QED BY <3>3, <3>4, SeatStays
  <2>4. CASE DrainChallenge(s)
    <3>1. PICK back : challenge' = [challenge EXCEPT ![s] = [c EXCEPT !.returnAt = back]]
      BY <2>4 DEF DrainChallenge
    <3>2. challenge' = [challenge EXCEPT ![s] = challenge'[s]] /\ ChallengeMoney(challenge'[s])
      BY <1>2, <1>3, <3>1 DEF ChallengeForm, Form, ChallengeMoney
    <3>3. ToSpot(Challenge(s), eq) \in Seq(Actions) /\ Send(ToSpot(Challenge(s), eq))
      BY <1>2, <2>4, SendIsAction DEF DrainChallenge
    <3>4. flight' \in Seq(Actions)
      BY <3>3, SendKeeps
    <3>5. UNCHANGED earned
      BY <2>4 DEF DrainChallenge
    <3> QED BY <3>2, <3>4, <3>5, SeatStays
  <2>5. CASE PayTrader(s)
    <3> DEFINE pay == IF held < c.owed THEN held ELSE c.owed
    <3>1. pay \in Int
      BY <1>2
    <3>2. PICK back : challenge' = [challenge EXCEPT ![s] = [c EXCEPT
            !.done = TRUE, !.sent = pay, !.before = held, !.payoutAt = 0, !.returnAt = back]]
      BY <2>5 DEF PayTrader
    <3>3. Send(ToSpot(Challenge(s), eq) \o SendUsdc(Challenge(s), Out, pay)) /\ UNCHANGED earned
      BY <2>5 DEF PayTrader
    <3> HIDE DEF pay
    <3> DEFINE d == [c EXCEPT !.done = TRUE, !.sent = pay, !.before = held, !.payoutAt = 0, !.returnAt = back]
    <3>4. d.owed \in Int /\ d.sent \in Int
      BY <1>2, <1>3, <3>1 DEF ChallengeForm, Form
    <3> HIDE DEF d
    <3>5. challenge' = [challenge EXCEPT ![s] = d]
      BY <3>2 DEF d
    <3>6. challenge' = [challenge EXCEPT ![s] = challenge'[s]] /\ ChallengeMoney(challenge'[s])
      BY <1>3, <3>4, <3>5 DEF ChallengeMoney
    <3>7. ToSpot(Challenge(s), eq) \o SendUsdc(Challenge(s), Out, pay) \in Seq(Actions)
      BY <1>2, <3>1, TwoSends
    <3>8. flight' \in Seq(Actions)
      BY <3>3, <3>7, SendKeeps
    <3> QED BY <3>3, <3>6, <3>8, SeatStays
  <2>6. CASE HandBack(s)
    <3>1. Send(ToSpot(Challenge(s), eq) \o SendUsdc(Challenge(s), s, held)) /\ UNCHANGED earned
      BY <2>6 DEF HandBack
    <3>2. ToSpot(Challenge(s), eq) \o SendUsdc(Challenge(s), s, held) \in Seq(Actions)
      BY <1>2, TwoSends
    <3>3. flight' \in Seq(Actions)
      BY <3>1, <3>2, SendKeeps
    <3>4. challenge' = [challenge EXCEPT ![s] = challenge'[s]] /\ ChallengeMoney(challenge'[s])
      <4> DEFINE left == c.returned # 0 /\ (held < c.returned \/ Waited(s))
      <4>1. CASE held # 0 /\ ~left
        <5>1. PICK returned, back : challenge' = [challenge EXCEPT ![s] = [c EXCEPT !.returned = returned, !.returnAt = back]]
          BY <2>6, <4>1 DEF HandBack
        <5> QED BY <1>2, <1>3, <5>1 DEF ChallengeForm, Form, ChallengeMoney
      <4>2. CASE ~(held # 0 /\ ~left)
        <5>1. challenge' = [challenge EXCEPT ![s] = NoChallenge]
          BY <2>6, <4>2 DEF HandBack
        <5>2. NoChallenge.owed = 0 /\ NoChallenge.sent = 0
          BY DEF NoChallenge
        <5> QED BY <1>3, <5>1, <5>2 DEF ChallengeMoney
      <4> QED BY <4>1, <4>2
    <3> QED BY <3>1, <3>3, <3>4, SeatStays
  <2> QED BY <2>1, <2>2, <2>3, <2>4, <2>5, <2>6
<1> QED BY <1>1, <1>4, SeatStays, SeatMoneyStep

LEMMA StageCallMoney ==
  ASSUME TermInv, Money, NEW s \in Seats, UNCHANGED <<usdc, seats, listed>>,
         \/ BuyChallenge(s) \/ OpenFundedStage(s) \/ AbandonFundedStage(s)
         \/ (\E owed \in {0, Untaken} : EndFunded(s, owed)) \/ SettleFunded(s)
  PROVE  Money'
<1> DEFINE c == challenge[s]
           f == funded[s]
<1>1. UNCHANGED <<spot, equity, earned>>
  BY DEF BuyChallenge, OpenFundedStage, AbandonFundedStage, EndFunded, SettleFunded, coreVars
<1>2. spot[s] \in Int /\ equity[s] \in Int /\ f.start \in Int /\ f.owed \in Int /\ s \in Traded /\ s \in Accounts
        /\ Challenge(s) \in Accounts
  BY SeatMoney, AllAccounts DEF FundedMoney
<1>3. ChallengeForm(c) /\ FundedForm(f) /\ DOMAIN challenge = Seats /\ DOMAIN funded = Seats /\ flight \in Seq(Actions)
  BY SeatStays
<1>4. /\ challenge' = [challenge EXCEPT ![s] = challenge'[s]] /\ ChallengeMoney(challenge'[s])
      /\ funded' = [funded EXCEPT ![s] = funded'[s]] /\ FundedMoney(funded'[s])
      /\ exists' \subseteq Accounts /\ flight' \in Seq(Actions)
  <2>1. CASE BuyChallenge(s)
    <3> DEFINE n == Capital * SpotPerPerp
    <3>1. challenge' = [challenge EXCEPT ![s] = challenge'[s]] /\ ChallengeMoney(challenge'[s])
      <4>1. ChallengeMoney(c)
        BY SeatStays
      <4> QED BY <1>3, <2>1, <4>1 DEF BuyChallenge, ChallengeForm, Form, ChallengeMoney
    <3>2. exists' \subseteq Accounts /\ UNCHANGED funded /\ Send(SendUsdc(s, Challenge(s), n))
      BY <2>1, SeatStays DEF BuyChallenge
    <3>3. n \in Int
      BY PoolNumbers
    <3> HIDE DEF n
    <3>4. SendUsdc(s, Challenge(s), n) \in Seq(Actions)
      BY <1>2, <3>3, SendIsAction
    <3>5. flight' \in Seq(Actions)
      BY <3>2, <3>4, SendKeeps
    <3> QED BY <3>1, <3>2, <3>5, SeatStays
  <2>2. CASE OpenFundedStage(s)
    <3> DEFINE free == spot[s] \div SpotPerPerp
               usd == IF free < FundedCapital THEN free ELSE FundedCapital
               d == [start |-> equity[s] + usd, owed |-> 0, age |-> 0]
    <3>1. UNCHANGED <<challenge, exists>> /\ funded' = [funded EXCEPT ![s] = d] /\ Send(ToPerp(s, usd))
      BY <2>2 DEF OpenFundedStage, coreVars
    <3>2. usd \in Int
      BY <1>2, PoolNumbers
    <3> HIDE DEF usd
    <3>3. d.start \in Int /\ d.owed \in Int
      BY <1>2, <3>2
    <3> HIDE DEF d
    <3>4. funded' = [funded EXCEPT ![s] = funded'[s]] /\ FundedMoney(funded'[s])
      BY <1>3, <3>1, <3>3 DEF FundedMoney
    <3>5. ToPerp(s, usd) \in Seq(Actions)
      BY <1>2, <3>2, SendIsAction
    <3>6. flight' \in Seq(Actions)
      BY <3>1, <3>5, SendKeeps
    <3> QED BY <3>1, <3>4, <3>6, SeatStays
  <2>3. CASE AbandonFundedStage(s)
    <3>1. UNCHANGED <<challenge, funded, exists, flight>>
      BY <2>3 DEF AbandonFundedStage, coreVars
    <3> QED BY <3>1, SeatStays
  <2>4. CASE \E owed \in {0, Untaken} : EndFunded(s, owed)
    <3>1. PICK owed \in {0, Untaken} : EndFunded(s, owed)
      BY <2>4
    <3>2. UNCHANGED <<challenge, exists, flight>> /\ funded' = [funded EXCEPT ![s].owed = owed, ![s].age = Unset]
      BY <3>1 DEF EndFunded, coreVars
    <3>3. owed \in Int
      BY DEF Untaken
    <3>4. funded' = [funded EXCEPT ![s] = funded'[s]] /\ FundedMoney(funded'[s])
      BY <1>2, <1>3, <3>2, <3>3 DEF FundedForm, Form, FundedMoney
    <3> QED BY <3>2, <3>4, SeatStays
  <2>5. CASE SettleFunded(s)
    <3> DEFINE share == IF f.owed = Untaken THEN Share(equity[s] - f.start, ShareFundedBps) ELSE f.owed
               pay == IF spot[s] < share THEN spot[s] ELSE share
    <3>1. share \in Int /\ pay \in Int
      <4>1. equity[s] - f.start \in Int
        BY <1>2
      <4>2. Share(equity[s] - f.start, ShareFundedBps) \in Int
        BY <4>1, PoolNumbers, ShareIsInt
      <4>3. share \in Int
        BY <1>2, <4>2
      <4> HIDE DEF share
      <4> QED BY <1>2, <4>3
    <3>2. UNCHANGED <<challenge, exists>>
      BY <2>5 DEF SettleFunded, coreVars
    <3>3. \/ funded' = [funded EXCEPT ![s].owed = share] /\ Send(ToSpot(s, equity[s]))
          \/ funded' = [funded EXCEPT ![s].owed = 0] /\ Send(SendUsdc(s, Out, pay))
          \/ funded' = [funded EXCEPT ![s] = NotFunded] /\ UNCHANGED flight
      BY <2>5 DEF SettleFunded
    <3> HIDE DEF share, pay
    <3>4. funded' = [funded EXCEPT ![s] = funded'[s]] /\ FundedMoney(funded'[s])
      <4>1. NotFunded.start = 0 /\ NotFunded.owed = 0
        BY DEF NotFunded
      <4>2. CASE funded' = [funded EXCEPT ![s].owed = share]
        BY <1>2, <1>3, <3>1, <4>2 DEF FundedForm, Form, FundedMoney
      <4>3. CASE funded' = [funded EXCEPT ![s].owed = 0]
        BY <1>2, <1>3, <4>3 DEF FundedForm, Form, FundedMoney
      <4>4. CASE funded' = [funded EXCEPT ![s] = NotFunded]
        BY <1>3, <4>1, <4>4 DEF FundedMoney
      <4> QED BY <3>3, <4>2, <4>3, <4>4
    <3>5. ToSpot(s, equity[s]) \in Seq(Actions) /\ SendUsdc(s, Out, pay) \in Seq(Actions)
      BY <1>2, <3>1, SendIsAction
    <3>6. flight' \in Seq(Actions)
      BY <1>3, <3>3, <3>5, SendKeeps
    <3> QED BY <3>2, <3>4, <3>6, SeatStays
  <2> QED BY <2>1, <2>2, <2>3, <2>4, <2>5
<1> QED BY <1>1, <1>4, SeatStays, SeatMoneyStep

----------------------------------------------------------------------------
(* So do those on the pool, and a settlement point. *)

LEMMA SeatedMoney ==
  ASSUME TermInv, Money, NEW s \in Seats,
         \/ AddSeat(s) \/ ArmSeat(s) \/ ReleaseSeat(s) \/ Collect(s) \/ NoteFunded(s) \/ EndFundedTerm(s)
  PROVE  Money'
<1>1. CASE AddSeat(s)
  <2>1. seats' = seats \cup {s} /\ UNCHANGED <<coreVars, flight, seatVars, usdc, listed>>
    BY <1>1 DEF AddSeat, ticketVars
  <2>2. IsFiniteSet(seats)
    BY DEF Money
  <2>3. IsFiniteSet(seats')
    BY <2>1, <2>2, FS_AddElement
  <2> QED BY <2>1, <2>3 DEF Money, coreVars, seatVars
<1>2. CASE ArmSeat(s)
  <2> DEFINE n == CapitalNeeded - spot[s]
  <2>1. Send(SendUsdc(POOL, s, n)) /\ UNCHANGED <<coreVars, seatVars, usdc, seats, listed>>
    BY <1>2 DEF ArmSeat, ticketVars
  <2>2. n \in Int
    <3>1. CapitalNeeded \in Int
      BY PoolNumbers DEF CapitalNeeded
    <3> QED BY <3>1, SeatMoney
  <2> HIDE DEF n
  <2>3. SendUsdc(POOL, s, n) \in Seq(Actions)
    BY <2>2, SendIsAction, AllAccounts
  <2>4. flight' \in Seq(Actions)
    BY <2>1, <2>3, SendKeeps
  <2> QED BY <2>1, <2>4 DEF Money, coreVars, seatVars
<1>3. CASE ReleaseSeat(s)
  <2>1. Send(SendUsdc(s, POOL, spot[s])) /\ UNCHANGED <<coreVars, seatVars, poolVars>>
    BY <1>3 DEF ReleaseSeat
  <2>2. SendUsdc(s, POOL, spot[s]) \in Seq(Actions)
    BY SeatMoney, SendIsAction, AllAccounts
  <2>3. flight' \in Seq(Actions)
    BY <2>1, <2>2, SendKeeps
  <2> QED BY <2>1, <2>3 DEF Money, coreVars, seatVars, poolVars
<1>4. CASE Collect(s)
  <2>1. usdc' = usdc + earned[s] /\ earned' = [earned EXCEPT ![s] = 0]
          /\ UNCHANGED <<coreVars, flight, challenge, funded, seats, listed>>
    BY <1>4 DEF Collect, ticketVars
  <2>2. usdc' \in Int /\ earned' \in [Seats -> Int]
    BY <2>1, SeatMoney DEF Money
  <2> QED BY <2>1, <2>2 DEF Money, coreVars
<1>5. CASE NoteFunded(s)
  <2>1. UNCHANGED <<coreVars, flight, seatVars, usdc, seats, listed>>
    BY <1>5 DEF NoteFunded, ticketVars
  <2> QED BY <2>1 DEF Money, coreVars, seatVars
<1>6. CASE EndFundedTerm(s)
  <2>1. EndFunded(s, Untaken) /\ UNCHANGED <<usdc, seats, listed>>
    BY <1>6 DEF EndFundedTerm, StopFunded, ticketVars
  <2> QED BY <2>1, StageCallMoney
<1> QED BY <1>1, <1>2, <1>3, <1>4, <1>5, <1>6

LEMMA TicketMoney ==
  ASSUME Money, NEW t \in Tickets, OpenTicket(t) \/ Transfer(t)
  PROVE  Money'
<1>1. CASE OpenTicket(t)
  <2>1. UNCHANGED <<coreVars, flight, seatVars, usdc, seats, listed>>
    BY <1>1 DEF OpenTicket
  <2> QED BY <2>1 DEF Money, coreVars, seatVars
<1>2. CASE Transfer(t)
  <2>1. PICK amount \in (IF tickets[t] = "Open" THEN Deposits ELSE Gifts) : spot' = [spot EXCEPT ![t] = @ + amount]
    BY <1>2 DEF Transfer
  <2>2. exists' = exists \cup {t} /\ UNCHANGED <<equity, flight, seatVars, usdc, seats, listed>>
    BY <1>2 DEF Transfer, poolVars
  <2>3. amount \in Int /\ t \in Accounts /\ spot \in [Accounts -> Int] /\ exists \subseteq Accounts
    BY SharedPoolAssumption, AllAccounts, SMTT(30) DEF Money
  <2>4. spot' \in [Accounts -> Int] /\ exists' \subseteq Accounts
    BY <2>1, <2>2, <2>3
  <2> QED BY <2>2, <2>4 DEF Money, seatVars
<1> QED BY <1>1, <1>2

LEMMA TickMoney ==
  ASSUME TermInv, Money, Tick
  PROVE  Money'
<1>1. UNCHANGED <<coreVars, flight, earned, usdc, seats, listed>>
  BY DEF Tick, SeatsTick
<1>2. ASSUME NEW s \in Seats PROVE ChallengeMoney(challenge'[s]) /\ FundedMoney(funded'[s])
  <2>1. PICK at, back : challenge'[s] = [challenge[s] EXCEPT !.payoutAt = at, !.returnAt = back]
    BY DEF Tick, SeatsTick
  <2>2. PICK age : funded'[s] = [funded[s] EXCEPT !.age = age]
    BY DEF Tick, SeatsTick
  <2>3. ChallengeForm(challenge[s]) /\ FundedForm(funded[s]) /\ ChallengeMoney(challenge[s]) /\ FundedMoney(funded[s])
    BY SeatStays
  <2>4. ChallengeMoney(challenge'[s])
    BY <2>1, <2>3 DEF ChallengeForm, Form, ChallengeMoney
  <2>5. FundedMoney(funded'[s])
    BY <2>2, <2>3 DEF FundedForm, Form, FundedMoney
  <2> QED BY <2>4, <2>5
<1> QED BY <1>1, <1>2 DEF Money, coreVars, ChallengeMoney, FundedMoney

LEMMA ElsewhereMoney ==
  ASSUME TermInv, Money, Elsewhere, UNCHANGED poolVars
  PROVE  Money'
<1>1. CASE EndBlock
  <2>1. spot' \in [Accounts -> Int] /\ equity' \in [Traded -> Int] /\ exists' \subseteq Accounts
    BY <1>1, EndBlockMoney
  <2>2. flight' = <<>> /\ UNCHANGED <<earned, challenge, funded, usdc, seats, listed>>
    BY <1>1 DEF EndBlock, seatVars, poolVars
  <2>3. <<>> \in Seq(Actions)
    OBVIOUS
  <2> QED BY <2>1, <2>2, <2>3 DEF Money
<1>2. ASSUME NEW a \in Traded, Trade(a) PROVE Money'
  <2>1. PICK e \in {equity[a] - 1, equity[a] + 1} : equity' = [equity EXCEPT ![a] = e]
    BY <1>2 DEF Trade
  <2>2. equity' \in [Traded -> Int]
    BY <2>1 DEF Money
  <2>3. UNCHANGED <<spot, exists, flight, earned, challenge, funded, usdc, seats, listed>>
    BY <1>2 DEF Trade, seatVars, poolVars
  <2> QED BY <2>2, <2>3 DEF Money
<1>3. ASSUME NEW a \in Traded, Flat(a) PROVE Money'
  <2>1. UNCHANGED <<spot, equity, exists, flight, earned, challenge, funded, usdc, seats, listed>>
    BY <1>3 DEF Flat, coreVars, poolVars
  <2> QED BY <2>1 DEF Money
<1>4. ASSUME NEW s \in seats, SeatCall(s) \/ BuyChallenge(s) PROVE Money'
  <2>1. s \in Seats /\ UNCHANGED <<usdc, seats, listed>>
    BY DEF TermInv, Forms, poolVars
  <2>2. CASE Activate(s) \/ StopChallenge(s) \/ Graduate(s) \/ DrainChallenge(s) \/ PayTrader(s) \/ HandBack(s)
    BY <2>1, <2>2, ChallengeCallMoney
  <2>3. CASE OpenFundedStage(s) \/ AbandonFundedStage(s) \/ BreachFunded(s) \/ SettleFunded(s) \/ BuyChallenge(s)
    <3>1. BreachFunded(s) => \E owed \in {0, Untaken} : EndFunded(s, owed)
      BY DEF BreachFunded
    <3> QED BY <2>1, <2>3, <3>1, StageCallMoney
  <2> QED BY <1>4, <2>2, <2>3 DEF SeatCall
<1> QED BY <1>1, <1>2, <1>3, <1>4 DEF Elsewhere

LEMMA EarnedIsInt ==
  ASSUME Money, seats \subseteq Seats
  PROVE  SumOver(seats, LAMBDA s : earned[s]) \in Int
<1>1. SumOver(seats, LAMBDA s : earned[s]) = Sum(earned, seats)
  BY SumOverIs
<1>2. IsFiniteSet(seats) /\ \A s \in seats : earned[s] \in Int
  BY DEF Money
<1> QED BY <1>1, <1>2, SumInt

\* What a settlement point does to the book and to the money at hand.
LEMMA SettleBook ==
  ASSUME LedgerInv, NEW named, named \subseteq Tickets, Settle(named), NEW locked, locked = Locked
  PROVE  BookOk(book', locked) /\ Started /\ usdc' \in Int /\ earned' \in [Seats -> Int] /\ flight' \in Seq(Actions)
           /\ listed' \subseteq Tickets
<1> DEFINE price == [value |-> Value, shares |-> book.total]
           deposits == Recognized(named)
           closed == listed \cup deposits \cup {t \in named : tickets[t] = "Closed"}
           taken == WithDeposits(book, deposits, price)
           pays == taken.queuedShares # 0 /\ ~ToppingUp
           evm == usdc + SumOver(seats, LAMBDA s : earned[s])
           core == spot[POOL] \div SpotPerPerp
           payment == Pay(taken, price, evm, core)
<1>1. /\ Started /\ price.value > 0 /\ listed' = Kept(closed)
      /\ \/ /\ pays
            /\ book' = payment.book /\ usdc' = evm - payment.evm
            /\ earned' = [s \in Seats |-> IF s \in seats THEN 0 ELSE earned[s]]
            /\ Send(Sweep(listed') \o SendUsdc(POOL, Out, payment.core))
         \/ book' = taken /\ Send(Sweep(listed')) /\ UNCHANGED <<usdc, earned>>
  BY DEF Settle
<1>2. TermInv /\ Money /\ BookOk(book, locked) /\ seats \subseteq Seats /\ locked \in [Holders -> Nat]
  BY LockedIs DEF LedgerInv, TermInv, Forms
<1>3. PriceOk(price)
  <2>1. Value \in Nat /\ book.total \in Nat /\ book.total > 0
    BY <1>1, <1>2, ValueIsNat DEF BookOk, BookTyped, Started
  <2> QED BY <1>1, <2>1 DEF PriceOk
<1>4. deposits \subseteq Tickets /\ (\A t \in deposits : spot[t] \in Nat) /\ closed \subseteq Tickets
  <2>1. \A t \in Tickets : spot[t] \in Int
    BY <1>2, AllAccounts DEF Money
  <2>2. deposits \subseteq Tickets /\ \A t \in deposits : spot[t] >= MinDeposit
    BY DEF Recognized
  <2>3. listed \subseteq Tickets
    BY <1>2 DEF Money
  <2> QED BY <2>1, <2>2, <2>3, PoolNumbers
<1> HIDE DEF deposits, closed, price
<1>5. BookOk(taken, locked)
  BY <1>2, <1>3, <1>4, WithDepositsKeeps
<1>6. evm \in Int /\ core \in Int
  <2>1. SumOver(seats, LAMBDA s : earned[s]) \in Int
    BY <1>2, EarnedIsInt
  <2>2. usdc \in Int /\ spot[POOL] \in Int
    BY <1>2, AllAccounts DEF Money
  <2>3. spot[POOL] \div SpotPerPerp \in Int
    BY <2>2, PoolNumbers
  <2> QED BY <2>1, <2>2, <2>3
<1> HIDE DEF taken, evm, core
<1>7. BookOk(payment.book, locked) /\ payment.evm \in Int /\ payment.core \in Int
  BY <1>2, <1>3, <1>5, <1>6, PayKeeps
<1> HIDE DEF payment, pays
<1>8. PICK kept : kept = listed' /\ kept \subseteq Tickets
  <2>1. Kept(closed) \subseteq Tickets
    BY <1>4 DEF Kept
  <2> QED BY <1>1, <2>1
<1>9. Sweep(kept) \in Seq(Actions)
  BY <1>2, <1>8, SweepIsActions
<1>10. CASE pays /\ book' = payment.book /\ usdc' = evm - payment.evm
            /\ earned' = [s \in Seats |-> IF s \in seats THEN 0 ELSE earned[s]]
            /\ Send(Sweep(kept) \o SendUsdc(POOL, Out, payment.core))
  <2>1. SendUsdc(POOL, Out, payment.core) \in Seq(Actions)
    BY <1>7, SendIsAction, AllAccounts
  <2>2. Sweep(kept) \o SendUsdc(POOL, Out, payment.core) \in Seq(Actions)
    BY <1>9, <2>1, ConcatProperties
  <2>3. flight' \in Seq(Actions)
    BY <1>2, <1>10, <2>2, SendKeeps
  <2>4. usdc' \in Int /\ earned' \in [Seats -> Int]
    BY <1>2, <1>6, <1>7, <1>10 DEF Money
  <2> QED BY <1>1, <1>7, <1>8, <1>10, <2>3, <2>4
<1>11. CASE book' = taken /\ Send(Sweep(kept)) /\ UNCHANGED <<usdc, earned>>
  <2>1. flight' \in Seq(Actions)
    BY <1>2, <1>9, <1>11, SendKeeps
  <2> QED BY <1>1, <1>2, <1>5, <1>8, <1>11, <2>1 DEF Money
<1> QED BY <1>1, <1>8, <1>10, <1>11

----------------------------------------------------------------------------
(* The book through every step. *)

\* The platform starts with what it sent; until then nobody has a share.
LEMMA StartKeeps ==
  ASSUME LedgerInv, Start
  PROVE  BookOk(book, Locked)' /\ Started'
<1> DEFINE c == Mint(book, Platform, spot[POOL])
           v == book.shares
<1>1. Fresh /\ ~Started /\ book' = c /\ BookOk(book, Locked)
  BY DEF Start, LedgerInv
<1>2. spot[POOL] = Seed /\ Seed \in Nat /\ Seed > 0
  BY <1>1, PoolNumbers DEF Fresh
<1>3. /\ v \in [Holders -> Nat] /\ book.queued \in [Holders -> Nat] /\ book.total \in Nat /\ book.total = Sum(v, Holders)
      /\ \A h \in Holders : book.queued[h] + Locked[h] <= book.shares[h]
      /\ BookForm(book)
  BY <1>1 DEF BookOk, BookTyped
<1>4. book.total = 0
  BY <1>1, <1>3 DEF Started
<1>5. \A h \in Holders : book.queued[h] = 0 /\ v[h] = 0
  <2> SUFFICES ASSUME NEW h \in Holders PROVE book.queued[h] = 0 /\ v[h] = 0
    OBVIOUS
  <2>1. v[h] <= Sum(v, Holders) /\ v[h] \in Nat
    <3>1. \A k \in Holders : v[k] \in Nat
      BY <1>3
    <3> HIDE DEF v
    <3> QED BY <3>1, LedgerNumbers, SumOfNats
  <2>2. Locked[h] \in Nat /\ book.queued[h] \in Nat
    BY <1>3, LockedIs
  <2>3. book.queued[h] + Locked[h] <= v[h]
    BY <1>3
  <2> HIDE DEF v
  <2> QED BY <1>3, <1>4, <2>1, <2>2, <2>3
<1>6. c.shares = [v EXCEPT ![Platform] = @ + Seed] /\ c.total = book.total + Seed
  BY <1>2, <1>3 DEF Mint, BookForm, BookFields
<1>7. c.shares[Platform] = Seed /\ \A h \in Holders : c.shares[h] \in Nat
  BY <1>2, <1>3, <1>5, <1>6, LedgerNumbers
<1>8. c.total = Seed
  BY <1>2, <1>4, <1>6
<1>9. Started'
  BY <1>1, <1>2, <1>8 DEF Started
<1>10. PICK locked : locked = Locked'
  OBVIOUS
<1>11. locked[Platform] = Seed /\ \A h \in Holders \ {Platform} : locked[h] = 0
  BY <1>9, <1>10, LedgerNumbers DEF Locked, Started
<1>12. \A h \in Holders : book.queued[h] + locked[h] <= c.shares[h]
  BY <1>2, <1>5, <1>7, <1>11
<1>13. Platform \in Holders /\ spot[POOL] \in Nat
  BY <1>2, LedgerNumbers
<1> HIDE DEF v
<1>14. BookOk(c, locked)
  BY <1>1, <1>12, <1>13, MintKeeps
<1> HIDE DEF c
<1> QED BY <1>1, <1>9, <1>10, <1>14

\* Asked for is at most what is free: not yet asked for and not locked.
LEMMA RedeemKeeps ==
  ASSUME LedgerInv, NEW h \in Holders, NEW n, RequestRedeem(h, n)
  PROVE  BookOk(book, Locked)' /\ Started'
<1> DEFINE c == Enqueue(book, h, n)
<1>1. PICK locked : locked = Locked
  OBVIOUS
<1>2. BookOk(book, locked) /\ locked[h] \in Nat
  BY <1>1, LockedIs DEF LedgerInv
<1>3. Started /\ n \in 1..Free(h) /\ (book.slot[h] = 0 => Len(book.queue) < MaxQueue) /\ book' = c
  BY DEF RequestRedeem
<1>4. book.shares[h] \in Nat /\ book.queued[h] \in Nat
  BY <1>2 DEF BookOk, BookTyped
<1>5. Free(h) = (book.shares[h] - book.queued[h]) - locked[h]
  BY <1>1 DEF Free
<1>6. n \in Nat /\ n > 0 /\ (book.queued[h] + n) + locked[h] <= book.shares[h]
  <2> DEFINE a == book.shares[h]
             q == book.queued[h]
             k == locked[h]
  <2>1. a \in Nat /\ q \in Nat /\ k \in Nat /\ n \in 1..((a - q) - k)
    BY <1>2, <1>3, <1>4, <1>5
  <2> HIDE DEF a, q, k
  <2>2. n \in Nat /\ n > 0 /\ (q + n) + k <= a
    BY <2>1
  <2> QED BY <2>2 DEF a, q, k
<1>7. BookOk(c, locked) /\ c.total = book.total
  BY <1>2, <1>3, <1>6, EnqueueKeeps
<1> HIDE DEF c
<1>8. Locked' = locked /\ Started'
  BY <1>1, <1>3, <1>7 DEF Locked, Started
<1> QED BY <1>3, <1>7, <1>8

LEMMA SettleKeeps ==
  ASSUME LedgerInv, NEW named, named \subseteq Tickets, Settle(named)
  PROVE  Money' /\ BookOk(book, Locked)' /\ Started'
<1>1. PICK locked : locked = Locked
  OBVIOUS
<1>2. PICK c : c = book'
  OBVIOUS
<1>3. BookOk(c, locked) /\ Started /\ usdc' \in Int /\ earned' \in [Seats -> Int] /\ flight' \in Seq(Actions)
        /\ listed' \subseteq Tickets
  BY <1>1, <1>2, SettleBook
<1>4. UNCHANGED <<coreVars, challenge, funded, seats>>
  BY DEF Settle
<1>5. Money'
  BY <1>3, <1>4 DEF LedgerInv, Money, coreVars
<1>6. BookOk(book, Locked)' /\ Started'
  BY <1>1, <1>2, <1>3, LockStays
<1> QED BY <1>5, <1>6

\* Until the platform starts only HyperCore and time move.
LEMMA StaysFresh ==
  ASSUME LedgerInv, ~Started, Next, ~Start
  PROVE  Fresh' /\ UNCHANGED book
<1>1. Fresh
  BY DEF LedgerInv
<1>2. CASE Tick
  BY <1>1, <1>2 DEF Tick, SeatsTick, coreVars, Fresh
<1>3. CASE Elsewhere /\ UNCHANGED poolVars
  <2>1. PICK a \in Traded : Trade(a) \/ Flat(a)
    BY <1>1, <1>3 DEF Elsewhere, EndBlock, Fresh
  <2>2. UNCHANGED <<spot, flight, seats, tickets, book>>
    BY <1>3, <2>1 DEF Trade, Flat, coreVars, poolVars
  <2> QED BY <1>1, <2>2 DEF Fresh
<1>4. ~Seal /\ (\A s \in Seats : ~AddSeat(s) /\ ~ArmSeat(s) /\ ~ReleaseSeat(s) /\ ~Collect(s) /\ ~NoteFunded(s) /\ ~EndFundedTerm(s))
        /\ (\A h \in Holders, n \in Requests : ~RequestRedeem(h, n))
        /\ (\A t \in Tickets : ~OpenTicket(t) /\ ~Transfer(t)) /\ (\A named : ~Settle(named))
  BY <1>1 DEF Fresh, Seal, AddSeat, ArmSeat, ReleaseSeat, Collect, NoteFunded, EndFundedTerm, RequestRedeem,
     OpenTicket, Transfer, Settle
<1> QED BY <1>2, <1>3, <1>4 DEF Next

\* Every step keeps the ledger.
LEMMA NextLedgerInv == LedgerInv /\ [Next]_vars => LedgerInv'
<1> SUFFICES ASSUME LedgerInv, [Next]_vars PROVE LedgerInv'
  OBVIOUS
<1>1. TermInv' /\ TermInv /\ Money
  BY NextTermInv DEF LedgerInv
<1>2. ASSUME UNCHANGED book, Money', Fresh => Started \/ Fresh' PROVE LedgerInv'
  <2>1. Locked' = Locked /\ Started' = Started
    BY <1>2 DEF Locked, Started
  <2>2. PICK locked : locked = Locked
    OBVIOUS
  <2>3. BookOk(book, locked)
    BY <2>2 DEF LedgerInv
  <2>4. BookOk(book', Locked')
    BY <1>2, <2>1, <2>2, <2>3
  <2>5. (Started \/ Fresh)'
    BY <1>2, <2>1 DEF LedgerInv
  <2> QED BY <1>1, <1>2, <2>4, <2>5 DEF LedgerInv
<1>3. CASE Start
  <2>1. BookOk(book, Locked)' /\ Started'
    BY <1>3, StartKeeps
  <2>2. UNCHANGED <<coreVars, flight, seatVars, usdc, seats, listed>>
    BY <1>3 DEF Start, ticketVars
  <2>3. Money'
    BY <1>1, <2>2 DEF Money, coreVars, seatVars
  <2> QED BY <1>1, <2>1, <2>3 DEF LedgerInv
<1>4. ASSUME NEW h \in Holders, NEW n \in Requests, RequestRedeem(h, n) PROVE LedgerInv'
  <2>1. BookOk(book, Locked)' /\ Started'
    BY <1>4, RedeemKeeps
  <2>2. UNCHANGED <<coreVars, flight, seatVars, usdc, seats, listed>>
    BY <1>4 DEF RequestRedeem, ticketVars
  <2>3. Money'
    BY <1>1, <2>2 DEF Money, coreVars, seatVars
  <2> QED BY <1>1, <2>1, <2>3 DEF LedgerInv
<1>5. ASSUME NEW named, named \subseteq Tickets, Settle(named) PROVE LedgerInv'
  BY <1>1, <1>5, SettleKeeps DEF LedgerInv
<1>6. CASE UNCHANGED vars
  <2>1. Money' /\ UNCHANGED book /\ (Fresh => Fresh')
    BY <1>1, <1>6 DEF vars, Money, Fresh
  <2> QED BY <1>2, <2>1
<1>7. CASE Next /\ ~Start /\ ~(\E h \in Holders, n \in Requests : RequestRedeem(h, n))
             /\ ~(\E named \in SUBSET Tickets : Settle(named))
  <2>1. Money'
    <3>1. CASE Seal
      <4>1. UNCHANGED <<coreVars, flight, seatVars, usdc, seats, listed>>
        BY <3>1 DEF Seal, ticketVars
      <4> QED BY <1>1, <4>1 DEF Money, coreVars, seatVars
    <3>2. CASE \E s \in Seats : AddSeat(s) \/ ArmSeat(s) \/ ReleaseSeat(s) \/ Collect(s) \/ NoteFunded(s) \/ EndFundedTerm(s)
      BY <1>1, <3>2, SeatedMoney
    <3>3. CASE \E t \in Tickets : OpenTicket(t) \/ Transfer(t)
      BY <1>1, <3>3, TicketMoney
    <3>4. CASE Elsewhere /\ UNCHANGED poolVars
      BY <1>1, <3>4, ElsewhereMoney
    <3>5. CASE Tick
      BY <1>1, <3>5, TickMoney
    <3>6. ~(\E named \in SUBSET {t \in Tickets : tickets[t] # "None" /\ spot[t] > 0} : Settle(named))
      BY <1>7
    <3> QED BY <1>7, <3>1, <3>2, <3>3, <3>4, <3>5, <3>6 DEF Next
  <2>2. UNCHANGED book
    BY <1>7 DEF Next, Seal, AddSeat, ArmSeat, ReleaseSeat, Collect, NoteFunded, EndFundedTerm, OpenTicket, Transfer,
       Tick, poolVars
  <2>3. Fresh => Started \/ Fresh'
    BY <1>7, StaysFresh
  <2> QED BY <1>2, <2>1, <2>2, <2>3
<1>8. CASE \E named \in SUBSET Tickets : Settle(named)
  BY <1>5, <1>8
<1>9. CASE \E h \in Holders, n \in Requests : RequestRedeem(h, n)
  BY <1>4, <1>9
<1> QED BY <1>3, <1>6, <1>7, <1>8, <1>9

LEMMA InitLedgerInv == Init => LedgerInv
<1> SUFFICES ASSUME Init PROVE LedgerInv
  OBVIOUS
<1>1. book = EmptyBook /\ usdc = 0 /\ seats = {} /\ listed = {} /\ exists = {POOL} /\ flight = <<>>
  BY DEF Init, SeatsInit
<1>2. Money
  <2>1. spot \in [Accounts -> Int] /\ equity \in [Traded -> Int] /\ earned \in [Seats -> Int]
    BY PoolNumbers DEF Init, SeatsInit
  <2>2. \A s \in Seats : ChallengeMoney(challenge[s]) /\ FundedMoney(funded[s])
    BY DEF Init, SeatsInit, NoChallenge, NotFunded, ChallengeMoney, FundedMoney
  <2>3. IsFiniteSet(seats) /\ <<>> \in Seq(Actions) /\ exists \subseteq Accounts
    BY <1>1, FS_EmptySet, AllAccounts
  <2> QED BY <1>1, <2>1, <2>2, <2>3 DEF Money
<1>3. Fresh
  BY <1>1, AllAccounts DEF Init, Fresh
<1>4. BookOk(book, Locked)
  <2> DEFINE b == EmptyBook
  <2>1. /\ b.shares = Nobody /\ b.basis = Nobody /\ b.queued = Nobody /\ b.slot = Nobody
        /\ b.total = 0 /\ b.queuedShares = 0 /\ b.queue = <<>> /\ BookForm(b)
    BY DEF EmptyBook, BookForm, BookFields
  <2>2. Nobody \in [Holders -> Nat] /\ \A h \in Holders : Nobody[h] = 0
    BY DEF Nobody
  <2>3. Sum(Nobody, Holders) = 0
    BY <2>2, LedgerNumbers, SumZero
  <2>4. <<>> \in Seq(Holders) /\ Len(<<>>) = 0 /\ DOMAIN <<>> = {}
    OBVIOUS
  <2>5. \A h \in Holders : Locked[h] = 0
    <3>1. ~Started
      BY <1>1, <2>1 DEF Started
    <3> QED BY <3>1, LockedIs
  <2> HIDE DEF b
  <2>6. BookTyped(b)
    BY <2>1, <2>2, <2>4 DEF BookTyped
  <2>7. QueueOk(b.queue, b.slot)
    BY <2>1, <2>2, <2>4 DEF QueueOk
  <2>8. \A h \in Holders : b.queued[h] + Locked[h] <= b.shares[h] /\ (b.slot[h] = 0 <=> b.queued[h] = 0)
    BY <2>1, <2>2, <2>5
  <2>9. BookOk(b, Locked)
    BY <2>1, <2>3, <2>4, <2>6, <2>7, <2>8, LedgerNumbers DEF BookOk
  <2> QED BY <1>1, <2>9 DEF b
<1> QED BY <1>2, <1>3, <1>4, InitTermInv DEF LedgerInv

\* The ledger of a shared pool adds up and its queue is exactly who waits, at the
\* places noted for them; a request or a fee never reaches the platform's locked shares.
THEOREM BooksAlwaysCoherent == Spec => []BooksCoherent
<1>1. LedgerInv => BooksCoherent
  <2> SUFFICES ASSUME LedgerInv PROVE BooksCoherent
    OBVIOUS
  <2>1. PICK locked : locked = Locked
    OBVIOUS
  <2>2. BookOk(book, locked)
    BY <2>1 DEF LedgerInv
  <2>3. Coherent(book, locked)
    BY <2>2, BookIs
  <2> QED BY <2>1, <2>3 DEF BooksCoherent
<1> QED BY <1>1, InitLedgerInv, NextLedgerInv, PTL DEF Spec
=============================================================================
