----------------------------- MODULE FoldLemmas -----------------------------
(***************************************************************************)
(* What the folds of the community modules compute, for every input.  A    *)
(* fold is a recursive function over the subsets of its set; that there is *)
(* one, and what it returns, is shown by looking at the smallest set for   *)
(* which it would fail.                                                    *)
(***************************************************************************)
EXTENDS Integers, FiniteSetsExt, FiniteSetTheorems, WellFoundedInduction, TLAPS

\* A set of naturals that is not empty has a least element: the form of induction
\* all the proofs below use.
LEMMA LeastNatural ==
  ASSUME NEW T \in SUBSET Nat, T # {}
  PROVE  \E n \in T : \A m \in T : n <= m
<1>1. \E n \in T : \A m \in T : ~ (<<m, n>> \in OpToRel(<, Nat))
  BY NatLessThanWellFounded, WFMin, Zenon
<1>2. PICK n \in T : \A m \in T : ~ (<<m, n>> \in {s \in Nat \X Nat : s[1] < s[2]})
  BY <1>1, Zenon DEF OpToRel
<1>3. ASSUME NEW m \in T
      PROVE  n <= m
  <2>1. m \in Nat /\ n \in Nat /\ <<m, n>> \in Nat \X Nat
    OBVIOUS
  <2>2. ~ (m < n)
    BY <1>2, <2>1
  <2> QED
    BY <2>1, <2>2
<1> QED
  BY <1>3

\* The greatest number of a finite set.
LEMMA MaxOfFinite ==
  ASSUME NEW S \in SUBSET Nat, NEW n \in Nat, \A x \in S : x <= n, S # {}
  PROVE  Max(S) \in S /\ \A x \in S : x <= Max(S)
<1> DEFINE T == {k \in Nat : \A x \in S : x <= k}
<1>1. T \in SUBSET Nat /\ T # {}
  OBVIOUS
<1>2. PICK m \in T : \A k \in T : m <= k
  <2> HIDE DEF T
  <2> QED
    BY <1>1, LeastNatural
<1>3. m \in S
  <2> SUFFICES ASSUME m \notin S
               PROVE  FALSE
    OBVIOUS
  <2>1. \A x \in S : x < m
    BY <1>2
  <2>2. PICK x \in S : TRUE
    OBVIOUS
  <2>3. m \in Nat /\ m - 1 \in Nat
    BY <2>1, <2>2
  <2>4. m - 1 \in T
    BY <2>1, <2>3
  <2> QED
    BY <1>2, <2>3, <2>4
<1>4. \A x \in S : m >= x
  BY <1>2
<1>5. /\ Max(S) \in S
      /\ \A y \in S : Max(S) >= y
  BY <1>3, <1>4 DEF Max
<1> QED
  BY <1>5

\* A recursive function over the subsets of a set: each step takes the element pick[s]
\* out and applies op to it and to the value of the rest.
IsFold(g, D, Val, base, op, pick) ==
  /\ g \in [SUBSET D -> Val]
  /\ \A s \in SUBSET D : g[s] = IF s = {} THEN base ELSE op[<<pick[s], g[s \ {pick[s]}]>>]

\* There is one over every finite set.
LEMMA FoldExists ==
  ASSUME NEW D, IsFiniteSet(D), NEW Val, NEW base \in Val,
         NEW op \in [D \X Val -> Val],
         NEW pick, \A s \in SUBSET D : s # {} => pick[s] \in s
  PROVE  \E g : IsFold(g, D, Val, base, op, pick)
<1> DEFINE Upto(k) == {s \in SUBSET D : Cardinality(s) <= k}
           Good(g, k) == /\ g \in [Upto(k) -> Val]
                         /\ \A s \in Upto(k) :
                              g[s] = IF s = {} THEN base
                                     ELSE op[<<pick[s], g[s \ {pick[s]}]>>]
           Bad == {k \in Nat : ~ \E g : Good(g, k)}
<1>1. \A s \in SUBSET D : /\ IsFiniteSet(s) /\ Cardinality(s) \in Nat
                          /\ Cardinality(s) <= Cardinality(D)
                          /\ (Cardinality(s) = 0 <=> s = {})
  BY FS_Subset, FS_CardinalityType, FS_EmptySet
<1>2. \A s \in SUBSET D : s # {} =>
         /\ s \ {pick[s]} \in SUBSET D
         /\ Cardinality(s \ {pick[s]}) = Cardinality(s) - 1
  BY <1>1, FS_RemoveElement
<1>3. ASSUME NEW n \in Bad, \A m \in Bad : n <= m
      PROVE  FALSE
  <2>1. CASE n = 0
    <3> DEFINE g == [s \in Upto(0) |-> base]
    <3>1. \A s \in Upto(0) : s = {}
      BY <1>1
    <3>2. Good(g, 0)
      BY <3>1
    <3> QED
      BY <2>1, <3>2
  <2>2. CASE n # 0
    <3>1. n \in Nat /\ n - 1 \in Nat
      BY <2>2
    <3> HIDE DEF Good
    <3>a. n - 1 \notin Bad
      <4> HIDE DEF Bad
      <4> QED
        BY <1>3, <3>1
    <3> USE DEF Good
    <3>2. PICK g : Good(g, n - 1)
      BY <3>1, <3>a
    <3> DEFINE h == [s \in Upto(n) |-> IF s = {} THEN base
                                       ELSE op[<<pick[s], g[s \ {pick[s]}]>>]]
    <3>3. \A s \in Upto(n) : s # {} => /\ s \ {pick[s]} \in Upto(n - 1)
                                       /\ s \ {pick[s]} \in Upto(n)
                                       /\ pick[s] \in D
      BY <1>1, <1>2, <3>1
    <3>4. \A s \in Upto(n - 1) : s \in Upto(n) /\ g[s] \in Val
      BY <1>1, <3>1, <3>2
    <3>5. \A s \in Upto(n) : s # {} => op[<<pick[s], g[s \ {pick[s]}]>>] \in Val
      BY <3>3, <3>4
    <3>6. h \in [Upto(n) -> Val]
      BY <3>5
    <3>7. \A s \in Upto(n - 1) : h[s] = g[s]
      BY <3>2, <3>4
    <3>8. \A s \in Upto(n) : h[s] = IF s = {} THEN base
                                    ELSE op[<<pick[s], h[s \ {pick[s]}]>>]
      BY <3>3, <3>7
    <3>9. Good(h, n)
      BY <3>6, <3>8
    <3> QED
      BY <3>9
  <2> QED
    BY <2>1, <2>2
<1>4. Bad = {}
  <2> HIDE DEF Good
  <2>1. Bad \in SUBSET Nat
    OBVIOUS
  <2> HIDE DEF Bad
  <2> QED
    BY <1>3, <2>1, LeastNatural
<1>5. Cardinality(D) \in Nat /\ Upto(Cardinality(D)) = SUBSET D
  BY <1>1, FS_CardinalityType
<1>6. PICK g : Good(g, Cardinality(D))
  BY <1>4, <1>5
<1> QED
  BY <1>5, <1>6 DEF IsFold

\* A loop over the numbers up to n: f[i] is what it has computed after i of them.
IsLoop(f, n, Val, base, op) ==
  /\ f \in [0 .. n -> Val]
  /\ f[0] = base /\ \A i \in 1 .. n : f[i] = op[<<i, f[i - 1]>>]

\* There is one for every number of rounds.
LEMMA LoopExists ==
  ASSUME NEW n \in Nat, NEW Val, NEW base \in Val,
         NEW op \in [(1 .. n) \X Val -> Val]
  PROVE  \E f : IsLoop(f, n, Val, base, op)
<1> DEFINE Good(f, k) == /\ f \in [0 .. k -> Val]
                         /\ f[0] = base /\ \A i \in 1 .. k : f[i] = op[<<i, f[i - 1]>>]
           Bad == {k \in Nat : k <= n /\ ~ \E f : Good(f, k)}
<1>1. ASSUME NEW k \in Bad, \A m \in Bad : k <= m
      PROVE  FALSE
  <2>1. CASE k = 0
    <3>1. Good([i \in 0 .. 0 |-> base], 0)
      OBVIOUS
    <3> QED
      BY <2>1, <3>1
  <2>2. CASE k # 0
    <3>1. k \in Nat /\ k - 1 \in Nat /\ k \in 1 .. n /\ k - 1 <= n
      BY <2>2
    <3>2. k - 1 \notin Bad
      <4> HIDE DEF Bad
      <4> QED
        BY <1>1, <3>1
    <3>3. PICK f : Good(f, k - 1)
      BY <3>1, <3>2
    <3> DEFINE h == [i \in 0 .. k |-> IF i = k THEN op[<<k, f[k - 1]>>] ELSE f[i]]
    <3>4. f[k - 1] \in Val /\ op[<<k, f[k - 1]>>] \in Val
      BY <3>1, <3>3
    <3>5. h \in [0 .. k -> Val] /\ h[0] = base
      BY <2>2, <3>1, <3>3, <3>4
    <3>6. ASSUME NEW i \in 1 .. k
          PROVE  h[i] = op[<<i, h[i - 1]>>]
      <4>1. i \in 0 .. k /\ i - 1 \in 0 .. k /\ i - 1 # k
        BY <3>1
      <4>2. h[i - 1] = f[i - 1] /\ h[i] = IF i = k THEN op[<<k, f[k - 1]>>] ELSE f[i]
        BY <4>1
      <4>3. i # k => i \in 1 .. k - 1
        BY <3>1
      <4> QED
        BY <3>3, <4>2, <4>3
    <3>7. Good(h, k)
      BY <3>5, <3>6
    <3> QED
      BY <3>7
  <2> QED
    BY <2>1, <2>2
<1>2. Bad = {}
  <2>1. Bad \in SUBSET Nat
    OBVIOUS
  <2> HIDE DEF Bad
  <2> QED
    BY <1>1, <2>1, LeastNatural
<1>3. \E f : Good(f, n)
  <2>1. n \notin Bad
    <3> HIDE DEF Bad
    <3> QED
      BY <1>2
  <2> HIDE DEF Good
  <2> QED
    BY <2>1
<1> QED
  BY <1>3 DEF IsLoop

-----------------------------------------------------------------------------
(* Sums over a finite set of numbers that are given by a function. *)

SumOver(w, S) == MapThenSumSet(LAMBDA i : w[i], S)

\* A recursive function that adds up w over the subsets of S.
IsSum(g, w, S) ==
  g = [s \in SUBSET S |->
         IF s = {} THEN 0
         ELSE w[CHOOSE x \in s : TRUE] + g[s \ {CHOOSE x \in s : TRUE}]]

\* There is such a function, and it returns integers.
LEMMA SumExists ==
  ASSUME NEW S, IsFiniteSet(S), NEW w, \A x \in S : w[x] \in Int
  PROVE  \E g : IsSum(g, w, S) /\ g \in [SUBSET S -> Int]
<1> DEFINE pick == [s \in SUBSET S |-> CHOOSE x \in s : TRUE]
           op == [p \in S \X Int |-> w[p[1]] + p[2]]
<1>1. \A s \in SUBSET S : s # {} => pick[s] \in s
  OBVIOUS
<1>2. op \in [S \X Int -> Int]
  OBVIOUS
<1>3. \E g : IsFold(g, S, Int, 0, op, pick)
  <2>1. 0 \in Int
    OBVIOUS
  <2> HIDE DEF pick, op
  <2> QED
    BY <1>1, <1>2, <2>1, FoldExists
<1>4. PICK g \in [SUBSET S -> Int] :
        \A s \in SUBSET S :
          g[s] = IF s = {} THEN 0 ELSE op[<<pick[s], g[s \ {pick[s]}]>>]
  BY <1>3 DEF IsFold
<1>5. ASSUME NEW s \in SUBSET S, s # {}
      PROVE  g[s] = w[CHOOSE x \in s : TRUE] + g[s \ {CHOOSE x \in s : TRUE}]
  <2> DEFINE c == CHOOSE x \in s : TRUE
  <2>1. pick[s] = c /\ c \in S /\ g[s \ {c}] \in Int
    BY <1>1, <1>5
  <2>2. op[<<c, g[s \ {c}]>>] = w[c] + g[s \ {c}]
    <3> HIDE DEF c
    <3> QED
      BY <2>1
  <2>3. g[s] = op[<<c, g[s \ {c}]>>]
    <3> HIDE DEF c, op
    <3> QED
      BY <1>4, <1>5, <2>1
  <2> QED
    BY <2>2, <2>3
<1>6. g[{}] = 0
  BY <1>4
<1>7. g = [s \in SUBSET S |->
             IF s = {} THEN 0
             ELSE w[CHOOSE x \in s : TRUE] + g[s \ {CHOOSE x \in s : TRUE}]]
  BY <1>5, <1>6
<1> QED
  BY <1>7 DEF IsSum

\* Two of them agree wherever both are defined.
LEMMA SumsAgree ==
  ASSUME NEW S, NEW U, IsFiniteSet(S), NEW w, NEW g, NEW h,
         IsSum(g, w, S), IsSum(h, w, U), NEW s \in SUBSET S, s \in SUBSET U
  PROVE  g[s] = h[s]
<1> DEFINE Differ == {n \in Nat : \E r \in SUBSET s : Cardinality(r) = n /\ g[r] # h[r]}
<1>1. \A r \in SUBSET s : IsFiniteSet(r) /\ Cardinality(r) \in Nat
  BY FS_Subset, FS_CardinalityType
<1>2. ASSUME NEW n \in Differ, \A m \in Differ : n <= m
      PROVE  FALSE
  <2>1. PICK r \in SUBSET s : Cardinality(r) = n /\ g[r] # h[r]
    OBVIOUS
  <2>2. g[{}] = 0 /\ h[{}] = 0
    BY DEF IsSum
  <2>3. r # {}
    BY <2>1, <2>2
  <2> DEFINE c == CHOOSE x \in r : TRUE
  <2>4. c \in r /\ r \ {c} \in SUBSET s /\ r \in SUBSET S /\ r \in SUBSET U
    BY <2>3
  <2>5. g[r] = w[c] + g[r \ {c}] /\ h[r] = w[c] + h[r \ {c}]
    BY <2>3, <2>4 DEF IsSum
  <2> HIDE DEF c
  <2>6. Cardinality(r \ {c}) = n - 1 /\ n \in Nat /\ n - 1 \in Nat
    <3>1. IsFiniteSet(r) /\ Cardinality(r) = n /\ n \in Nat
      BY <1>1, <2>1
    <3>2. Cardinality(r \ {c}) = n - 1
      BY <2>4, <3>1, FS_RemoveElement
    <3>3. n # 0
      BY <2>3, <3>1, FS_EmptySet
    <3> QED
      BY <3>1, <3>2, <3>3
  <2>7. g[r \ {c}] # h[r \ {c}]
    BY <2>1, <2>5
  <2>8. n - 1 \in Differ
    BY <2>4, <2>6, <2>7
  <2> HIDE DEF Differ
  <2>9. n <= n - 1
    BY <1>2, <2>8
  <2> QED
    BY <2>6, <2>9
<1>3. Differ = {}
  <2>1. Differ \in SUBSET Nat
    OBVIOUS
  <2> HIDE DEF Differ
  <2> QED
    BY <1>2, <2>1, LeastNatural
<1> QED
  BY <1>1, <1>3

\* A sum that is written with an operator is the sum of the operator's values.
LEMMA SumIs ==
  ASSUME NEW S, IsFiniteSet(S), NEW w, \A x \in S : w[x] \in Int,
         NEW g, IsSum(g, w, S)
  PROVE  SumOver(w, S) = g[S]
<1>1. SumOver(w, S) = (CHOOSE h : IsSum(h, w, S))[S]
  BY DEF SumOver, MapThenSumSet, MapThenFoldSet, IsSum
<1>2. IsSum(CHOOSE h : IsSum(h, w, S), w, S)
  OBVIOUS
<1> QED
  BY <1>1, <1>2, SumsAgree

\* The sum of no number.
LEMMA SumEmpty == ASSUME NEW w PROVE SumOver(w, {}) = 0
<1>1. IsFiniteSet({}) /\ \A x \in {} : w[x] \in Int
  BY FS_EmptySet
<1>2. PICK g : IsSum(g, w, {})
  BY <1>1, SumExists
<1>3. g[{}] = 0
  BY <1>2 DEF IsSum
<1> QED
  BY <1>1, <1>2, <1>3, SumIs

\* Integers add up to an integer.
LEMMA SumType ==
  ASSUME NEW S, IsFiniteSet(S), NEW w, \A x \in S : w[x] \in Int
  PROVE  SumOver(w, S) \in Int
<1>1. PICK g \in [SUBSET S -> Int] : IsSum(g, w, S)
  BY SumExists
<1> QED
  BY <1>1, SumIs

\* One element taken out, the one CHOOSE takes ...
LEMMA SumChosen ==
  ASSUME NEW S, IsFiniteSet(S), S # {}, NEW w, \A x \in S : w[x] \in Int
  PROVE  SumOver(w, S) = w[CHOOSE x \in S : TRUE] + SumOver(w, S \ {CHOOSE x \in S : TRUE})
<1> DEFINE c == CHOOSE x \in S : TRUE
<1>1. PICK g \in [SUBSET S -> Int] : IsSum(g, w, S)
  BY SumExists
<1>2. IsFiniteSet(S \ {c}) /\ S \ {c} \in SUBSET S
  BY FS_RemoveElement
<1>3. PICK h \in [SUBSET (S \ {c}) -> Int] : IsSum(h, w, S \ {c})
  BY <1>2, SumExists
<1>4. g[S] = w[c] + g[S \ {c}]
  BY <1>1 DEF IsSum
<1>5. g[S \ {c}] = h[S \ {c}]
  BY <1>1, <1>2, <1>3, SumsAgree
<1>6. SumOver(w, S) = g[S] /\ SumOver(w, S \ {c}) = h[S \ {c}]
  BY <1>1, <1>2, <1>3, SumIs
<1> QED
  BY <1>4, <1>5, <1>6

\* ... and any other one: a sum does not depend on the order.
LEMMA SumRemove ==
  ASSUME NEW D, IsFiniteSet(D), NEW w, \A x \in D : w[x] \in Int
  PROVE  \A S \in SUBSET D : \A x \in S : SumOver(w, S) = w[x] + SumOver(w, S \ {x})
<1> DEFINE Bad == {n \in Nat : \E S \in SUBSET D : \E x \in S :
                                Cardinality(S) = n /\ SumOver(w, S) # w[x] + SumOver(w, S \ {x})}
<1>1. \A S \in SUBSET D : IsFiniteSet(S) /\ Cardinality(S) \in Nat
  BY FS_Subset, FS_CardinalityType
<1>2. ASSUME NEW n \in Bad, \A m \in Bad : n <= m
      PROVE  FALSE
  <2>a. PICK S \in SUBSET D : \E x \in S : 
          Cardinality(S) = n /\ SumOver(w, S) # w[x] + SumOver(w, S \ {x})
    OBVIOUS
  <2>1. PICK x \in S :
          Cardinality(S) = n /\ SumOver(w, S) # w[x] + SumOver(w, S \ {x})
    BY <2>a
  <2> DEFINE c == CHOOSE y \in S : TRUE
  <2>2. c \in S /\ SumOver(w, S) = w[c] + SumOver(w, S \ {c})
    BY <1>1, <2>1, SumChosen
  <2> HIDE DEF c
  <2>3. c # x
    BY <2>1, <2>2
  <2>4. /\ S \ {c} \in SUBSET D /\ S \ {x} \in SUBSET D /\ x \in S \ {c} /\ c \in S \ {x}
        /\ (S \ {c}) \ {x} = (S \ {x}) \ {c} /\ (S \ {c}) \ {x} \in SUBSET D
    BY <2>2, <2>3
  <2>5. Cardinality(S \ {c}) = n - 1 /\ Cardinality(S \ {x}) = n - 1 /\ n \in Nat /\ n - 1 \in Nat
    <3>1. IsFiniteSet(S) /\ Cardinality(S) = n /\ n \in Nat
      BY <1>1, <2>1
    <3>2. Cardinality(S \ {c}) = n - 1 /\ Cardinality(S \ {x}) = n - 1
      BY <2>2, <3>1, FS_RemoveElement
    <3>3. n # 0
      BY <2>2, <3>1, FS_EmptySet
    <3> QED
      BY <3>1, <3>2, <3>3
  <2>6. n - 1 \notin Bad
    <3> HIDE DEF Bad
    <3> QED
      BY <1>2, <2>5
  <2>7. SumOver(w, S \ {c}) = w[x] + SumOver(w, (S \ {c}) \ {x})
    BY <2>4, <2>5, <2>6
  <2>8. SumOver(w, S \ {x}) = w[c] + SumOver(w, (S \ {x}) \ {c})
    BY <2>4, <2>5, <2>6
  <2>9. SumOver(w, (S \ {c}) \ {x}) \in Int /\ w[x] \in Int /\ w[c] \in Int
    BY <1>1, <2>2, <2>4, SumType
  <2> DEFINE rest == SumOver(w, (S \ {c}) \ {x})
  <2>10. rest = SumOver(w, (S \ {x}) \ {c}) /\ rest \in Int
    BY <2>4, <2>9
  <2> HIDE DEF rest
  <2>11. SumOver(w, S) = w[c] + (w[x] + rest)
    BY <2>2, <2>7 DEF rest
  <2>12. SumOver(w, S) # w[x] + (w[c] + rest)
    BY <2>1, <2>8, <2>10
  <2> QED
    BY <2>9, <2>10, <2>11, <2>12
<1>3. Bad = {}
  <2>1. Bad \in SUBSET Nat
    OBVIOUS
  <2> HIDE DEF Bad
  <2> QED
    BY <1>2, <2>1, LeastNatural
<1> QED
  BY <1>1, <1>3

\* The sum of the numbers up to n, one at a time.
LEMMA SumUpto ==
  ASSUME NEW n \in Nat, NEW w, \A i \in 1 .. n : w[i] \in Int, NEW k \in 1 .. n
  PROVE  SumOver(w, 1 .. k) = SumOver(w, 1 .. k - 1) + w[k]
<1>1. IsFiniteSet(1 .. n)
  BY FS_Interval
<1>2. 1 .. k \in SUBSET (1 .. n) /\ k \in 1 .. k /\ (1 .. k) \ {k} = 1 .. k - 1
      /\ 1 .. k - 1 \in SUBSET (1 .. n)
  OBVIOUS
<1>3. SumOver(w, 1 .. k) = w[k] + SumOver(w, 1 .. k - 1)
  BY <1>1, <1>2, SumRemove
<1>4. SumOver(w, 1 .. k - 1) \in Int /\ w[k] \in Int
  <2>1. IsFiniteSet(1 .. k - 1) /\ \A i \in 1 .. k - 1 : w[i] \in Int
    BY <1>2, FS_Interval
  <2> QED
    BY <2>1, SumType
<1> QED
  BY <1>3, <1>4

\* Numbers up to b add up to at most b each.
LEMMA SumBelow ==
  ASSUME NEW n \in Nat, NEW w, \A i \in 1 .. n : w[i] \in Int,
         NEW b \in Int, \A i \in 1 .. n : w[i] <= b
  PROVE  SumOver(w, 1 .. n) <= n * b
<1> DEFINE Bad == {k \in Nat : k <= n /\ ~ (SumOver(w, 1 .. k) <= k * b)}
<1>1. ASSUME NEW k \in Bad, \A m \in Bad : k <= m
      PROVE  FALSE
  <2>1. k # 0
    <3>1. 1 .. 0 = {}
      OBVIOUS
    <3> QED
      BY <3>1, SumEmpty
  <2>2. k \in Nat /\ k \in 1 .. n /\ k - 1 \in Nat /\ k - 1 <= n
    BY <2>1
  <2>3. k - 1 \notin Bad
    <3> HIDE DEF Bad
    <3> QED
      BY <1>1, <2>2
  <2>4. SumOver(w, 1 .. k) = SumOver(w, 1 .. k - 1) + w[k]
    BY <2>2, SumUpto
  <2>5. SumOver(w, 1 .. k - 1) \in Int /\ w[k] \in Int /\ w[k] <= b
    <3>1. IsFiniteSet(1 .. k - 1) /\ \A i \in 1 .. k - 1 : w[i] \in Int
      BY <2>2, FS_Interval
    <3> QED
      BY <2>2, <3>1, SumType
  <2>6. SumOver(w, 1 .. k - 1) <= (k - 1) * b
    BY <2>2, <2>3
  <2>7. (k - 1) * b = k * b - b /\ k * b \in Int /\ (k - 1) * b \in Int
    BY <2>2
  <2>8. SumOver(w, 1 .. k) <= k * b
    BY <2>4, <2>5, <2>6, <2>7
  <2> QED
    BY <2>8
<1>2. Bad = {}
  <2>1. Bad \in SUBSET Nat
    OBVIOUS
  <2> HIDE DEF Bad
  <2> QED
    BY <1>1, <2>1, LeastNatural
<1> QED
  BY <1>2

\* Numbers between two others add up to something between these times their count.
LEMMA SumBetween ==
  ASSUME NEW D, IsFiniteSet(D), NEW w, NEW lo \in Int, NEW hi \in Int,
         \A x \in D : w[x] \in Int /\ lo <= w[x] /\ w[x] <= hi
  PROVE  /\ Cardinality(D) * lo <= SumOver(w, D)
         /\ SumOver(w, D) <= Cardinality(D) * hi
<1> DEFINE Bad == {n \in Nat : \E S \in SUBSET D :
                                 /\ Cardinality(S) = n
                                 /\ ~ (n * lo <= SumOver(w, S) /\ SumOver(w, S) <= n * hi)}
<1>1. \A S \in SUBSET D : IsFiniteSet(S) /\ Cardinality(S) \in Nat
  BY FS_Subset, FS_CardinalityType
<1>2. ASSUME NEW n \in Bad, \A m \in Bad : n <= m
      PROVE  FALSE
  <2>1. PICK S \in SUBSET D : /\ Cardinality(S) = n
                              /\ ~ (n * lo <= SumOver(w, S) /\ SumOver(w, S) <= n * hi)
    OBVIOUS
  <2>2. S # {}
    <3>1. Cardinality({}) = 0 /\ SumOver(w, {}) = 0
      BY FS_EmptySet, SumEmpty
    <3>2. 0 * lo = 0 /\ 0 * hi = 0
      OBVIOUS
    <3>3. S = {} => n = 0 /\ SumOver(w, S) = 0
      BY <2>1, <3>1
    <3> HIDE DEF Bad
    <3> QED
      BY <2>1, <3>2, <3>3
  <2> DEFINE c == CHOOSE y \in S : TRUE
             rest == SumOver(w, S \ {c})
  <2>3. c \in S /\ SumOver(w, S) = w[c] + rest
    BY <1>1, <2>2, SumChosen
  <2> HIDE DEF c, rest
  <2>4. S \ {c} \in SUBSET D /\ c \in D /\ w[c] \in Int /\ lo <= w[c] /\ w[c] <= hi
    BY <2>3
  <2>5. n \in Nat /\ n - 1 \in Nat /\ Cardinality(S \ {c}) = n - 1
    <3>1. IsFiniteSet(S) /\ Cardinality(S) = n /\ n \in Nat
      BY <1>1, <2>1
    <3>2. Cardinality(S \ {c}) = n - 1
      BY <2>3, <3>1, FS_RemoveElement
    <3>3. n # 0
      BY <2>3, <3>1, FS_EmptySet
    <3> QED
      BY <3>1, <3>2, <3>3
  <2>6. n - 1 \notin Bad
    <3> HIDE DEF Bad
    <3> QED
      BY <1>2, <2>5
  <2>7. (n - 1) * lo <= rest /\ rest <= (n - 1) * hi
    BY <2>4, <2>5, <2>6 DEF rest
  <2>8. rest \in Int
    BY <1>1, <2>4, SumType DEF rest
  <2>9. /\ (n - 1) * lo = n * lo - lo /\ n * lo \in Int
        /\ (n - 1) * hi = n * hi - hi /\ n * hi \in Int
    BY <2>5
  <2>10. n * lo <= SumOver(w, S) /\ SumOver(w, S) <= n * hi
    BY <2>3, <2>4, <2>7, <2>8, <2>9
  <2> QED
    BY <2>1, <2>10
<1>3. Bad = {}
  <2>1. Bad \in SUBSET Nat
    OBVIOUS
  <2> HIDE DEF Bad
  <2> QED
    BY <1>2, <2>1, LeastNatural
<1> QED
  BY <1>1, <1>3

\* A sum only depends on the numbers that are added up.
LEMMA SumSame ==
  ASSUME NEW S, IsFiniteSet(S), NEW w, NEW v, \A x \in S : w[x] \in Int /\ v[x] = w[x]
  PROVE  SumOver(v, S) = SumOver(w, S)
<1>1. PICK g : IsSum(g, w, S)
  BY SumExists
<1>2. IsSum(g, v, S)
  <2>1. \A s \in SUBSET S : s # {} => v[CHOOSE x \in s : TRUE] = w[CHOOSE x \in s : TRUE]
    OBVIOUS
  <2> QED
    BY <1>1, <2>1 DEF IsSum
<1>3. \A x \in S : v[x] \in Int
  OBVIOUS
<1> QED
  BY <1>1, <1>2, <1>3, SumIs

\* Zeros add up to zero.
LEMMA SumZero ==
  ASSUME NEW n \in Nat, NEW w, \A i \in 1 .. n : w[i] = 0
  PROVE  SumOver(w, 1 .. n) = 0
<1> DEFINE Bad == {k \in Nat : k <= n /\ SumOver(w, 1 .. k) # 0}
<1>1. ASSUME NEW k \in Bad, \A m \in Bad : k <= m
      PROVE  FALSE
  <2>1. k # 0
    <3>1. 1 .. 0 = {}
      OBVIOUS
    <3> QED
      BY <3>1, SumEmpty
  <2>2. k \in Nat /\ k \in 1 .. n /\ k - 1 \in Nat /\ k - 1 <= n
    BY <2>1
  <2>3. k - 1 \notin Bad
    <3> HIDE DEF Bad
    <3> QED
      BY <1>1, <2>2
  <2>4. SumOver(w, 1 .. k) = SumOver(w, 1 .. k - 1) + w[k] /\ w[k] = 0
    BY <2>2, SumUpto
  <2> QED
    BY <2>2, <2>3, <2>4
<1>2. Bad = {}
  <2>1. Bad \in SUBSET Nat
    OBVIOUS
  <2> HIDE DEF Bad
  <2> QED
    BY <1>1, <2>1, LeastNatural
<1> QED
  BY <1>2

=============================================================================
