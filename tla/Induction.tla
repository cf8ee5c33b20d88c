------------------------------ MODULE Induction ------------------------------
(***************************************************************************)
(* Induction and recursion over numbers and finite sets, stated about sets *)
(* and functions.                                                          *)
(***************************************************************************)
EXTENDS Integers, FiniteSetTheorems, WellFoundedInduction, TLAPS

LEMMA LeastOf ==
  ASSUME NEW S \in SUBSET Nat, S # {}
  PROVE  \E n \in S : \A m \in S : ~ (m < n)
<1> DEFINE R == OpToRel(<, Nat)
<1>1. \A x, y \in Nat : x < y => <<x, y>> \in R
  BY DEF OpToRel
<1>2. IsWellFoundedOn(R, Nat)
  BY NatLessThanWellFounded
<1> HIDE DEF R
<1>3. \E x \in S : \A y \in S : ~ (<<y, x>> \in R)
  BY <1>2, WFMin
<1>4. \A x, y \in S : x < y => <<x, y>> \in R
  BY <1>1
<1> QED
  BY <1>3, <1>4

\* Whatever holds of 0 and of n + 1 if it does of n, holds of every number.
LEMMA NatInduct ==
  ASSUME NEW S, 0 \in S, \A n \in Nat : n \in S => n + 1 \in S
  PROVE  Nat \subseteq S
<1> SUFFICES ASSUME Nat \ S # {} PROVE FALSE
  OBVIOUS
<1>1. PICK n \in Nat \ S : \A m \in Nat \ S : ~ (m < n)
  BY LeastOf
<1>2. n - 1 \in Nat /\ n - 1 < n /\ n = (n - 1) + 1
  BY <1>1
<1>3. n - 1 \in S
  BY <1>1, <1>2
<1> QED
  BY <1>1, <1>2, <1>3

\* Whatever holds of a set if it does of all that miss one element, holds of a finite set.
LEMMA FiniteInduct ==
  ASSUME NEW A, IsFiniteSet(A), NEW C,
         \A T \in SUBSET A : (\A x \in T : T \ {x} \in C) => T \in C
  PROVE  SUBSET A \subseteq C
<1> DEFINE N == {n \in Nat : \A T \in SUBSET A : Cardinality(T) = n => T \in C}
<1>1. \A T \in SUBSET A : IsFiniteSet(T) /\ Cardinality(T) \in Nat
  BY FS_Subset, FS_CardinalityType
<1>2. 0 \in N
  <2>1. \A T \in SUBSET A : Cardinality(T) = 0 => T = {}
    BY <1>1, FS_EmptySet
  <2> QED
    BY <2>1
<1>3. ASSUME NEW n \in N PROVE n + 1 \in N
  <2> SUFFICES ASSUME NEW T \in SUBSET A, Cardinality(T) = n + 1 PROVE T \in C
    OBVIOUS
  <2>1. ASSUME NEW x \in T PROVE T \ {x} \in C
    <3>1. Cardinality(T \ {x}) = Cardinality(T) - 1
      BY <1>1, FS_RemoveElement
    <3> QED
      BY <1>3, <3>1
  <2> QED
    BY <2>1
<1>4. Nat \subseteq N
  <2> HIDE DEF N
  <2> QED
    BY <1>2, <1>3, NatInduct
<1> QED
  BY <1>1, <1>4

\* The first n values of a function defined by recursion.
Begins(h, n, V, base, step) ==
    /\ h \in [0 .. n -> V]
    /\ h[0] = base
    /\ \A i \in 1 .. n : h[i] = step[i, h[i - 1]]

LEMMA BeginsOn ==
  ASSUME NEW V, NEW base, NEW step \in [Nat \X V -> V], NEW n \in Nat, NEW h,
         Begins(h, n, V, base, step)
  PROVE  \E k : Begins(k, n + 1, V, base, step)
<1> DEFINE k == [i \in 0 .. n + 1 |-> IF i = n + 1 THEN step[n + 1, h[n]] ELSE h[i]]
<1>0. \A i \in 0 .. n + 1 : k[i] = IF i = n + 1 THEN step[n + 1, h[n]] ELSE h[i]
  OBVIOUS
<1>k. k = [i \in 0 .. n + 1 |-> k[i]]
  OBVIOUS
<1> HIDE DEF k
<1>1. ASSUME NEW i \in 0 .. n PROVE h[i] \in V /\ i \in 0 .. n + 1 /\ k[i] = h[i]
  <2>1. i \in 0 .. n + 1 /\ i # n + 1
    OBVIOUS
  <2> QED
    BY <1>0, <2>1 DEF Begins
<1>2. n \in 0 .. n /\ 0 \in 0 .. n /\ n + 1 \in 0 .. n + 1 /\ n + 1 \in Nat
  OBVIOUS
<1>3. k[n + 1] = step[n + 1, k[n]] /\ k[n + 1] \in V
  BY <1>0, <1>1, <1>2
<1>4. \A i \in 0 .. n + 1 : i \in 0 .. n \/ i = n + 1
  OBVIOUS
<1>5. k \in [0 .. n + 1 -> V]
  <2>1. \A i \in 0 .. n + 1 : k[i] \in V
    BY <1>1, <1>3, <1>4
  <2> QED
    BY <1>k, <2>1
<1>6. k[0] = base
  BY <1>1, <1>2 DEF Begins
<1>7. ASSUME NEW i \in 1 .. n + 1 PROVE k[i] = step[i, k[i - 1]]
  <2>1. CASE i = n + 1
    <3>1. i - 1 = n
      BY <2>1
    <3> QED
      BY <1>3, <2>1, <3>1
  <2>2. CASE i # n + 1
    <3>1. i \in 0 .. n /\ i - 1 \in 0 .. n /\ i \in 1 .. n
      BY <2>2
    <3> QED
      BY <1>1, <3>1 DEF Begins
  <2> QED
    BY <2>1, <2>2
<1> QED
  BY <1>5, <1>6, <1>7 DEF Begins

LEMMA BeginsSame ==
  ASSUME NEW V, NEW base, NEW step, NEW m \in Nat, NEW n \in Nat, NEW h, NEW k,
         Begins(h, m, V, base, step), Begins(k, n, V, base, step)
  PROVE  \A j \in Nat : j <= m /\ j <= n => h[j] = k[j]
<1> DEFINE E == {i \in Nat : i <= m /\ i <= n => h[i] = k[i]}
<1>1. 0 \in E
  BY DEF Begins
<1>2. ASSUME NEW i \in Nat, i \in E PROVE i + 1 \in E
  <2> SUFFICES ASSUME i + 1 <= m, i + 1 <= n PROVE h[i + 1] = k[i + 1]
    OBVIOUS
  <2>1. i + 1 \in 1 .. m /\ i + 1 \in 1 .. n /\ (i + 1) - 1 = i
    OBVIOUS
  <2>2. h[i] = k[i]
    BY <1>2
  <2> QED
    BY <2>1, <2>2 DEF Begins
<1>3. Nat \subseteq E
  <2> HIDE DEF E
  <2> QED
    BY <1>1, <1>2, NatInduct
<1> QED
  BY <1>3

\* A function on numbers that is defined by recursion.
Recurs(g, V, base, step) ==
    /\ g \in [Nat -> V]
    /\ g[0] = base
    /\ \A n \in Nat \ {0} : g[n] = step[n, g[n - 1]]

LEMMA NatRecursion ==
  ASSUME NEW V, NEW base \in V, NEW step \in [Nat \X V -> V]
  PROVE  \E g : Recurs(g, V, base, step)
<1> DEFINE N == {n \in Nat : \E h : Begins(h, n, V, base, step)}
           f == [n \in Nat |-> CHOOSE h : Begins(h, n, V, base, step)]
           g == [n \in Nat |-> f[n][n]]
<1>1. 0 \in N
  <2>1. Begins([i \in 0 .. 0 |-> base], 0, V, base, step)
    BY DEF Begins
  <2> QED
    BY <2>1
<1>2. \A n \in Nat : n \in N => n + 1 \in N
  <2> SUFFICES ASSUME NEW n \in Nat, NEW h, Begins(h, n, V, base, step)
               PROVE  n + 1 \in N
    OBVIOUS
  <2>1. \E k : Begins(k, n + 1, V, base, step)
    BY BeginsOn
  <2> QED
    BY <2>1
<1>3. Nat \subseteq N
  <2> HIDE DEF N
  <2> QED
    BY <1>1, <1>2, NatInduct
<1>4. \A n \in Nat : Begins(f[n], n, V, base, step)
  BY <1>3
<1> HIDE DEF f
<1>5. \A n \in Nat : f[n][n] \in V /\ f[0][0] = base
  <2>1. \A n \in Nat : n \in 0 .. n
    OBVIOUS
  <2> QED
    BY <1>4, <2>1 DEF Begins
<1>6. ASSUME NEW n \in Nat \ {0} PROVE g[n] = step[n, g[n - 1]]
  <2>1. n - 1 \in Nat /\ n - 1 <= n /\ n \in 1 .. n
    OBVIOUS
  <2>2. f[n][n] = step[n, f[n][n - 1]]
    BY <1>4, <2>1 DEF Begins
  <2>3. f[n - 1][n - 1] = f[n][n - 1]
    <3>1. Begins(f[n - 1], n - 1, V, base, step) /\ Begins(f[n], n, V, base, step)
      BY <1>4, <2>1
    <3>2. ASSUME NEW h, NEW k, Begins(h, n - 1, V, base, step), Begins(k, n, V, base, step)
          PROVE  \A j \in Nat : j <= n - 1 /\ j <= n => h[j] = k[j]
      BY <2>1, <3>2, BeginsSame
    <3>3. \A j \in Nat : j <= n - 1 /\ j <= n => f[n - 1][j] = f[n][j]
      BY <3>1, <3>2
    <3> QED
      BY <2>1, <3>3
  <2> QED
    BY <2>1, <2>2, <2>3
<1>7. g \in [Nat -> V] /\ g[0] = base
  BY <1>5
<1> HIDE DEF g
<1>8. Recurs(g, V, base, step)
  BY <1>6, <1>7 DEF Recurs
<1> QED
  BY <1>8

\* The values, for the subsets of A of n elements at most, of a function that picks
\* element after element.
Few(A, n) == {T \in SUBSET A : Cardinality(T) <= n}

Picks(h, D, V, base, step, pick) ==
    /\ h \in [D -> V]
    /\ \A T \in D : h[T] = IF T = {} THEN base ELSE step[pick[T], h[T \ {pick[T]}]]

\* A function on the subsets of a finite set that is defined by recursion.
LEMMA SetRecursion ==
  ASSUME NEW A, IsFiniteSet(A), NEW V, NEW base \in V, NEW step \in [A \X V -> V],
         NEW pick, \A T \in SUBSET A : T # {} => pick[T] \in T
  PROVE  \E g : Picks(g, SUBSET A, V, base, step, pick)
<1> DEFINE N == {n \in Nat : \E h : Picks(h, Few(A, n), V, base, step, pick)}
<1>1. \A T \in SUBSET A : IsFiniteSet(T) /\ Cardinality(T) \in Nat
  BY FS_Subset, FS_CardinalityType
<1>2. ASSUME NEW T \in SUBSET A, T # {}
      PROVE  /\ pick[T] \in A /\ T \ {pick[T]} \in SUBSET A
             /\ Cardinality(T \ {pick[T]}) = Cardinality(T) - 1
  BY <1>1, <1>2, FS_RemoveElement
<1>3. 0 \in N
  <2>1. \A T \in Few(A, 0) : T = {}
    BY <1>1, FS_EmptySet DEF Few
  <2>2. Picks([T \in Few(A, 0) |-> base], Few(A, 0), V, base, step, pick)
    BY <2>1 DEF Picks
  <2> QED
    BY <2>2
<1>4. ASSUME NEW n \in Nat, NEW h, Picks(h, Few(A, n), V, base, step, pick)
      PROVE  \E k : Picks(k, Few(A, n + 1), V, base, step, pick)
  <2> DEFINE k == [T \in Few(A, n + 1) |-> IF T = {} THEN base
                                           ELSE step[pick[T], h[T \ {pick[T]}]]]
  <2>0. \A T \in Few(A, n + 1) :
           k[T] = IF T = {} THEN base ELSE step[pick[T], h[T \ {pick[T]}]]
    OBVIOUS
  <2>k. k = [T \in Few(A, n + 1) |-> k[T]]
    OBVIOUS
  <2> HIDE DEF k
  <2>1. ASSUME NEW T \in Few(A, n + 1), T # {}
        PROVE  T \ {pick[T]} \in Few(A, n) /\ pick[T] \in A
    BY <1>1, <1>2, <2>1 DEF Few
  <2>2. \A T \in Few(A, n) : T \in Few(A, n + 1) /\ h[T] \in V /\ k[T] = h[T]
    <3>1. \A T \in Few(A, n) : T \in Few(A, n + 1)
      BY <1>1 DEF Few
    <3> QED
      BY <1>4, <2>0, <3>1 DEF Picks
  <2>3. ASSUME NEW T \in Few(A, n + 1), T # {}
        PROVE  k[T] = step[pick[T], k[T \ {pick[T]}]] /\ k[T] \in V
    BY <2>0, <2>1, <2>2, <2>3
  <2>4. k \in [Few(A, n + 1) -> V]
    <3>1. \A T \in Few(A, n + 1) : k[T] \in V
      BY <2>0, <2>3
    <3> QED
      BY <2>k, <3>1
  <2>5. \A T \in Few(A, n + 1) : k[T] = IF T = {} THEN base ELSE step[pick[T], k[T \ {pick[T]}]]
    BY <2>0, <2>3
  <2> QED
    BY <2>4, <2>5 DEF Picks
<1>5. Cardinality(A) \in N
  <2>1. \A n \in Nat : n \in N => n + 1 \in N
    BY <1>4
  <2> HIDE DEF N
  <2>2. Nat \subseteq N
    BY <1>3, <2>1, NatInduct
  <2> QED
    BY <1>1, <2>2
<1>6. Few(A, Cardinality(A)) = SUBSET A
  BY FS_Subset DEF Few
<1>7. PICK h : Picks(h, Few(A, Cardinality(A)), V, base, step, pick)
  BY <1>5
<1> QED
  BY <1>6, <1>7

\* Sums over the subsets of A of the values val, where pick says which element comes next.
Totals(g, A, val, pick) ==
    /\ g \in [SUBSET A -> Nat]
    /\ g[{}] = 0
    /\ \A T \in SUBSET A : T # {} => g[T] = val[pick[T]] + g[T \ {pick[T]}]

LEMMA TotalsExist ==
  ASSUME NEW A, IsFiniteSet(A), NEW val \in [A -> Nat],
         NEW pick, \A T \in SUBSET A : T # {} => pick[T] \in T
  PROVE  \E g : Totals(g, A, val, pick)
<1> DEFINE step == [s \in A \X Nat |-> val[s[1]] + s[2]]
<1>1. step \in [A \X Nat -> Nat]
  OBVIOUS
<1>2. \A d \in A, n \in Nat : step[d, n] = val[d] + n
  OBVIOUS
<1> HIDE DEF step
<1>3. PICK g : Picks(g, SUBSET A, Nat, 0, step, pick)
  <2>1. 0 \in Nat
    OBVIOUS
  <2> QED
    BY <1>1, <2>1, SetRecursion
<1>4. /\ g \in [SUBSET A -> Nat] /\ g[{}] = 0
      /\ \A T \in SUBSET A : T # {} => g[T] = step[pick[T], g[T \ {pick[T]}]]
  BY <1>3 DEF Picks
<1>5. ASSUME NEW T \in SUBSET A, T # {}
      PROVE  step[pick[T], g[T \ {pick[T]}]] = val[pick[T]] + g[T \ {pick[T]}]
  <2>1. pick[T] \in A /\ T \ {pick[T]} \in SUBSET A
    BY <1>5
  <2>2. g[T \ {pick[T]}] \in Nat
    BY <1>4, <2>1
  <2> QED
    BY <1>2, <2>1, <2>2
<1>6. Totals(g, A, val, pick)
  BY <1>4, <1>5 DEF Totals
<1> QED
  BY <1>6

LEMMA TotalsUnfold ==
  ASSUME NEW A, IsFiniteSet(A), NEW val \in [A -> Nat],
         NEW pick, \A T \in SUBSET A : T # {} => pick[T] \in T,
         NEW g, g = [T \in SUBSET A |-> g[T]],
         \A T \in SUBSET A : g[T] = IF T = {} THEN 0 ELSE val[pick[T]] + g[T \ {pick[T]}]
  PROVE  Totals(g, A, val, pick)
<1> DEFINE C == {T \in SUBSET A : g[T] \in Nat}
<1>1. ASSUME NEW T \in SUBSET A, \A x \in T : T \ {x} \in C PROVE T \in C
  <2>1. CASE T = {}
    <3>1. g[T] = 0
      BY <2>1
    <3> QED
      BY <3>1
  <2>2. CASE T # {}
    <3>1. pick[T] \in T /\ g[T] = val[pick[T]] + g[T \ {pick[T]}] /\ val[pick[T]] \in Nat
      BY <2>2
    <3>2. g[T \ {pick[T]}] \in Nat
      BY <1>1, <3>1
    <3> QED
      BY <3>1, <3>2
  <2> QED
    BY <2>1, <2>2
<1>2. SUBSET A \subseteq C
  <2> HIDE DEF C
  <2>1. \A T \in SUBSET A : (\A x \in T : T \ {x} \in C) => T \in C
    BY <1>1
  <2> QED
    BY <2>1, FiniteInduct
<1> QED
  BY <1>2 DEF Totals

\* more differs from val in e's value, which is greater by n.
Grows(more, val, A, e, n) == \A x \in A : more[x] = val[x] + IF x = e THEN n ELSE 0

\* Where one element's value grows by n, the sums over the sets that hold it do.
LEMMA TotalsGrow ==
  ASSUME NEW A, IsFiniteSet(A), NEW val \in [A -> Nat], NEW more \in [A -> Nat],
         NEW pick, \A T \in SUBSET A : T # {} => pick[T] \in T,
         NEW e, NEW n \in Nat, Grows(more, val, A, e, n),
         NEW g, NEW h, Totals(g, A, val, pick), Totals(h, A, more, pick)
  PROVE  \A T \in SUBSET A : h[T] = g[T] + IF e \in T THEN n ELSE 0
<1> DEFINE C == {T \in SUBSET A : h[T] = g[T] + IF e \in T THEN n ELSE 0}
<1>1. ASSUME NEW T \in SUBSET A, \A x \in T : T \ {x} \in C PROVE T \in C
  <2>1. CASE T = {}
    <3>1. g[T] = 0 /\ h[T] = 0 /\ e \notin T
      BY <2>1 DEF Totals
    <3> QED
      BY <3>1
  <2>2. CASE T # {}
    <3>1. PICK x \in T : x = pick[T]
      BY <2>2
    <3>2. h[T] = more[x] + h[T \ {x}] /\ g[T] = val[x] + g[T \ {x}]
      BY <2>2, <3>1 DEF Totals
    <3>3. h[T \ {x}] = g[T \ {x}] + IF e \in T \ {x} THEN n ELSE 0
      BY <1>1
    <3>4. x \in A /\ T \ {x} \in SUBSET A
      OBVIOUS
    <3>5. more[x] = val[x] + (IF x = e THEN n ELSE 0) /\ val[x] \in Nat /\ g[T \ {x}] \in Nat
      BY <3>4 DEF Totals, Grows
    <3>6. h[T] = g[T] + IF e \in T THEN n ELSE 0
      BY <3>2, <3>3, <3>5
    <3> QED
      BY <3>6
  <2> QED
    BY <2>1, <2>2
<1>2. SUBSET A \subseteq C
  <2> HIDE DEF C
  <2>1. \A T \in SUBSET A : (\A x \in T : T \ {x} \in C) => T \in C
    BY <1>1
  <2> QED
    BY <2>1, FiniteInduct
<1> QED
  BY <1>2

LEMMA TotalsOfNothing ==
  ASSUME NEW A, IsFiniteSet(A), NEW val \in [A -> Nat], \A x \in A : val[x] = 0,
         NEW pick, \A T \in SUBSET A : T # {} => pick[T] \in T,
         NEW g, Totals(g, A, val, pick)
  PROVE  \A T \in SUBSET A : g[T] = 0
<1> DEFINE C == {T \in SUBSET A : g[T] = 0}
<1>1. ASSUME NEW T \in SUBSET A, \A x \in T : T \ {x} \in C PROVE T \in C
  <2>1. CASE T = {}
    BY <2>1 DEF Totals
  <2>2. CASE T # {}
    <3>1. PICK x \in T : x = pick[T]
      BY <2>2
    <3>2. g[T] = val[x] + g[T \ {x}] /\ val[x] = 0 /\ g[T \ {x}] = 0
      BY <1>1, <2>2, <3>1 DEF Totals
    <3> QED
      BY <3>2
  <2> QED
    BY <2>1, <2>2
<1>2. SUBSET A \subseteq C
  <2> HIDE DEF C
  <2>1. \A T \in SUBSET A : (\A x \in T : T \ {x} \in C) => T \in C
    BY <1>1
  <2> QED
    BY <2>1, FiniteInduct
<1> QED
  BY <1>2
=============================================================================
