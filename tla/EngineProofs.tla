---------------------------- MODULE EngineProofs -----------------------------
(***************************************************************************)
(* Proofs about the distribution engine: the split of a pool               *)
(* (BoundedAllocation) and the weights it is given (Computation), which    *)
(* share no state.  Both are about sums over any finite set of employees,  *)
(* so the first part derives the laws of SumFunctionOnSet, and of the      *)
(* first elements of an order, by minimal counterexample.                  *)
(*                                                                         *)
(* Split: the cents given and left always make the pool, and Cap times the *)
(* employees covers it, so that somebody is under the cap while cents are  *)
(* left.  Without minimums the first turn decides everything but where the *)
(* cents go that the cap has turned away; FairInv says what it leaves.     *)
(* Weights: an answer that the client lets through names everybody once,   *)
(* and its shares sum to the unit.  SalesPay: with one more sale the       *)
(* seller's score grows faster than the sales, all other scores slower.    *)
(***************************************************************************)
EXTENDS BoundedAllocation, Computation, FiniteSetTheorems, TLAPS

-----------------------------------------------------------------------------
(* Arithmetic *)

LEMMA DivMod ==
    ASSUME NEW a \in Nat, NEW b \in Nat, b > 0
    PROVE  /\ a \div b \in Nat /\ a % b \in Nat /\ a % b < b
           /\ a = b * (a \div b) + (a % b)
OBVIOUS

\* The larger of two numbers has the larger quotient, or the larger remainder.
LEMMA Quotients ==
    ASSUME NEW a \in Nat, NEW b \in Nat, NEW o \in Nat, NEW q \in Nat, NEW r \in Nat,
           NEW s \in Nat, NEW t \in Nat, a = o * q + r, b = o * s + t, r < o, t < o, a > b
    PROVE  q >= s /\ (q = s => r > t)
<1>1. ASSUME q < s PROVE FALSE
  <2>1. PICK d \in Nat : s = q + 1 + d
    <3>1. s - q - 1 \in Nat /\ s = q + 1 + (s - q - 1)
      BY <1>1
    <3>. QED
      BY <3>1
  <2>2. o * s = o * q + o + o * d
    BY <2>1
  <2>3. o * d \in Nat /\ o * q \in Nat
    OBVIOUS
  <2>. QED
    BY <2>2, <2>3
<1>2. ASSUME q = s PROVE r > t
  <2>1. o * q \in Nat /\ o * q = o * s
    BY <1>2
  <2>. QED
    BY <2>1
<1>. QED
  BY <1>1, <1>2

\* The numbers of Leftover: p is total, W the whole parts, s the remainders, c of them not zero.
LEMMA FewLeft ==
    ASSUME NEW p \in Nat, NEW s \in Nat, NEW c \in Nat, NEW n \in Nat, NEW W \in Nat,
           n > 0, p * n = n * W + s, s <= (n - 1) * c, p - W > 0
    PROVE  p - W < c
<1>. SUFFICES ASSUME p - W >= c PROVE FALSE
  OBVIOUS
<1>1. PICK d \in Nat : d = p - W - c
  OBVIOUS
<1>2. PICK m \in Nat : m = n - 1
  OBVIOUS
<1>3. s = (m + 1) * (c + d)
  BY <1>1, <1>2
<1>4. (m + 1) * (c + d) = m * c + c + m * d + d /\ m * d \in Nat /\ m * c \in Nat
  OBVIOUS
<1>5. s <= m * c
  BY <1>2
<1>. QED
  BY <1>1, <1>3, <1>4, <1>5

\* Products of amounts are amounts, and positive when both factors are.
LEMMA ProductTypes ==
    \A p, q \in Nat : p * q \in Nat /\ (p > 0 /\ q > 0 => p * q > 0)
<1>. TAKE p \in Nat, q \in Nat
<1>1. p * q \in Nat
  OBVIOUS
<1>2. ASSUME p > 0, q > 0 PROVE p * q > 0
  <2>1. PICK d \in Nat : q = 1 + d
    <3>1. q - 1 \in Nat /\ q = 1 + (q - 1)
      BY <1>2
    <3>. QED
      BY <3>1
  <2>2. p * q = p + p * d /\ p * d \in Nat
    BY <2>1
  <2>. QED
    BY <1>2, <2>2
<1>. QED
  BY <1>1, <1>2

\* Products and quotients of naturals are monotonic.
LEMMA TimesGrows ==
    ASSUME NEW p \in Nat, NEW q \in Nat, NEW r \in Nat, q <= r
    PROVE  p * q <= p * r /\ q * p <= r * p
<1>1. PICK d \in Nat : r = q + d
  <2>1. r - q \in Nat /\ r = q + (r - q)
    OBVIOUS
  <2>. QED
    BY <2>1
<1>2. p * r = p * q + p * d /\ r * p = q * p + d * p /\ p * d \in Nat /\ d * p \in Nat
      /\ p * q \in Nat /\ q * p \in Nat
  BY <1>1
<1>. QED
  BY <1>2

LEMMA DividesOut ==
    ASSUME NEW k \in Nat, k > 0, NEW p \in Nat, NEW q \in Nat, k * p <= k * q
    PROVE  p <= q
<1>. SUFFICES ASSUME q < p PROVE FALSE
  OBVIOUS
<1>1. q + 1 \in Nat /\ q + 1 <= p
  OBVIOUS
<1>2. k * (q + 1) <= k * p
  BY <1>1, TimesGrows
<1>3. k * (q + 1) = k * q + k /\ k * q \in Nat /\ k * p \in Nat
  OBVIOUS
<1>. QED
  BY <1>2, <1>3

\* A blend between two shares.
LEMMA Mediant ==
    ASSUME NEW m \in Nat, NEW r \in Nat, NEW s \in Nat, NEW t \in Nat, NEW u \in Nat
    PROVE  LET w == m * t + r * u
               total == t * (s + u)
           IN  \/ m * total <= w * s /\ w * t <= r * total
               \/ r * total <= w * t /\ w * s <= m * total
<1>. DEFINE w == m * t + r * u
            total == t * (s + u)
            x == m * t
            y == r * s
<1>1. x \in Nat /\ y \in Nat
  BY ProductTypes
<1>2. m * total = x * s + x * u /\ w * s = x * s + y * u
  OBVIOUS
<1>3. w * t = x * t + (r * u) * t /\ r * total = y * t + (r * u) * t
  OBVIOUS
<1>4. /\ x * s \in Nat /\ x * u \in Nat /\ y * u \in Nat
      /\ x * t \in Nat /\ y * t \in Nat /\ (r * u) * t \in Nat
  BY <1>1, ProductTypes
<1>. HIDE DEF w, total, x, y
<1>5. CASE x <= y
  <2>1. x * u <= y * u /\ x * t <= y * t
    BY <1>1, <1>5, TimesGrows
  <2>. QED
    BY <1>2, <1>3, <1>4, <2>1 DEF w, total
<1>6. CASE y <= x
  <2>1. y * u <= x * u /\ y * t <= x * t
    BY <1>1, <1>6, TimesGrows
  <2>. QED
    BY <1>2, <1>3, <1>4, <2>1 DEF w, total
<1>. QED
  BY <1>1, <1>5, <1>6

-----------------------------------------------------------------------------
(* Finite sets and sums *)

\* Every non-empty set of subsets of a finite set has a minimal element: the strict subset
\* order of the finite sets is well-founded. A proof by minimal counterexample needs no
\* induction over a predicate.
LEMMA Smallest ==
    ASSUME NEW S, IsFiniteSet(S), NEW B, B \subseteq SUBSET S, B # {}
    PROVE  \E T \in B : IsFiniteSet(T) /\ \A U \in B : U \subseteq T => U = T
<1>1. IsWellFoundedOn(StrictSubsetOrdering(S), FiniteSubsetsOf(S))
  BY FS_StrictSubsetOrderingWellFounded
<1>2. FiniteSubsetsOf(S) = SUBSET S
  BY FS_FiniteSubsetsOfFinite
<1>3. \E T \in B : \A U \in B : ~(<<U, T>> \in StrictSubsetOrdering(S))
  <2>. DEFINE R == StrictSubsetOrdering(S)
              F == FiniteSubsetsOf(S)
  <2>1. IsWellFoundedOn(R, F) /\ B \subseteq F
    BY <1>1, <1>2
  <2>. HIDE DEF R, F
  <2>2. \E T \in B : \A U \in B : ~(<<U, T>> \in R)
    BY <2>1, WFMin
  <2>. QED
    BY <2>2 DEF R
<1>4. PICK T \in B : \A U \in B : ~(<<U, T>> \in StrictSubsetOrdering(S))
  BY <1>3
<1>5. IsFiniteSet(T)
  BY FS_Subset
<1>6. \A U \in B : U \subseteq T => U = T
  BY <1>4 DEF StrictSubsetOrdering
<1>. QED
  BY <1>4, <1>5, <1>6

\* SumFunctionOnSet, as the recursive function it is defined by: IterOf.
APick(s) == CHOOSE x \in s : TRUE
IsSum(f, S, g) ==
    g = [s \in SUBSET S |-> IF s = {} THEN 0 ELSE f[APick(s)] + g[s \ {APick(s)}]]
IterOf(f, S) == CHOOSE g : IsSum(f, S, g)

LEMMA SumIsIter ==
    ASSUME NEW f, NEW S
    PROVE  SumFunctionOnSet(f, S) = IterOf(f, S)[S]
BY DEF SumFunctionOnSet, FoldFunctionOnSet, MapThenFoldSet, IterOf, IsSum, APick

LEMMA APickIn ==
    ASSUME NEW s, s # {}
    PROVE  APick(s) \in s
BY DEF APick

\* What a sum is does not depend on the larger set it is computed within.
LEMMA SumsAgree ==
    ASSUME NEW f, NEW S, NEW T, IsFiniteSet(S), NEW g, NEW h, IsSum(f, S, g), IsSum(f, T, h),
           NEW s, s \subseteq S, s \subseteq T
    PROVE  g[s] = h[s]
<1>. DEFINE Bad == {u \in SUBSET s : g[u] # h[u]}
<1>. SUFFICES ASSUME Bad # {} PROVE FALSE
  OBVIOUS
<1>1. IsFiniteSet(s)
  BY FS_Subset
<1>2. PICK u \in Bad : \A v \in Bad : v \subseteq u => v = u
  <2>1. Bad \subseteq SUBSET s
    OBVIOUS
  <2>. HIDE DEF Bad
  <2>. QED
    BY <1>1, <2>1, Smallest
<1>3. CASE u = {}
  <2>1. g[u] = 0 /\ h[u] = 0
    BY <1>3 DEF IsSum
  <2>. QED
    BY <2>1
<1>4. CASE u # {}
  <2>. DEFINE x == APick(u)
              v == u \ {x}
  <2>1. x \in u
    BY <1>4, APickIn
  <2>. HIDE DEF x
  <2>2. v \notin Bad
    BY <1>2, <2>1
  <2>3. g[v] = h[v]
    BY <2>2
  <2>4. g[u] = f[x] + g[v]
    BY <1>4 DEF IsSum, x
  <2>5. h[u] = f[x] + h[v]
    BY <1>4 DEF IsSum, x
  <2>. QED
    BY <2>3, <2>4, <2>5
<1>. QED
  BY <1>3, <1>4

\* A function that satisfies the equation exists, so CHOOSE finds one.
LEMMA SumExists ==
    ASSUME NEW f, NEW S, IsFiniteSet(S)
    PROVE  \E g : IsSum(f, S, g)
<1>. DEFINE Bad == {T \in SUBSET S : ~\E g : IsSum(f, T, g)}
<1>. SUFFICES ASSUME Bad # {} PROVE FALSE
  OBVIOUS
<1>1. PICK T \in Bad : IsFiniteSet(T) /\ \A U \in Bad : U \subseteq T => U = T
  <2>1. Bad \subseteq SUBSET S
    OBVIOUS
  <2>. HIDE DEF Bad
  <2>. QED
    BY <2>1, Smallest
<1>2. ASSUME NEW U \in SUBSET T, U # T PROVE IsSum(f, U, IterOf(f, U))
  <2>1. U \notin Bad
    BY <1>1, <1>2
  <2>2. \E g : IsSum(f, U, g)
    BY <2>1
  <2>. QED
    BY <2>2 DEF IterOf
<1>. DEFINE D(s) == IF s = {} THEN 0
                    ELSE f[APick(s)] + IterOf(f, s \ {APick(s)})[s \ {APick(s)}]
            h == [s \in SUBSET T |-> D(s)]
<1>3. ASSUME NEW s \in SUBSET T, s # T PROVE h[s] = IterOf(f, s)[s]
  <2>1. IsSum(f, s, IterOf(f, s))
    BY <1>2, <1>3
  <2>2. CASE s = {}
    <3>1. IterOf(f, s)[s] = 0
      BY <2>1, <2>2 DEF IsSum
    <3>. QED
      BY <2>2, <3>1
  <2>3. CASE s # {}
    <3>. DEFINE x == APick(s)
                u == s \ {x}
    <3>1. x \in s
      BY <2>3, APickIn
    <3>. HIDE DEF x
    <3>2. u \in SUBSET T /\ u # T
      BY <3>1, <1>3
    <3>3. IsSum(f, u, IterOf(f, u))
      BY <1>2, <3>2
    <3>4. IsFiniteSet(s)
      BY <1>1, FS_Subset
    <3>5. IterOf(f, s)[u] = IterOf(f, u)[u]
      BY <2>1, <3>3, <3>4, <3>1, SumsAgree
    <3>6. IterOf(f, s)[s] = f[x] + IterOf(f, s)[u]
      BY <2>1, <2>3 DEF IsSum, x
    <3>7. h[s] = f[x] + IterOf(f, u)[u]
      BY <2>3 DEF x
    <3>. QED
      BY <3>5, <3>6, <3>7
  <2>. QED
    BY <2>2, <2>3
<1>4. IsSum(f, T, h)
  <2>1. ASSUME NEW s \in SUBSET T
        PROVE  h[s] = IF s = {} THEN 0 ELSE f[APick(s)] + h[s \ {APick(s)}]
    <3>1. CASE s = {}
      BY <3>1
    <3>2. CASE s # {}
      <4>. DEFINE x == APick(s)
                  u == s \ {x}
      <4>1. x \in s
        BY <3>2, APickIn
      <4>. HIDE DEF x
      <4>2. u \in SUBSET T /\ u # T
        BY <4>1
      <4>3. h[u] = IterOf(f, u)[u]
        BY <4>2, <1>3
      <4>4. h[s] = f[x] + IterOf(f, u)[u]
        BY <3>2 DEF x
      <4>. QED
        BY <3>2, <4>3, <4>4 DEF x
    <3>. QED
      BY <3>1, <3>2
  <2>. HIDE DEF h
  <2>2. h = [s \in SUBSET T |-> h[s]]
    BY DEF h
  <2>. QED
    BY <2>1, <2>2 DEF IsSum
<1>. QED
  BY <1>1, <1>4

\* The equation that defines the sum.
LEMMA SumEmpty ==
    ASSUME NEW f
    PROVE  SumFunctionOnSet(f, {}) = 0
<1>1. PICK g : IsSum(f, {}, g)
  BY FS_EmptySet, SumExists
<1>2. IsSum(f, {}, IterOf(f, {}))
  BY <1>1 DEF IterOf
<1>3. IterOf(f, {})[{}] = 0
  BY <1>2 DEF IsSum
<1>. QED
  BY <1>3, SumIsIter

LEMMA SumStep ==
    ASSUME NEW f, NEW S, IsFiniteSet(S), S # {}
    PROVE  SumFunctionOnSet(f, S) =
             f[APick(S)] + SumFunctionOnSet(f, S \ {APick(S)})
<1>. DEFINE x == APick(S)
            T == S \ {x}
<1>1. x \in S
  BY APickIn
<1>. HIDE DEF x
<1>2. IsFiniteSet(T)
  BY FS_Subset
<1>3. IsSum(f, S, IterOf(f, S)) /\ IsSum(f, T, IterOf(f, T))
  <2>1. \E g : IsSum(f, S, g)
    BY SumExists
  <2>2. \E g : IsSum(f, T, g)
    BY <1>2, SumExists
  <2>. QED
    BY <2>1, <2>2 DEF IterOf
<1>4. IterOf(f, S)[T] = IterOf(f, T)[T]
  <2>1. T \subseteq S /\ T \subseteq T
    OBVIOUS
  <2>. HIDE DEF T
  <2>. QED
    BY <1>3, <2>1, SumsAgree
<1>5. IterOf(f, S)[S] = f[x] + IterOf(f, S)[T]
  BY <1>3 DEF IsSum, x
<1>. QED
  BY <1>4, <1>5, SumIsIter DEF x

LEMMA SumInt ==
    ASSUME NEW S, IsFiniteSet(S), NEW f, \A s \in S : f[s] \in Int
    PROVE  SumFunctionOnSet(f, S) \in Int
<1>. DEFINE Bad == {T \in SUBSET S : SumFunctionOnSet(f, T) \notin Int}
<1>. SUFFICES ASSUME Bad # {} PROVE FALSE
  OBVIOUS
<1>1. Bad \subseteq SUBSET S
  OBVIOUS
<1>2. PICK T \in Bad : IsFiniteSet(T) /\ \A U \in Bad : U \subseteq T => U = T
  <2>. HIDE DEF Bad
  <2>. QED
    BY <1>1, Smallest
<1>3. T # {}
  BY SumEmpty
<1>. DEFINE x == APick(T)
            U == T \ {x}
<1>4. x \in T
  BY <1>3, APickIn
<1>5. SumFunctionOnSet(f, T) = f[x] + SumFunctionOnSet(f, U)
  BY <1>2, <1>3, SumStep
<1>. HIDE DEF x
<1>6. U \notin Bad
  BY <1>2, <1>4
<1>. QED
  BY <1>4, <1>5, <1>6

\* The sum does not depend on the order in which elements are taken.
LEMMA SumTake ==
    ASSUME NEW S, IsFiniteSet(S), NEW f, \A s \in S : f[s] \in Int, NEW x \in S
    PROVE  SumFunctionOnSet(f, S) = f[x] + SumFunctionOnSet(f, S \ {x})
<1>. DEFINE P(T, y) == SumFunctionOnSet(f, T) = f[y] + SumFunctionOnSet(f, T \ {y})
            Bad == {T \in SUBSET S : \E y \in T : ~P(T, y)}
<1>. SUFFICES ASSUME Bad # {} PROVE FALSE
  OBVIOUS
<1>1. Bad \subseteq SUBSET S
  OBVIOUS
<1>2. PICK T \in Bad : IsFiniteSet(T) /\ \A U \in Bad : U \subseteq T => U = T
  <2>. HIDE DEF Bad
  <2>. QED
    BY <1>1, Smallest
<1>3. PICK y \in T : ~P(T, y)
  OBVIOUS
<1>. DEFINE p == APick(T)
            U == T \ {p}
            V == T \ {y}
            W == T \ {p, y}
<1>4. p \in T
  BY <1>3, APickIn
<1>5. SumFunctionOnSet(f, T) = f[p] + SumFunctionOnSet(f, U)
  BY <1>2, <1>3, SumStep
<1>. HIDE DEF p
<1>6. y # p
  BY <1>3, <1>5
<1>7. U \notin Bad /\ V \notin Bad /\ U \in SUBSET S /\ V \in SUBSET S
  <2>1. U # T /\ V # T /\ U \subseteq T /\ V \subseteq T
    BY <1>3, <1>4
  <2>. HIDE DEF Bad, U, V
  <2>. QED
    BY <2>1, <1>1, <1>2
<1>8. U \ {y} = W /\ V \ {p} = W
  OBVIOUS
<1>9. SumFunctionOnSet(f, U) = f[y] + SumFunctionOnSet(f, W)
  <2>1. P(U, y)
    BY <1>3, <1>6, <1>7
  <2>. QED
    BY <2>1, <1>8
<1>10. SumFunctionOnSet(f, V) = f[p] + SumFunctionOnSet(f, W)
  <2>1. P(V, p)
    BY <1>4, <1>6, <1>7
  <2>. QED
    BY <2>1, <1>8
<1>11. SumFunctionOnSet(f, W) \in Int
  <2>1. IsFiniteSet(W)
    BY <1>2, FS_Subset
  <2>2. \A s \in W : f[s] \in Int
    BY <1>1
  <2>. QED
    BY <2>1, <2>2, SumInt
<1>12. f[p] \in Int /\ f[y] \in Int
  BY <1>1, <1>3, <1>4
<1>. DEFINE sT == SumFunctionOnSet(f, T)
            sU == SumFunctionOnSet(f, U)
            sV == SumFunctionOnSet(f, V)
            sW == SumFunctionOnSet(f, W)
<1>13. sT # f[y] + sV
  BY <1>3
<1>. HIDE DEF sT, sU, sV, sW
<1>. QED
  BY <1>5, <1>9, <1>10, <1>11, <1>12, <1>13 DEF sT, sU, sV, sW

\* Sums compare, up to factors, as their terms do.
LEMMA SumCompare ==
    ASSUME NEW S, IsFiniteSet(S), NEW f, NEW g,
           \A s \in S : f[s] \in Int /\ g[s] \in Int,
           NEW k \in Int, NEW m \in Int, \A s \in S : k * f[s] <= m * g[s]
    PROVE  k * SumFunctionOnSet(f, S) <= m * SumFunctionOnSet(g, S)
<1>. DEFINE F(T) == SumFunctionOnSet(f, T)
            G(T) == SumFunctionOnSet(g, T)
            Bad == {T \in SUBSET S : ~(k * F(T) <= m * G(T))}
<1>. SUFFICES ASSUME Bad # {} PROVE FALSE
  OBVIOUS
<1>1. Bad \subseteq SUBSET S
  OBVIOUS
<1>2. PICK T \in Bad : IsFiniteSet(T) /\ \A U \in Bad : U \subseteq T => U = T
  <2>. HIDE DEF Bad
  <2>. QED
    BY <1>1, Smallest
<1>3. T # {}
  <2>. SUFFICES ASSUME T = {} PROVE FALSE
    OBVIOUS
  <2>1. F(T) = 0 /\ G(T) = 0
    BY SumEmpty
  <2>. QED
    BY <2>1
<1>4. PICK x \in T : TRUE
  BY <1>3
<1>. DEFINE U == T \ {x}
<1>5. F(T) = f[x] + F(U) /\ G(T) = g[x] + G(U)
  <2>1. \A s \in T : f[s] \in Int /\ g[s] \in Int
    BY <1>1
  <2>. QED
    BY <1>2, <2>1, SumTake
<1>6. F(U) \in Int /\ G(U) \in Int
  <2>1. IsFiniteSet(U)
    BY <1>2, FS_Subset
  <2>2. \A s \in U : f[s] \in Int /\ g[s] \in Int
    BY <1>1
  <2>. QED
    BY <2>1, <2>2, SumInt
<1>7. k * F(U) <= m * G(U)
  <2>1. U \notin Bad
    BY <1>2, <1>4
  <2>. QED
    BY <2>1, <1>1
<1>8. ~(k * F(T) <= m * G(T))
  OBVIOUS
<1>9. f[x] \in Int /\ g[x] \in Int /\ k * f[x] <= m * g[x]
  BY <1>1
<1>. HIDE DEF F, G, U
<1>10. k * (f[x] + F(U)) = k * f[x] + k * F(U) /\ m * (g[x] + G(U)) = m * g[x] + m * G(U)
  BY <1>6, <1>9
<1>. QED
  BY <1>5, <1>6, <1>7, <1>8, <1>9, <1>10

LEMMA SumLeq ==
    ASSUME NEW S, IsFiniteSet(S), NEW f, NEW g,
           \A s \in S : f[s] \in Int /\ g[s] \in Int, \A s \in S : f[s] <= g[s]
    PROVE  SumFunctionOnSet(f, S) <= SumFunctionOnSet(g, S)
<1>1. SumFunctionOnSet(f, S) \in Int /\ SumFunctionOnSet(g, S) \in Int
  BY SumInt
<1>2. PICK k \in Int : k = 1
  OBVIOUS
<1>3. \A s \in S : k * f[s] <= k * g[s]
  BY <1>2
<1>4. k * SumFunctionOnSet(f, S) <= k * SumFunctionOnSet(g, S)
  BY <1>3, SumCompare
<1>. QED
  BY <1>1, <1>2, <1>4

LEMMA SumSame ==
    ASSUME NEW S, IsFiniteSet(S), NEW f, NEW g,
           \A s \in S : f[s] \in Int, \A s \in S : g[s] = f[s]
    PROVE  SumFunctionOnSet(g, S) = SumFunctionOnSet(f, S)
<1>1. SumFunctionOnSet(f, S) \in Int /\ SumFunctionOnSet(g, S) \in Int
  BY SumInt
<1>2. \A s \in S : f[s] \in Int /\ g[s] \in Int /\ f[s] <= g[s] /\ g[s] <= f[s]
  OBVIOUS
<1>3. SumFunctionOnSet(f, S) <= SumFunctionOnSet(g, S)
  BY <1>2, SumLeq
<1>4. SumFunctionOnSet(g, S) <= SumFunctionOnSet(f, S)
  BY <1>2, SumLeq
<1>. QED
  BY <1>1, <1>3, <1>4

\* h adds g to f within A.
LEMMA SumAddOn ==
    ASSUME NEW S, IsFiniteSet(S), NEW A, A \subseteq S, NEW f, NEW g, NEW h,
           \A s \in S : f[s] \in Int /\ g[s] \in Int,
           \A s \in S : s \in A => h[s] = f[s] + g[s],
           \A s \in S : s \notin A => h[s] = f[s]
    PROVE  SumFunctionOnSet(h, S) = SumFunctionOnSet(f, S) + SumFunctionOnSet(g, A)
<1>. DEFINE F(T) == SumFunctionOnSet(f, T)
            G(T) == SumFunctionOnSet(g, T)
            H(T) == SumFunctionOnSet(h, T)
            Bad == {T \in SUBSET S : ~(H(T) = F(T) + G(T \cap A))}
<1>. SUFFICES ASSUME Bad # {} PROVE FALSE
  <2>1. S \cap A = A
    OBVIOUS
  <2>. QED
    BY <2>1
<1>1. Bad \subseteq SUBSET S
  OBVIOUS
<1>2. PICK T \in Bad : IsFiniteSet(T) /\ \A U \in Bad : U \subseteq T => U = T
  <2>. HIDE DEF Bad
  <2>. QED
    BY <1>1, Smallest
<1>3. T # {}
  <2>. SUFFICES ASSUME T = {} PROVE FALSE
    OBVIOUS
  <2>1. T \cap A = {}
    OBVIOUS
  <2>2. F(T) = 0 /\ G(T \cap A) = 0 /\ H(T) = 0
    BY <2>1, SumEmpty
  <2>. QED
    BY <2>2
<1>4. PICK x \in T : TRUE
  BY <1>3
<1>. DEFINE U == T \ {x}
<1>5. \A s \in T : f[s] \in Int /\ g[s] \in Int /\ h[s] \in Int
  <2>1. \A s \in T : s \in S
    BY <1>1
  <2>. QED
    BY <2>1
<1>6. F(T) = f[x] + F(U) /\ H(T) = h[x] + H(U)
  BY <1>2, <1>5, SumTake
<1>7. IsFiniteSet(U) /\ IsFiniteSet(U \cap A) /\ IsFiniteSet(T \cap A)
  BY <1>2, FS_Subset
<1>8. F(U) \in Int /\ H(U) \in Int /\ G(U \cap A) \in Int
  BY <1>5, <1>7, SumInt
<1>9. G(T \cap A) = (IF x \in A THEN g[x] ELSE 0) + G(U \cap A)
  <2>1. CASE x \in A
    <3>1. (T \cap A) \ {x} = U \cap A
      OBVIOUS
    <3>2. G(T \cap A) = g[x] + G((T \cap A) \ {x})
      BY <1>5, <1>7, <2>1, SumTake
    <3>. QED
      BY <2>1, <3>1, <3>2
  <2>2. CASE x \notin A
    <3>1. T \cap A = U \cap A
      BY <2>2
    <3>2. G(T \cap A) = G(U \cap A)
      BY <3>1
    <3>. HIDE DEF G, U
    <3>. QED
      BY <1>8, <2>2, <3>2
  <2>. QED
    BY <2>1, <2>2
<1>10. H(U) = F(U) + G(U \cap A)
  <2>1. U \notin Bad
    BY <1>2, <1>4
  <2>. QED
    BY <2>1, <1>1
<1>11. ~(H(T) = F(T) + G(T \cap A))
  OBVIOUS
<1>12. /\ f[x] \in Int /\ g[x] \in Int
       /\ x \in A => h[x] = f[x] + g[x]
       /\ x \notin A => h[x] = f[x]
  BY <1>1
<1>. HIDE DEF F, G, H, U
<1>. QED
  BY <1>6, <1>8, <1>9, <1>10, <1>11, <1>12

LEMMA SumOnes ==
    ASSUME NEW S, IsFiniteSet(S), NEW f, \A s \in S : f[s] = 1
    PROVE  SumFunctionOnSet(f, S) = Cardinality(S)
<1>. DEFINE F(T) == SumFunctionOnSet(f, T)
            Bad == {T \in SUBSET S : ~(F(T) = Cardinality(T))}
<1>. SUFFICES ASSUME Bad # {} PROVE FALSE
  OBVIOUS
<1>1. Bad \subseteq SUBSET S
  OBVIOUS
<1>2. PICK T \in Bad : IsFiniteSet(T) /\ \A U \in Bad : U \subseteq T => U = T
  <2>. HIDE DEF Bad
  <2>. QED
    BY <1>1, Smallest
<1>3. T # {}
  BY SumEmpty, FS_EmptySet
<1>4. PICK x \in T : TRUE
  BY <1>3
<1>. DEFINE U == T \ {x}
<1>5. \A s \in T : f[s] \in Int /\ f[s] = 1
  BY <1>1
<1>6. F(T) = f[x] + F(U)
  BY <1>2, <1>5, SumTake
<1>7. Cardinality(U) = Cardinality(T) - 1 /\ Cardinality(T) \in Int
  <2>1. IsFiniteSet(T) /\ x \in T
    BY <1>2
  <2>. HIDE DEF Bad
  <2>. QED
    BY <2>1, FS_RemoveElement, FS_CardinalityType
<1>8. F(U) = Cardinality(U)
  <2>1. U \notin Bad
    BY <1>2, <1>4
  <2>. QED
    BY <2>1, <1>1
<1>9. ~(F(T) = Cardinality(T))
  OBVIOUS
<1>. HIDE DEF F, U
<1>. QED
  BY <1>5, <1>6, <1>7, <1>8, <1>9

\* The same terms under other names.
LEMMA SumReindexed ==
    ASSUME NEW S, IsFiniteSet(S), NEW f, NEW g, NEW r,
           \A s \in S : f[s] \in Int /\ g[r[s]] = f[s],
           \A s, t \in S : r[s] = r[t] => s = t
    PROVE  SumFunctionOnSet(g, {r[s] : s \in S}) = SumFunctionOnSet(f, S)
<1>. DEFINE F(T) == SumFunctionOnSet(f, T)
            Im(T) == {r[s] : s \in T}
            G(T) == SumFunctionOnSet(g, Im(T))
            Bad == {T \in SUBSET S : ~(G(T) = F(T))}
<1>. SUFFICES ASSUME Bad # {} PROVE FALSE
  OBVIOUS
<1>1. Bad \subseteq SUBSET S
  OBVIOUS
<1>2. PICK T \in Bad : IsFiniteSet(T) /\ \A U \in Bad : U \subseteq T => U = T
  <2>. HIDE DEF Bad
  <2>. QED
    BY <1>1, Smallest
<1>3. T # {}
  <2>1. Im({}) = {}
    OBVIOUS
  <2>. QED
    BY <2>1, SumEmpty
<1>4. PICK x \in T : TRUE
  BY <1>3
<1>. DEFINE U == T \ {x}
<1>5. \A s \in T : f[s] \in Int /\ g[r[s]] = f[s]
  BY <1>1
<1>6. F(T) = f[x] + F(U)
  BY <1>2, <1>5, SumTake
<1>7. Im(U) = Im(T) \ {r[x]} /\ r[x] \in Im(T)
  <2>1. \A s \in T : r[s] = r[x] => s = x
    BY <1>1
  <2>. QED
    BY <2>1
<1>8. IsFiniteSet(Im(T))
  <2>. DEFINE q == [s \in T |-> r[s]]
  <2>1. q \in Surjection(T, Im(T))
    BY DEF Surjection
  <2>. HIDE DEF Im, q
  <2>. QED
    BY <1>2, <2>1, FS_Surjection
<1>9. G(T) = g[r[x]] + G(U)
  <2>1. \A y \in Im(T) : g[y] \in Int
    BY <1>5
  <2>. HIDE DEF Im, U
  <2>2. SumFunctionOnSet(g, Im(T)) = g[r[x]] + SumFunctionOnSet(g, Im(T) \ {r[x]})
    BY <1>7, <1>8, <2>1, SumTake
  <2>. QED
    BY <1>7, <2>2
<1>10. G(U) = F(U)
  <2>1. U \notin Bad
    BY <1>2, <1>4
  <2>. QED
    BY <2>1, <1>1
<1>11. ~(G(T) = F(T))
  OBVIOUS
<1>. HIDE DEF F, G, U
<1>. QED
  BY <1>5, <1>6, <1>9, <1>10, <1>11

\* Sums of natural and of constant terms, bounds and factors.
LEMMA SumNat ==
    ASSUME NEW S, IsFiniteSet(S), NEW f, \A s \in S : f[s] \in Nat
    PROVE  SumFunctionOnSet(f, S) \in Nat
<1>1. \A s \in S : f[s] \in Int
  OBVIOUS
<1>2. SumFunctionOnSet(f, S) \in Int
  BY <1>1, SumInt
<1>3. PICK k \in Int : k = 0
  OBVIOUS
<1>4. PICK m \in Int : m = 1
  OBVIOUS
<1>5. \A s \in S : k * f[s] <= m * f[s]
  BY <1>3, <1>4
<1>6. k * SumFunctionOnSet(f, S) <= m * SumFunctionOnSet(f, S)
  BY <1>1, <1>5, SumCompare
<1>. QED
  BY <1>2, <1>3, <1>4, <1>6

LEMMA SumConst ==
    ASSUME NEW S, IsFiniteSet(S), NEW f, NEW c \in Int, \A s \in S : f[s] = c
    PROVE  SumFunctionOnSet(f, S) = c * Cardinality(S)
<1>. DEFINE g == [s \in S |-> 1]
<1>1. SumFunctionOnSet(g, S) = Cardinality(S)
  BY SumOnes
<1>2. \A s \in S : f[s] \in Int /\ g[s] \in Int
  OBVIOUS
<1>3. PICK k \in Int : k = 1
  OBVIOUS
<1>4. \A s \in S : k * f[s] <= c * g[s] /\ c * g[s] <= k * f[s]
  BY <1>3
<1>. HIDE DEF g
<1>5. k * SumFunctionOnSet(f, S) <= c * SumFunctionOnSet(g, S)
  BY <1>2, <1>4, SumCompare
<1>6. c * SumFunctionOnSet(g, S) <= k * SumFunctionOnSet(f, S)
  <2>1. \A s \in S : g[s] \in Int /\ f[s] \in Int
    BY <1>2
  <2>. QED
    BY <2>1, <1>4, SumCompare
<1>7. SumFunctionOnSet(f, S) \in Int /\ Cardinality(S) \in Int
  <2>1. \A s \in S : f[s] \in Int
    BY <1>2
  <2>. QED
    BY <2>1, SumInt, FS_CardinalityType
<1>8. c * Cardinality(S) \in Int
  BY <1>7
<1>. QED
  BY <1>1, <1>3, <1>5, <1>6, <1>7, <1>8

LEMMA SumIsOnDomain ==
    ASSUME NEW S, NEW T, NEW f \in [S -> T]
    PROVE  SumFunction(f) = SumFunctionOnSet(f, S)
BY DEF SumFunction

LEMMA SumBound ==
    ASSUME NEW S, IsFiniteSet(S), NEW f, \A s \in S : f[s] \in Nat, NEW x \in S
    PROVE  f[x] <= SumFunctionOnSet(f, S)
<1>1. \A s \in S : f[s] \in Int
  OBVIOUS
<1>2. SumFunctionOnSet(f, S) = f[x] + SumFunctionOnSet(f, S \ {x})
  BY <1>1, SumTake
<1>3. SumFunctionOnSet(f, S \ {x}) \in Nat
  <2>1. IsFiniteSet(S \ {x}) /\ \A s \in S \ {x} : f[s] \in Nat
    BY FS_Subset
  <2>. QED
    BY <2>1, SumNat
<1>. QED
  BY <1>2, <1>3

LEMMA SumScaled ==
    ASSUME NEW S, IsFiniteSet(S), NEW f, NEW h, NEW k \in Int,
           \A s \in S : f[s] \in Int, \A s \in S : h[s] = k * f[s]
    PROVE  SumFunctionOnSet(h, S) = k * SumFunctionOnSet(f, S)
<1>1. PICK o \in Int : o = 1
  OBVIOUS
<1>2. \A s \in S : f[s] \in Int /\ h[s] \in Int
  OBVIOUS
<1>3. \A s \in S : k * f[s] <= o * h[s] /\ o * h[s] <= k * f[s]
  BY <1>1, <1>2
<1>4. k * SumFunctionOnSet(f, S) <= o * SumFunctionOnSet(h, S)
  BY <1>2, <1>3, SumCompare
<1>5. o * SumFunctionOnSet(h, S) <= k * SumFunctionOnSet(f, S)
  <2>1. \A s \in S : h[s] \in Int /\ f[s] \in Int
    BY <1>2
  <2>. QED
    BY <1>3, <2>1, SumCompare
<1>6. SumFunctionOnSet(f, S) \in Int /\ SumFunctionOnSet(h, S) \in Int
  BY <1>2, SumInt
<1>7. k * SumFunctionOnSet(f, S) \in Int
  BY <1>6
<1>. QED
  BY <1>1, <1>4, <1>5, <1>6, <1>7

LEMMA SumOfMembers ==
    ASSUME NEW S, IsFiniteSet(S), NEW A, A \subseteq S, NEW h,
           \A s \in S : s \in A => h[s] = 1, \A s \in S : s \notin A => h[s] = 0
    PROVE  SumFunctionOnSet(h, S) = Cardinality(A)
<1>. DEFINE zero == [s \in S |-> 0]
            one == [s \in S |-> 1]
<1>1. IsFiniteSet(A) /\ Cardinality(A) \in Nat /\ Cardinality(S) \in Nat
  BY FS_Subset, FS_CardinalityType
<1>2. SumFunctionOnSet(zero, S) = 0 * Cardinality(S)
  <2>1. \A s \in S : zero[s] = 0
    OBVIOUS
  <2>. HIDE DEF zero
  <2>. QED
    BY <2>1, SumConst
<1>3. SumFunctionOnSet(one, A) = Cardinality(A)
  <2>1. \A s \in A : one[s] = 1
    OBVIOUS
  <2>. HIDE DEF one
  <2>. QED
    BY <1>1, <2>1, SumOnes
<1>4. /\ \A s \in S : zero[s] \in Int /\ one[s] \in Int
      /\ \A s \in S : s \in A => h[s] = zero[s] + one[s]
      /\ \A s \in S : s \notin A => h[s] = zero[s]
  OBVIOUS
<1>5. SumFunctionOnSet(h, S) = SumFunctionOnSet(zero, S) + SumFunctionOnSet(one, A)
  <2>. HIDE DEF zero, one
  <2>. QED
    BY <1>4, SumAddOn
<1>. HIDE DEF zero, one
<1>. QED
  BY <1>1, <1>2, <1>3, <1>5

-----------------------------------------------------------------------------
(* The first elements of an order *)

\* before is a strict total order of S.
Orders(before, S) ==
    /\ \A a \in S : <<a, a>> \notin before
    /\ \A a, b \in S : a = b \/ <<a, b>> \in before \/ <<b, a>> \in before
    /\ \A a, b, c \in S : <<a, b>> \in before /\ <<b, c>> \in before => <<a, c>> \in before

LEMMA OrderLast ==
    ASSUME NEW S, IsFiniteSet(S), S # {}, NEW before, Orders(before, S)
    PROVE  \E l \in S : \A a \in S : a = l \/ <<a, l>> \in before
<1>. DEFINE IsLast(T, l) == \A a \in T : a = l \/ <<a, l>> \in before
            Bad == {T \in SUBSET S : T # {} /\ ~\E l \in T : IsLast(T, l)}
<1>. SUFFICES ASSUME Bad # {} PROVE FALSE
  OBVIOUS
<1>1. Bad \subseteq SUBSET S
  OBVIOUS
<1>2. PICK T \in Bad : IsFiniteSet(T) /\ \A U \in Bad : U \subseteq T => U = T
  <2>. HIDE DEF Bad
  <2>. QED
    BY <1>1, Smallest
<1>3. T # {} /\ T \subseteq S /\ ~\E l \in T : IsLast(T, l)
  OBVIOUS
<1>4. PICK x \in T : TRUE
  BY <1>3
<1>. DEFINE U == T \ {x}
<1>5. CASE U = {}
  BY <1>3, <1>5
<1>6. CASE U # {}
  <2>1. U \notin Bad
    BY <1>2, <1>4
  <2>2. PICK l \in U : IsLast(U, l)
    BY <2>1, <1>6, <1>3
  <2>3. CASE <<x, l>> \in before
    BY <1>3, <2>2, <2>3
  <2>4. CASE <<l, x>> \in before
    <3>1. IsLast(T, x)
      BY <1>3, <2>2, <2>4 DEF Orders
    <3>. QED
      BY <1>3, <3>1
  <2>5. x \in S /\ l \in S /\ x # l
    BY <1>3, <2>2
  <2>. QED
    BY <2>3, <2>4, <2>5 DEF Orders
<1>. QED
  BY <1>5, <1>6

LEMMA OrderFirst ==
    ASSUME NEW S, IsFiniteSet(S), S # {}, NEW before, Orders(before, S)
    PROVE  \E l \in S : \A a \in S : a = l \/ <<l, a>> \in before
<1>. DEFINE after == {p \in S \X S : <<p[2], p[1]>> \in before}
<1>1. \A a, b \in S : <<a, b>> \in after <=> <<b, a>> \in before
  OBVIOUS
<1>. HIDE DEF after
<1>2. Orders(after, S)
  BY <1>1 DEF Orders
<1>3. PICK l \in S : \A a \in S : a = l \/ <<a, l>> \in after
  BY <1>2, OrderLast
<1>. QED
  BY <1>1, <1>3

\* First returns n elements, or all there are.
LEMMA FirstCount ==
    ASSUME NEW S, IsFiniteSet(S), NEW before, Orders(before, S), NEW n \in Nat
    PROVE  /\ IsFiniteSet(First(S, n, before))
           /\ Cardinality(First(S, n, before)) \in Nat
           /\ Cardinality(First(S, n, before)) <= n
           /\ n <= Cardinality(S) => Cardinality(First(S, n, before)) = n
<1>. DEFINE L == First(S, n, before)
            Pre(e) == {f \in S : <<f, e>> \in before}
<1>1. L \subseteq S /\ \A e \in S : e \in L <=> Cardinality(Pre(e)) < n
  BY DEF First
<1>2. IsFiniteSet(L) /\ Cardinality(L) \in Nat
  BY <1>1, FS_Subset, FS_CardinalityType
<1>3. \A e \in S : IsFiniteSet(Pre(e)) /\ Cardinality(Pre(e)) \in Nat
  <2>. SUFFICES ASSUME NEW e \in S PROVE IsFiniteSet(Pre(e)) /\ Cardinality(Pre(e)) \in Nat
    OBVIOUS
  <2>1. Pre(e) \subseteq S
    OBVIOUS
  <2>. HIDE DEF Pre
  <2>. QED
    BY <2>1, FS_Subset, FS_CardinalityType
<1>. HIDE DEF L
<1>4. Cardinality(L) <= n
  <2>1. CASE L = {}
    BY <2>1, FS_EmptySet
  <2>2. CASE L # {}
    <3>1. Orders(before, L)
      BY <1>1 DEF Orders
    <3>2. PICK l \in L : \A a \in L : a = l \/ <<a, l>> \in before
      BY <1>2, <2>2, <3>1, OrderLast
    <3>3. L \ {l} \subseteq Pre(l)
      BY <1>1, <3>2
    <3>. HIDE DEF Pre
    <3>4. Cardinality(L \ {l}) = Cardinality(L) - 1
      BY <1>2, FS_RemoveElement
    <3>5. Cardinality(L \ {l}) <= Cardinality(Pre(l))
      BY <1>1, <1>3, <3>3, FS_Subset
    <3>6. Cardinality(Pre(l)) < n /\ Cardinality(Pre(l)) \in Nat
      BY <1>1, <1>3
    <3>. QED
      BY <1>2, <3>4, <3>5, <3>6
  <2>. QED
    BY <2>1, <2>2
<1>5. ASSUME n <= Cardinality(S), Cardinality(L) < n PROVE FALSE
  <2>1. L # S
    BY <1>2, <1>5
  <2>. DEFINE R == S \ L
  <2>2. R # {} /\ R \subseteq S /\ IsFiniteSet(R)
    BY <1>1, <2>1, FS_Subset
  <2>3. Orders(before, R)
    BY DEF Orders
  <2>4. PICK l \in R : \A a \in R : a = l \/ <<l, a>> \in before
    <3>. HIDE DEF R
    <3>. QED
      BY <2>2, <2>3, OrderFirst
  <2>5. Pre(l) \subseteq L
    <3>. SUFFICES ASSUME NEW a \in S, <<a, l>> \in before, a \in R PROVE FALSE
      OBVIOUS
    <3>. QED
      BY <2>4 DEF Orders
  <2>. HIDE DEF Pre
  <2>6. Cardinality(Pre(l)) <= Cardinality(L)
    BY <1>2, <2>5, FS_Subset
  <2>7. l \in S /\ l \notin L /\ Cardinality(Pre(l)) \in Nat
    BY <1>3
  <2>. QED
    BY <1>1, <1>2, <1>5, <2>6, <2>7
<1>. QED
  BY <1>2, <1>4, <1>5 DEF L

\* Who precedes one of the first is one of them.
LEMMA FirstClosed ==
    ASSUME NEW S, IsFiniteSet(S), NEW before, Orders(before, S), NEW n \in Nat,
           NEW e \in S, NEW f \in First(S, n, before), <<e, f>> \in before
    PROVE  e \in First(S, n, before)
<1>. DEFINE Pre(a) == {b \in S : <<b, a>> \in before}
<1>1. f \in S /\ Cardinality(Pre(f)) < n
  BY DEF First
<1>2. Pre(e) \subseteq Pre(f) /\ Pre(f) \subseteq S
  BY <1>1 DEF Orders
<1>3. Cardinality(Pre(e)) < n
  <2>. HIDE DEF Pre
  <2>1. IsFiniteSet(Pre(f)) /\ IsFiniteSet(Pre(e))
    BY <1>2, FS_Subset
  <2>2. Cardinality(Pre(e)) <= Cardinality(Pre(f))
    BY <1>2, <2>1, FS_Subset
  <2>3. Cardinality(Pre(e)) \in Nat /\ Cardinality(Pre(f)) \in Nat
    BY <2>1, FS_CardinalityType
  <2>. QED
    BY <1>1, <2>2, <2>3
<1>. QED
  BY <1>3 DEF First

\* There is a first one.
LEMMA FirstSome ==
    ASSUME NEW S, IsFiniteSet(S), S # {}, NEW before, Orders(before, S), NEW n \in Nat, n > 0
    PROVE  Cardinality(First(S, n, before)) > 0
<1>1. PICK l \in S : \A a \in S : a = l \/ <<l, a>> \in before
  BY OrderFirst
<1>2. {a \in S : <<a, l>> \in before} = {}
  BY <1>1 DEF Orders
<1>3. l \in First(S, n, before)
  BY <1>1, <1>2, FS_EmptySet DEF First
<1>4. IsFiniteSet(First(S, n, before)) /\ Cardinality(First(S, n, before)) \in Nat
  BY FirstCount
<1>. QED
  BY <1>3, <1>4, FS_EmptySet

-----------------------------------------------------------------------------
(* The split: bounds and conservation *)

\* The invariant of the loop: within the bounds, for an input that passed the checks.
AllocationInv ==
    /\ TypeOK
    /\ WithinBounds
    /\ status \in {"allocating", "done"} => Accepted

\* What the types say of the input and of its sums.
LEMMA InputFacts ==
    ASSUME TypeOK
    PROVE  /\ pool \in Nat \ {0} /\ Cap \in Nat /\ Cap <= pool /\ left \in Nat
           /\ IsFiniteSet(Ids) /\ Ids # {} /\ Cardinality(Ids) \in Nat
           /\ \A e \in Ids : /\ e \in Nat /\ weight[e] \in Nat /\ minimum[e] \in Nat
                             /\ cents[e] \in Nat
           /\ SumFunction(weight) = SumFunctionOnSet(weight, Ids)
           /\ SumFunction(minimum) = SumFunctionOnSet(minimum, Ids)
           /\ SumFunction(cents) = SumFunctionOnSet(cents, Ids)
           /\ SumFunction(weight) \in Nat /\ SumFunction(minimum) \in Nat
           /\ SumFunction(cents) \in Nat
<1>1. pool \in Nat \ {0} /\ percent \in 1..10000 /\ left \in Nat
  <2>1. pool \in Pools /\ percent \in Percents /\ left \in Nat
    BY DEF TypeOK
  <2>2. percent \in 1..10000
    BY <2>1, PercentsAssumption
  <2> QED
    BY <2>1, <2>2, PoolsAssumption
<1>2. pool * percent \in Nat /\ pool * percent <= pool * 10000
  <2>1. \A p \in Nat, q \in 1..10000 : p * q \in Nat /\ p * q <= p * 10000
    OBVIOUS
  <2>. QED
    BY <1>1, <2>1
<1>3. Cap \in Nat /\ Cap <= pool
  <2>. DEFINE a == pool * percent
  <2>1. a \in Nat /\ a <= pool * 10000
    BY <1>2
  <2>. HIDE DEF a
  <2>2. a \div 10000 \in Nat /\ a \div 10000 <= pool
    BY <2>1, <1>1
  <2>. QED
    BY <2>2 DEF Cap, a
<1>4. IsFiniteSet(Ids) /\ Ids # {} /\ Cardinality(Ids) \in Nat
  BY IdsAssumption, FS_CardinalityType
<1>5. \A e \in Ids : e \in Nat /\ weight[e] \in Nat /\ minimum[e] \in Nat /\ cents[e] \in Nat
  BY IdsAssumption, WeightsAssumption, MinimumsAssumption DEF TypeOK
<1>6. /\ SumFunction(weight) = SumFunctionOnSet(weight, Ids)
      /\ SumFunction(minimum) = SumFunctionOnSet(minimum, Ids)
      /\ SumFunction(cents) = SumFunctionOnSet(cents, Ids)
  BY SumIsOnDomain DEF TypeOK
<1>7. /\ SumFunction(weight) \in Nat /\ SumFunction(minimum) \in Nat
      /\ SumFunction(cents) \in Nat
  BY <1>4, <1>5, <1>6, SumNat
<1>. QED
  BY <1>1, <1>3, <1>4, <1>5, <1>6, <1>7

LEMMA OpenFacts ==
    ASSUME TypeOK
    PROVE  Open \subseteq Ids /\ IsFiniteSet(Open) /\ OpenWeight \in Nat
<1>1. Open \subseteq Ids
  BY DEF Open
<1>2. IsFiniteSet(Open)
  BY <1>1, InputFacts, FS_Subset
<1>3. \A e \in Open : weight[e] \in Nat
  BY <1>1, InputFacts
<1>. QED
  BY <1>1, <1>2, <1>3, SumNat DEF OpenWeight

\* An ideal addition, in whole cents and a fraction.
LEMMA WholeFacts ==
    ASSUME TypeOK, OpenWeight > 0, NEW e \in Ids
    PROVE  /\ Whole(e) \in Nat /\ Fraction(e) \in Nat /\ Fraction(e) < OpenWeight
           /\ left * weight[e] = OpenWeight * Whole(e) + Fraction(e)
<1>1. OpenWeight \in Nat /\ left \in Nat /\ weight[e] \in Nat
  BY InputFacts, OpenFacts
<1>2. left * weight[e] \in Nat
  <2>1. \A p, q \in Nat : p * q \in Nat
    OBVIOUS
  <2>. QED
    BY <1>1, <2>1
<1>. DEFINE a == left * weight[e]
<1>3. a \in Nat
  BY <1>2
<1>. HIDE DEF a
<1>4. /\ a \div OpenWeight \in Nat /\ a % OpenWeight \in Nat /\ a % OpenWeight < OpenWeight
      /\ a = OpenWeight * (a \div OpenWeight) + (a % OpenWeight)
  BY <1>1, <1>3, DivMod
<1>. QED
  BY <1>4 DEF a, Whole, Fraction

LEMMA ByIdOrders ==
    ASSUME NEW S, S \subseteq Ids
    PROVE  Orders(ById, S)
BY IdsAssumption DEF Orders, ById

LEMMA ByFractionOrders ==
    ASSUME TypeOK, OpenWeight > 0, NEW S, S \subseteq Ids
    PROVE  Orders(ByFraction, S)
<1>1. \A e \in Ids : Fraction(e) \in Nat /\ e \in Nat
  BY WholeFacts, InputFacts
<1>2. \A a, b \in Ids : <<a, b>> \in ByFraction <=>
        Fraction(a) > Fraction(b) \/ (Fraction(a) = Fraction(b) /\ a < b)
  BY DEF ByFraction, ById
<1>. QED
  BY <1>1, <1>2 DEF Orders

-----------------------------------------------------------------------------
\* The whole cents stay under the cap and within what is left.
LEMMA FlooredFacts ==
    ASSUME AllocationInv, Turn, OpenWeight > 0
    PROVE  /\ Floored \in [Ids -> Nat]
           /\ \A e \in Ids : cents[e] <= Floored[e] /\ Floored[e] <= Cap
           /\ SumFunction(Floored) = SumFunctionOnSet(Floored, Ids)
           /\ SumFunction(Floored) \in Nat
           /\ Rest \in Nat
           /\ Under \subseteq Open /\ IsFiniteSet(Under)
<1>. DEFINE add == [e \in Ids |-> IF e \in Open THEN Additional(e) ELSE 0]
            whole == [e \in Ids |-> Whole(e)]
<1>1. TypeOK /\ \A e \in Ids : cents[e] <= Cap
  BY DEF AllocationInv, WithinBounds, Turn
<1>2. SumFunction(cents) + left = pool
  BY DEF AllocationInv, WithinBounds, Turn
<1>3. ASSUME NEW e \in Open
      PROVE  /\ Additional(e) \in Nat /\ Additional(e) <= Whole(e)
             /\ cents[e] + Additional(e) <= Cap
  BY <1>1, InputFacts, OpenFacts, WholeFacts DEF Additional, Open
<1>4. \A e \in Ids : add[e] \in Nat /\ cents[e] + add[e] <= Cap
  <2>. TAKE e \in Ids
  <2>1. CASE e \in Open
    BY <2>1, <1>3
  <2>2. CASE e \notin Open
    BY <2>2, <1>1, InputFacts
  <2>. QED
    BY <2>1, <2>2
<1>5. \A e \in Open : add[e] \in Nat /\ whole[e] \in Nat /\ add[e] <= whole[e]
  <2>. TAKE e \in Open
  <2>1. e \in Ids
    BY <1>1, OpenFacts
  <2>2. add[e] = Additional(e) /\ whole[e] = Whole(e)
    BY <2>1
  <2>. QED
    BY <1>1, <1>3, <2>1, <2>2, WholeFacts
<1>6. /\ \A e \in Ids : e \in Open => Floored[e] = cents[e] + add[e]
      /\ \A e \in Ids : e \notin Open => Floored[e] = cents[e]
  BY <1>1, InputFacts DEF Floored
<1>7. \A e \in Ids : Floored[e] = cents[e] + add[e]
  <2>. TAKE e \in Ids
  <2>1. CASE e \in Open
    BY <2>1, <1>6
  <2>2. CASE e \notin Open
    BY <1>1, <2>2, <1>6, InputFacts
  <2>. QED
    BY <2>1, <2>2
<1>. HIDE DEF add
<1>8. Floored = [e \in Ids |-> Floored[e]]
  BY DEF Floored
<1>9. Floored \in [Ids -> Nat] /\ \A e \in Ids : cents[e] <= Floored[e] /\ Floored[e] <= Cap
  <2>1. \A e \in Ids : Floored[e] \in Nat /\ cents[e] <= Floored[e] /\ Floored[e] <= Cap
    BY <1>1, <1>4, <1>7, InputFacts
  <2>. HIDE DEF Floored
  <2>. QED
    BY <1>8, <2>1
<1>10. SumFunction(Floored) = SumFunctionOnSet(Floored, Ids)
  BY <1>9, SumIsOnDomain
<1>11. SumFunction(Floored) \in Nat
  BY <1>1, <1>9, <1>10, SumNat, InputFacts
<1>12. SumFunction(Floored) = SumFunction(cents) + SumFunctionOnSet(add, Open)
  <2>1. IsFiniteSet(Ids) /\ \A e \in Ids : cents[e] \in Int /\ add[e] \in Int
    BY <1>1, <1>4, InputFacts
  <2>2. SumFunctionOnSet(Floored, Ids) =
          SumFunctionOnSet(cents, Ids) + SumFunctionOnSet(add, Open)
    BY <1>1, <2>1, <1>6, SumAddOn, OpenFacts
  <2>. QED
    BY <1>1, <1>10, <2>2, InputFacts
<1>. DEFINE sAdd == SumFunctionOnSet(add, Open)
            sWhole == SumFunctionOnSet(whole, Open)
<1>13. sAdd \in Nat /\ sWhole \in Nat /\ sAdd <= sWhole
  <2>1. \A e \in Open : add[e] \in Int /\ whole[e] \in Int
    BY <1>5
  <2>. HIDE DEF whole
  <2>. QED
    BY <1>1, <1>5, <2>1, OpenFacts, SumNat, SumLeq
<1>14. OpenWeight * sWhole <= left * OpenWeight
  <2>1. OpenWeight \in Int /\ left \in Int /\ IsFiniteSet(Open)
    BY <1>1, OpenFacts, InputFacts
  <2>2. \A e \in Open : whole[e] \in Int /\ weight[e] \in Int
    BY <1>1, <1>5, OpenFacts, InputFacts
  <2>3. \A e \in Open : OpenWeight * whole[e] <= left * weight[e]
    <3>. TAKE e \in Open
    <3>1. e \in Ids
      BY <1>1, OpenFacts
    <3>2. left * weight[e] = OpenWeight * Whole(e) + Fraction(e) /\ Fraction(e) \in Nat
          /\ Whole(e) \in Nat
      BY <1>1, <3>1, WholeFacts
    <3>3. whole[e] = Whole(e)
      BY <3>1
    <3>. DEFINE a == OpenWeight * Whole(e)
                b == left * weight[e]
    <3>4. a \in Int
      BY <2>1, <3>2
    <3>. HIDE DEF a, b
    <3>5. b = a + Fraction(e)
      BY <3>2 DEF a, b
    <3>6. a <= b
      BY <3>2, <3>4, <3>5
    <3>. QED
      BY <3>3, <3>6 DEF a, b
  <2>. HIDE DEF whole
  <2>4. OpenWeight * SumFunctionOnSet(whole, Open) <= left * SumFunctionOnSet(weight, Open)
    BY <2>1, <2>2, <2>3, SumCompare
  <2>. QED
    BY <2>4 DEF OpenWeight
<1>15. sWhole <= left
  <2>. HIDE DEF sWhole
  <2>1. OpenWeight \in Nat /\ left \in Nat
    BY <1>1, OpenFacts, InputFacts
  <2>2. \A a, b, c \in Nat : a > 0 /\ a * b <= c * a => b <= c
    OBVIOUS
  <2>. QED
    BY <1>13, <1>14, <2>1, <2>2
<1>16. Rest \in Nat
  <2>. HIDE DEF sWhole, sAdd
  <2>1. SumFunction(Floored) = SumFunction(cents) + sAdd
    BY <1>12 DEF sAdd
  <2>2. Rest = pool - SumFunction(Floored)
    BY DEF Rest
  <2>. QED
    BY <1>1, <1>2, <1>13, <1>15, <2>1, <2>2, InputFacts
<1>17. Under \subseteq Open /\ IsFiniteSet(Under)
  <2>1. Under \subseteq Open
    BY DEF Under
  <2>. QED
    BY <1>1, <2>1, OpenFacts, FS_Subset
<1>. QED
  BY <1>9, <1>10, <1>11, <1>16, <1>17

LEMMA OneCentEach ==
    ASSUME NEW f \in [Ids -> Nat], NEW L, L \subseteq Ids, NEW c,
           c = [e \in Ids |-> f[e] + IF e \in L THEN 1 ELSE 0]
    PROVE  /\ c \in [Ids -> Nat]
           /\ \A e \in Ids : c[e] = f[e] + IF e \in L THEN 1 ELSE 0
           /\ SumFunction(c) = SumFunction(f) + Cardinality(L)
<1>1. \A e \in Ids : c[e] = f[e] + IF e \in L THEN 1 ELSE 0
  OBVIOUS
<1>2. c \in [Ids -> Nat]
  OBVIOUS
<1>3. SumFunction(c) = SumFunctionOnSet(c, Ids) /\ SumFunction(f) = SumFunctionOnSet(f, Ids)
  BY <1>2, SumIsOnDomain
<1>. DEFINE one == [e \in Ids |-> 1]
<1>4. IsFiniteSet(Ids) /\ IsFiniteSet(L)
  BY IdsAssumption, FS_Subset
<1>5. SumFunctionOnSet(one, L) = Cardinality(L)
  BY <1>4, SumOnes
<1>6. /\ \A e \in Ids : f[e] \in Int /\ one[e] \in Int
      /\ \A e \in Ids : e \in L => c[e] = f[e] + one[e]
      /\ \A e \in Ids : e \notin L => c[e] = f[e]
  BY <1>1
<1>7. SumFunctionOnSet(c, Ids) = SumFunctionOnSet(f, Ids) + SumFunctionOnSet(one, L)
  <2>. HIDE DEF one
  <2>. QED
    BY <1>4, <1>6, SumAddOn
<1>. QED
  BY <1>1, <1>2, <1>3, <1>5, <1>7

\* If everybody were at the cap, the pool would be spent, since Cap times the employees
\* covers it.
LEMMA NotStuck ==
    ASSUME AllocationInv
    PROVE  NeverStuck
<1>. SUFFICES ASSUME Turn PROVE Open # {} /\ (OpenWeight > 0 /\ Rest > 0 => Under # {})
  BY DEF NeverStuck
<1>1. TypeOK /\ SumFunction(cents) + left = pool /\ left > 0
  BY DEF AllocationInv, WithinBounds, Turn
<1>2. \A e \in Ids : cents[e] <= Cap
  BY DEF AllocationInv, WithinBounds, Turn
<1>3. Cap * Cardinality(Ids) >= pool
  BY DEF AllocationInv, Accepted, Turn
<1>4. Open # {}
  <2>. SUFFICES ASSUME Open = {} PROVE FALSE
    OBVIOUS
  <2>1. \A e \in Ids : cents[e] = Cap
    BY <1>1, <1>2, InputFacts DEF Open
  <2>2. Cap \in Int /\ IsFiniteSet(Ids)
    BY <1>1, InputFacts
  <2>3. SumFunctionOnSet(cents, Ids) = Cap * Cardinality(Ids)
    BY <2>1, <2>2, SumConst
  <2>4. SumFunction(cents) >= pool
    BY <1>1, <1>3, <2>3, InputFacts
  <2>. QED
    BY <1>1, <2>4, InputFacts
<1>5. ASSUME OpenWeight > 0, Rest > 0, Under = {} PROVE FALSE
  <2>1. /\ \A e \in Ids : Floored[e] \in Nat /\ cents[e] <= Floored[e] /\ Floored[e] <= Cap
        /\ SumFunction(Floored) = SumFunctionOnSet(Floored, Ids)
        /\ SumFunction(Floored) \in Nat
    BY <1>5, FlooredFacts
  <2>2. \A e \in Ids : Floored[e] = Cap
    <3>. TAKE e \in Ids
    <3>1. CASE e \in Open
      BY <1>1, <1>5, <2>1, <3>1, InputFacts DEF Under
    <3>2. CASE e \notin Open
      BY <1>1, <2>1, <3>2, InputFacts DEF Open
    <3>. QED
      BY <3>1, <3>2
  <2>3. Cap \in Int /\ IsFiniteSet(Ids)
    BY <1>1, InputFacts
  <2>4. SumFunctionOnSet(Floored, Ids) = Cap * Cardinality(Ids)
    BY <2>2, <2>3, SumConst
  <2>5. SumFunction(Floored) >= pool
    BY <1>3, <2>1, <2>4
  <2>. QED
    BY <1>1, <1>5, <2>1, <2>5, InputFacts DEF Rest
<1>. QED
  BY <1>4, <1>5

LuckyByFraction == First(Under, Rest, ByFraction)
LuckyById == First(Open, left, ById)

\* What a turn by weight hands out.
LEMMA ProportionalTurnFacts ==
    ASSUME AllocationInv, ProportionalTurn
    PROVE  /\ LuckyByFraction \subseteq Under /\ Under \subseteq Open /\ Open \subseteq Ids
           /\ IsFiniteSet(Under)
           /\ cents' \in [Ids -> Nat]
           /\ \A e \in Ids : cents'[e] = Floored[e] + IF e \in LuckyByFraction THEN 1 ELSE 0
           /\ SumFunction(cents') = SumFunction(Floored) + Cardinality(LuckyByFraction)
           /\ Cardinality(LuckyByFraction) \in Nat /\ Cardinality(LuckyByFraction) <= Rest
           /\ Rest <= Cardinality(Under) => Cardinality(LuckyByFraction) = Rest
           /\ left' = Rest - Cardinality(LuckyByFraction)
<1>1. TypeOK /\ Turn /\ OpenWeight > 0
  BY DEF AllocationInv, ProportionalTurn
<1>2. /\ Floored \in [Ids -> Nat] /\ Rest \in Nat /\ SumFunction(Floored) \in Nat
      /\ Under \subseteq Open /\ IsFiniteSet(Under)
  BY <1>1, FlooredFacts
<1>3. Open \subseteq Ids /\ LuckyByFraction \subseteq Under
  BY DEF Open, LuckyByFraction, First
<1>4. /\ Cardinality(LuckyByFraction) \in Nat /\ Cardinality(LuckyByFraction) <= Rest
      /\ Rest <= Cardinality(Under) => Cardinality(LuckyByFraction) = Rest
  <2>1. Orders(ByFraction, Under)
    BY <1>1, <1>2, <1>3, ByFractionOrders
  <2>. QED
    BY <1>2, <2>1, FirstCount DEF LuckyByFraction
<1>5. cents' = [e \in Ids |-> Floored[e] + IF e \in LuckyByFraction THEN 1 ELSE 0]
  BY DEF ProportionalTurn, LuckyByFraction
<1>6. /\ cents' \in [Ids -> Nat]
      /\ \A e \in Ids : cents'[e] = Floored[e] + IF e \in LuckyByFraction THEN 1 ELSE 0
      /\ SumFunction(cents') = SumFunction(Floored) + Cardinality(LuckyByFraction)
  <2>1. LuckyByFraction \subseteq Ids
    BY <1>2, <1>3
  <2>. QED
    BY <1>2, <1>5, <2>1, OneCentEach
<1>7. left' = pool - SumFunction(cents') /\ Rest = pool - SumFunction(Floored)
  BY DEF ProportionalTurn, Rest
<1>8. left' = Rest - Cardinality(LuckyByFraction)
  BY <1>1, <1>2, <1>4, <1>6, <1>7, InputFacts
<1>. QED
  BY <1>2, <1>3, <1>4, <1>6, <1>8

\* What a turn without weights hands out.
LEMMA CentTurnFacts ==
    ASSUME AllocationInv, CentTurn
    PROVE  /\ LuckyById \subseteq Open /\ Open \subseteq Ids
           /\ cents' \in [Ids -> Nat]
           /\ \A e \in Ids : cents'[e] = cents[e] + IF e \in LuckyById THEN 1 ELSE 0
           /\ SumFunction(cents') = SumFunction(cents) + Cardinality(LuckyById)
           /\ Cardinality(LuckyById) \in Nat /\ Cardinality(LuckyById) <= left
           /\ left' = left - Cardinality(LuckyById)
<1>1. TypeOK /\ SumFunction(cents) + left = pool
  BY DEF AllocationInv, WithinBounds, CentTurn, Turn
<1>2. Open \subseteq Ids /\ IsFiniteSet(Open) /\ LuckyById \subseteq Open
  BY <1>1, OpenFacts DEF LuckyById, First
<1>3. Cardinality(LuckyById) \in Nat /\ Cardinality(LuckyById) <= left
  <2>1. Orders(ById, Open)
    BY <1>2, ByIdOrders
  <2>. QED
    BY <1>1, <1>2, <2>1, FirstCount, InputFacts DEF LuckyById
<1>4. cents' = [e \in Ids |-> cents[e] + IF e \in LuckyById THEN 1 ELSE 0]
  BY DEF CentTurn, LuckyById
<1>5. /\ cents' \in [Ids -> Nat]
      /\ \A e \in Ids : cents'[e] = cents[e] + IF e \in LuckyById THEN 1 ELSE 0
      /\ SumFunction(cents') = SumFunction(cents) + Cardinality(LuckyById)
  <2>1. cents \in [Ids -> Nat] /\ LuckyById \subseteq Ids
    BY <1>1, <1>2 DEF TypeOK
  <2>. QED
    BY <1>4, <2>1, OneCentEach
<1>6. left' = pool - SumFunction(cents')
  BY DEF CentTurn
<1>7. left' = left - Cardinality(LuckyById)
  BY <1>1, <1>3, <1>5, <1>6, InputFacts
<1>. QED
  BY <1>2, <1>3, <1>5, <1>7

LEMMA AllocationInit == Init => AllocationInv
<1>. SUFFICES ASSUME Init PROVE AllocationInv
  OBVIOUS
<1>1. TypeOK
  BY DEF Init, TypeOK
<1>. QED
  BY <1>1 DEF Init, AllocationInv, WithinBounds

LEMMA AllocationStep == AllocationInv /\ [Next]_vars => AllocationInv'
<1>. SUFFICES ASSUME AllocationInv, [Next]_vars PROVE AllocationInv'
  OBVIOUS
<1>1. TypeOK /\ WithinBounds /\ (status \in {"allocating", "done"} => Accepted)
  BY DEF AllocationInv
<1>2. CASE Validate /\ Accepted
  <2>1. /\ status' = "allocating" /\ cents' = minimum
        /\ left' = pool - SumFunction(minimum) /\ UNCHANGED input
    BY <1>2 DEF Validate
  <2>2. TypeOK'
    <3>1. cents' \in [Ids -> Nat]
      BY <1>1, <2>1, MinimumsAssumption DEF TypeOK
    <3>2. left' \in Nat
      BY <1>1, <1>2, <2>1, InputFacts DEF Accepted
    <3>. QED
      BY <1>1, <2>1, <3>1, <3>2 DEF TypeOK, input
  <2>3. WithinBounds'
    <3>1. \A e \in Ids : minimum'[e] <= cents'[e] /\ cents'[e] <= Cap'
      BY <1>1, <1>2, <2>1, InputFacts DEF Accepted, Cap, input
    <3>2. SumFunction(cents') + left' = pool'
      BY <1>1, <2>1, InputFacts DEF input
    <3>. QED
      BY <2>1, <3>1, <3>2 DEF WithinBounds
  <2>4. Accepted'
    BY <1>2, <2>1 DEF Accepted, Cap, input
  <2>. QED
    BY <2>2, <2>3, <2>4 DEF AllocationInv
<1>3. CASE Validate /\ ~Accepted
  <2>1. status' = "rejected" /\ UNCHANGED <<cents, left, input>>
    BY <1>3 DEF Validate
  <2>. QED
    BY <1>1, <2>1 DEF AllocationInv, TypeOK, WithinBounds, input
<1>4. CASE ProportionalTurn
  <2>1. /\ status = "allocating" /\ status' = status /\ UNCHANGED input
        /\ Turn /\ OpenWeight > 0 /\ Accepted
    BY <1>1, <1>4 DEF ProportionalTurn, Turn
  <2>2. \A e \in Ids : /\ cents[e] <= Floored[e] /\ Floored[e] <= Cap /\ Floored[e] \in Nat
                       /\ minimum[e] <= cents[e] /\ minimum[e] \in Nat /\ cents[e] \in Nat
    BY <1>1, <2>1, FlooredFacts, InputFacts DEF WithinBounds
  <2>3. TypeOK'
    <3>1. cents' \in [Ids -> Nat] /\ left' \in Nat
      BY <1>4, <2>1, ProportionalTurnFacts, FlooredFacts
    <3>. QED
      BY <1>1, <2>1, <3>1 DEF TypeOK, input
  <2>4. WithinBounds'
    <3>1. ASSUME NEW e \in Ids PROVE minimum'[e] <= cents'[e] /\ cents'[e] <= Cap'
      <4>1. minimum' = minimum /\ Cap' = Cap /\ Cap \in Nat
        BY <1>1, <2>1, InputFacts DEF input, Cap
      <4>2. CASE e \in LuckyByFraction
        <5>1. Floored[e] < Cap
          BY <1>4, <4>2, ProportionalTurnFacts DEF Under
        <5>2. cents'[e] = Floored[e] + 1
          BY <1>4, <4>2, ProportionalTurnFacts
        <5>. QED
          BY <2>2, <4>1, <5>1, <5>2
      <4>3. CASE e \notin LuckyByFraction
        <5>1. cents'[e] = Floored[e] + 0
          BY <1>4, <4>3, ProportionalTurnFacts
        <5>. QED
          BY <2>2, <4>1, <5>1
      <4>. QED
        BY <4>2, <4>3
    <3>2. SumFunction(cents') + left' = pool'
      <4>1. SumFunction(cents') \in Nat /\ pool \in Nat
        BY <1>1, <1>4, <2>1, ProportionalTurnFacts, FlooredFacts, InputFacts
      <4>. QED
        BY <1>4, <2>1, <4>1 DEF ProportionalTurn, input
    <3>. QED
      BY <2>1, <3>1, <3>2 DEF WithinBounds
  <2>5. Accepted'
    BY <2>1 DEF Accepted, Cap, input
  <2>. QED
    BY <2>3, <2>4, <2>5 DEF AllocationInv
<1>5. CASE CentTurn
  <2>1. status = "allocating" /\ status' = status /\ UNCHANGED input /\ Accepted
    BY <1>1, <1>5 DEF CentTurn, Turn
  <2>2. \A e \in Ids : /\ cents[e] <= Cap /\ minimum[e] <= cents[e] 
                       /\ minimum[e] \in Nat /\ cents[e] \in Nat
    BY <1>1, <2>1, InputFacts DEF WithinBounds
  <2>3. TypeOK'
    <3>1. cents' \in [Ids -> Nat] /\ left' \in Nat
      BY <1>1, <1>5, CentTurnFacts, InputFacts
    <3>. QED
      BY <1>1, <2>1, <3>1 DEF TypeOK, input
  <2>4. WithinBounds'
    <3>1. ASSUME NEW e \in Ids PROVE minimum'[e] <= cents'[e] /\ cents'[e] <= Cap'
      <4>1. minimum' = minimum /\ Cap' = Cap /\ Cap \in Nat
        BY <1>1, <2>1, InputFacts DEF input, Cap
      <4>2. CASE e \in LuckyById
        <5>1. cents[e] < Cap
          BY <1>5, <4>2, CentTurnFacts DEF Open
        <5>2. cents'[e] = cents[e] + 1
          BY <1>5, <4>2, CentTurnFacts
        <5>. QED
          BY <2>2, <4>1, <5>1, <5>2
      <4>3. CASE e \notin LuckyById
        <5>1. cents'[e] = cents[e] + 0
          BY <1>5, <4>3, CentTurnFacts
        <5>. QED
          BY <2>2, <4>1, <5>1
      <4>. QED
        BY <4>2, <4>3
    <3>2. SumFunction(cents') + left' = pool'
      <4>1. SumFunction(cents') \in Nat /\ pool \in Nat
        BY <1>1, <1>5, CentTurnFacts, InputFacts
      <4>. QED
        BY <1>5, <2>1, <4>1 DEF CentTurn, input
    <3>. QED
      BY <2>1, <3>1, <3>2 DEF WithinBounds
  <2>5. Accepted'
    BY <2>1 DEF Accepted, Cap, input
  <2>. QED
    BY <2>3, <2>4, <2>5 DEF AllocationInv
<1>6. CASE Finish
  BY <1>1, <1>6 DEF Finish, AllocationInv, TypeOK, WithinBounds, Accepted, Cap, input
<1>7. CASE UNCHANGED vars
  BY <1>1, <1>7 DEF vars, AllocationInv, TypeOK, WithinBounds, Accepted, Cap, input
<1>8. Validate => (Validate /\ Accepted) \/ (Validate /\ ~Accepted)
  OBVIOUS
<1>. QED
  BY <1>2, <1>3, <1>4, <1>5, <1>6, <1>7, <1>8 DEF Next

\* Whatever the pool, the percentage, the weights and the minimums: at every turn nobody is
\* below the minimum or above the cap, the cents given and left make the pool, and an input
\* that passed the checks is allocated in full: the capPreventsFullAllocation inside the loop
\* is never thrown (allocation.ts:219-291, 300-360).
THEOREM AllocationIsSafe == Spec => []AllocationSafe
<1>1. Init => AllocationInv
  BY AllocationInit
<1>2. AllocationInv /\ [Next]_vars => AllocationInv'
  BY AllocationStep
<1>3. AllocationInv => AllocationSafe
  BY NotStuck DEF AllocationInv, AllocationSafe
<1>. QED
  BY <1>1, <1>2, <1>3, PTL DEF Spec

-----------------------------------------------------------------------------
(* The split: fairness *)

\* total is divided by the weights w into whole parts and remainders.
Divided(D, total, w, sum, whole, part) ==
    \A i \in D : part[i] < sum /\ total * w[i] = sum * whole[i] + part[i]

\* Rounding down leaves fewer cents than there are remainders.
LEMMA Leftover ==
    ASSUME NEW D, IsFiniteSet(D), NEW total \in Nat, NEW sum \in Nat, sum > 0,
           NEW w \in [D -> Nat], NEW whole \in [D -> Nat], NEW part \in [D -> Nat],
           sum = SumFunctionOnSet(w, D),
           Divided(D, total, w, sum, whole, part),
           NEW P, P \subseteq D, \A i \in D : i \notin P => part[i] = 0
    PROVE  /\ SumFunctionOnSet(whole, D) \in Nat
           /\ total - SumFunctionOnSet(whole, D) > 0 =>
                total - SumFunctionOnSet(whole, D) < Cardinality(P)
<1>. DEFINE sWhole == SumFunctionOnSet(whole, D)
            sPart == SumFunctionOnSet(part, D)
            u == [i \in D |-> total * w[i]]
            v == [i \in D |-> sum * whole[i]]
            ind == [i \in D |-> IF i \in P THEN 1 ELSE 0]
<1>1. \A i \in D : part[i] < sum /\ total * w[i] = sum * whole[i] + part[i]
  BY DEF Divided
<1>2. IsFiniteSet(P) /\ P \subseteq D /\ Cardinality(P) \in Nat
  BY FS_Subset, FS_CardinalityType
<1>3. sWhole \in Nat /\ sPart \in Nat
  BY SumNat
<1>4. \A i \in D : /\ w[i] \in Int /\ whole[i] \in Int /\ part[i] \in Int
                   /\ u[i] = total * w[i] /\ u[i] \in Int
                   /\ v[i] = sum * whole[i] /\ v[i] \in Int
                   /\ u[i] = v[i] + part[i]
  <2>1. \A p, q \in Nat : p * q \in Int
    OBVIOUS
  <2>2. \A i \in D : u[i] = total * w[i] /\ v[i] = sum * whole[i]
    OBVIOUS
  <2>. HIDE DEF u, v
  <2>. QED
    BY <1>1, <2>1, <2>2
<1>5. SumFunctionOnSet(u, D) = SumFunctionOnSet(v, D) + sPart
  <2>. HIDE DEF u, v
  <2>1. /\ \A i \in D : v[i] \in Int /\ part[i] \in Int
        /\ \A i \in D : i \in D => u[i] = v[i] + part[i]
        /\ \A i \in D : i \notin D => u[i] = v[i]
        /\ D \subseteq D
    BY <1>4
  <2>. QED
    BY <2>1, SumAddOn
<1>6. SumFunctionOnSet(u, D) = total * sum /\ SumFunctionOnSet(v, D) = sum * sWhole
  <2>. HIDE DEF u, v
  <2>. QED
    BY <1>4, SumScaled
<1>7. total * sum = sum * sWhole + sPart
  BY <1>5, <1>6
<1>8. SumFunctionOnSet(ind, D) = Cardinality(P)
  <2>1. /\ \A i \in D : i \in P => ind[i] = 1
        /\ \A i \in D : i \notin P => ind[i] = 0
    OBVIOUS
  <2>. HIDE DEF ind
  <2>. QED
    BY <2>1, SumOfMembers
<1>9. sPart <= (sum - 1) * Cardinality(P)
  <2>1. PICK o \in Int : o = 1
    OBVIOUS
  <2>2. PICK k \in Int : k = sum - 1
    OBVIOUS
  <2>3. \A i \in D : part[i] \in Int /\ ind[i] \in Int
    OBVIOUS
  <2>4. \A i \in D : o * part[i] <= k * ind[i]
    <3>. TAKE i \in D
    <3>1. CASE i \in P
      <4>1. ind[i] = 1
        BY <3>1
      <4>. HIDE DEF ind
      <4>. QED
        BY <1>1, <2>1, <2>2, <4>1
    <3>2. CASE i \notin P
      <4>1. ind[i] = 0 /\ part[i] = 0
        BY <3>2
      <4>. HIDE DEF ind
      <4>. QED
        BY <1>1, <2>1, <2>2, <4>1
    <3>. QED
      BY <3>1, <3>2
  <2>. HIDE DEF ind
  <2>5. o * sPart <= k * SumFunctionOnSet(ind, D)
    BY <2>3, <2>4, SumCompare
  <2>. QED
    BY <1>3, <1>8, <2>1, <2>2, <2>5
<1>. HIDE DEF sWhole, sPart
<1>10. total - sWhole > 0 => total - sWhole < Cardinality(P)
  BY <1>2, <1>3, <1>7, <1>9, FewLeft
<1>. QED
  BY <1>3, <1>10 DEF sWhole

\* What a fair turn leaves behind, when there are no minimums: before the first turn nobody
\* has a cent (Untouched); the first turn makes Touched true and no later one breaks it.
NoMinimums == \A e \in Ids : minimum[e] = 0
SomebodyCapped == \E e \in Ids : cents[e] = Cap
RoundedDownAtLeast ==
    \A e \in Ids : cents[e] = Cap \/ (cents[e] + 1) * SumFunction(weight) > pool * weight[e]
LessThanACentMore ==
    \A e \in Ids : (cents[e] - 1) * SumFunction(weight) < pool * weight[e]

Untouched == left = pool /\ \A e \in Ids : cents[e] = 0
Touched ==
    /\ RoundedDownAtLeast
    /\ SomebodyCapped \/ (left = 0 /\ LessThanACentMore)
    /\ percent = 10000 => left = 0 /\ cents = AllocateCents(pool, weight)

FairInv ==
    status \in {"allocating", "done"} =>
        PayFollowsWeight /\ (NoMinimums => Untouched \/ Touched)

-----------------------------------------------------------------------------
\* More weight means more whole cents, or as many and a larger fraction.
LEMMA MoreWeight ==
    ASSUME TypeOK, OpenWeight > 0, left > 0, NEW e \in Ids, NEW f \in Ids, weight[e] > weight[f]
    PROVE  Whole(e) >= Whole(f) /\ (Whole(e) = Whole(f) => <<e, f>> \in ByFraction)
<1>1. /\ Whole(e) \in Nat /\ Fraction(e) \in Nat /\ Fraction(e) < OpenWeight
      /\ left * weight[e] = OpenWeight * Whole(e) + Fraction(e)
  BY WholeFacts
<1>2. /\ Whole(f) \in Nat /\ Fraction(f) \in Nat /\ Fraction(f) < OpenWeight
      /\ left * weight[f] = OpenWeight * Whole(f) + Fraction(f)
  BY WholeFacts
<1>3. OpenWeight \in Nat /\ left \in Nat /\ weight[e] \in Nat /\ weight[f] \in Nat
  BY InputFacts, OpenFacts
<1>4. \A p, q, r \in Nat : p > 0 /\ q > r => p * q > p * r /\ p * q \in Nat /\ p * r \in Nat
  <2>. SUFFICES ASSUME NEW p \in Nat, NEW q \in Nat, NEW r \in Nat, p > 0, q > r
                PROVE  p * q > p * r /\ p * q \in Nat /\ p * r \in Nat
    OBVIOUS
  <2>1. PICK d \in Nat : q = r + 1 + d
    <3>1. q - r - 1 \in Nat /\ q = r + 1 + (q - r - 1)
      OBVIOUS
    <3>. QED
      BY <3>1
  <2>2. p * q = p * r + p + p * d /\ p * d \in Nat /\ p * r \in Nat
    BY <2>1
  <2>. QED
    BY <2>2
<1>5. PICK a \in Nat, b \in Nat : a = left * weight[e] /\ b = left * weight[f]
  BY <1>3, <1>4
<1>6. a > b
  BY <1>3, <1>4, <1>5
<1>7. Whole(e) >= Whole(f) /\ (Whole(e) = Whole(f) => Fraction(e) > Fraction(f))
  BY <1>1, <1>2, <1>3, <1>5, <1>6, Quotients
<1>. QED
  BY <1>7 DEF ByFraction

\* A turn keeps the order of pay between two employees with different weights: the better
\* placed of the two reaches the cap first, or is earlier in the order of the fractions.
LEMMA ProportionalTurnPays ==
    ASSUME AllocationInv, AllocationInv', ProportionalTurn, NEW e \in Ids, NEW f \in Ids,
           weight[e] > weight[f], cents[e] >= cents[f]
    PROVE  cents'[e] >= cents'[f]
<1>1. TypeOK /\ Turn /\ OpenWeight > 0 /\ left > 0 /\ status = "allocating"
  BY DEF AllocationInv, ProportionalTurn, Turn
<1>2. /\ cents[e] \in Nat /\ cents[f] \in Nat /\ Cap \in Nat
      /\ Floored[e] \in Nat /\ Floored[f] \in Nat
      /\ cents[e] <= Floored[e] /\ Floored[e] <= Cap
      /\ cents[f] <= Floored[f] /\ Floored[f] <= Cap
  BY <1>1, InputFacts, FlooredFacts
<1>3. cents'[f] \in Nat /\ cents'[e] \in Nat /\ cents'[f] <= Cap
  <2>1. status' = "allocating" /\ Cap' = Cap
    BY <1>1 DEF ProportionalTurn, input, Cap
  <2>. QED
    BY <2>1, ProportionalTurnFacts DEF AllocationInv, WithinBounds
<1>4. /\ cents'[e] = Floored[e] + IF e \in LuckyByFraction THEN 1 ELSE 0
      /\ cents'[f] = Floored[f] + IF f \in LuckyByFraction THEN 1 ELSE 0
  BY ProportionalTurnFacts
<1>5. CASE e \notin Open
  <2>1. cents[e] >= Cap
    BY <1>2, <1>5 DEF Open
  <2>. QED
    BY <1>2, <1>3, <1>4, <2>1
<1>6. CASE e \in Open
  <2>1. f \in Open
    BY <1>2, <1>6 DEF Open
  <2>2. Floored[e] = cents[e] + Additional(e) /\ Floored[f] = cents[f] + Additional(f)
    BY <1>6, <2>1 DEF Floored
  <2>3. Whole(e) \in Nat /\ Whole(f) \in Nat /\ Whole(e) >= Whole(f)
    BY <1>1, WholeFacts, MoreWeight
  <2>4. Floored[e] >= Floored[f]
    BY <1>2, <2>2, <2>3 DEF Additional
  <2>5. CASE Floored[e] > Floored[f] \/ f \notin LuckyByFraction
    BY <1>2, <1>4, <2>4, <2>5
  <2>6. CASE Floored[e] = Floored[f] /\ f \in LuckyByFraction
    <3>1. f \in Under /\ Floored[f] < Cap
      BY <2>6, ProportionalTurnFacts DEF Under
    <3>2. e \in Under
      BY <1>6, <2>6, <3>1 DEF Under
    <3>3. Whole(e) = Whole(f)
      BY <1>2, <2>2, <2>3, <2>6, <3>1 DEF Additional
    <3>4. <<e, f>> \in ByFraction
      BY <1>1, <3>3, MoreWeight
    <3>5. Orders(ByFraction, Under) /\ IsFiniteSet(Under) /\ Rest \in Nat
      <4>1. Under \subseteq Ids
        BY ProportionalTurnFacts
      <4>. QED
        BY <1>1, <4>1, ByFractionOrders, FlooredFacts
    <3>6. e \in LuckyByFraction
      <4>1. f \in First(Under, Rest, ByFraction)
        BY <2>6 DEF LuckyByFraction
      <4>2. e \in First(Under, Rest, ByFraction)
        BY <3>2, <3>4, <3>5, <4>1, FirstClosed
      <4>. QED
        BY <4>2 DEF LuckyByFraction
    <3>. QED
      BY <1>2, <1>4, <2>6, <3>6
  <2>. QED
    BY <1>2, <2>4, <2>5, <2>6
<1>. QED
  BY <1>5, <1>6

LEMMA CentTurnPays ==
    ASSUME AllocationInv, AllocationInv', CentTurn, NEW e \in Ids, NEW f \in Ids,
           weight[e] > weight[f], cents[e] >= cents[f]
    PROVE  cents'[e] >= cents'[f]
<1>1. TypeOK /\ OpenWeight = 0 /\ status = "allocating"
  BY DEF AllocationInv, CentTurn, Turn
<1>2. cents[e] \in Nat /\ cents[f] \in Nat /\ Cap \in Nat /\ weight[e] \in Nat /\ weight[f] \in Nat
  BY <1>1, InputFacts
<1>3. cents'[f] \in Nat /\ cents'[e] \in Nat /\ cents'[f] <= Cap
  <2>1. status' = "allocating" /\ Cap' = Cap
    BY <1>1 DEF CentTurn, input, Cap
  <2>. QED
    BY <2>1, CentTurnFacts DEF AllocationInv, WithinBounds
<1>4. e \notin Open
  <2>. SUFFICES ASSUME e \in Open PROVE FALSE
    OBVIOUS
  <2>1. \A d \in Open : weight[d] \in Nat
    BY <1>1, OpenFacts, InputFacts
  <2>2. weight[e] <= SumFunctionOnSet(weight, Open)
    BY <1>1, <2>1, OpenFacts, SumBound
  <2>. QED
    BY <1>1, <1>2, <2>2 DEF OpenWeight
<1>5. cents[e] >= Cap
  BY <1>2, <1>4 DEF Open
<1>6. cents'[e] = cents[e] + IF e \in LuckyById THEN 1 ELSE 0
  BY CentTurnFacts
<1>. QED
  BY <1>2, <1>3, <1>5, <1>6

-----------------------------------------------------------------------------
\* Later turns only add cents.
LEMMA MoreCents ==
    ASSUME AllocationInv, AllocationInv', Turn, Accepted, Touched, status' = status, UNCHANGED input,
           \A e \in Ids : cents'[e] >= cents[e]
    PROVE  Touched'
<1>1. TypeOK /\ left > 0 /\ status = "allocating" /\ TypeOK' /\ status' = "allocating"
  BY DEF AllocationInv, Turn
<1>2. /\ Cap' = Cap /\ Cap \in Nat /\ SumFunction(weight)' = SumFunction(weight)
      /\ SumFunction(weight) \in Nat
  BY <1>1, InputFacts DEF input, Cap
<1>3. \A e \in Ids : cents[e] \in Nat /\ cents'[e] \in Nat /\ cents'[e] <= Cap
  BY <1>1, <1>2, InputFacts DEF AllocationInv, WithinBounds, TypeOK
<1>4. SomebodyCapped
  BY <1>1, InputFacts DEF Touched
<1>5. SomebodyCapped'
  <2>1. PICK e \in Ids : cents[e] = Cap
    BY <1>4 DEF SomebodyCapped
  <2>2. cents'[e] = Cap
    BY <1>2, <1>3, <2>1
  <2>. QED
    BY <1>2, <2>2 DEF SomebodyCapped
<1>6. RoundedDownAtLeast'
  <2>. SUFFICES ASSUME NEW e \in Ids
                PROVE  cents'[e] = Cap' \/ (cents'[e] + 1) * SumFunction(weight)' > (pool * weight[e])'
    BY DEF RoundedDownAtLeast
  <2>1. cents[e] = Cap \/ (cents[e] + 1) * SumFunction(weight) > pool * weight[e]
    BY DEF Touched, RoundedDownAtLeast
  <2>2. pool' = pool /\ weight' = weight /\ pool \in Nat /\ weight[e] \in Nat
    BY <1>1, InputFacts DEF input
  <2>3. CASE cents[e] = Cap
    BY <1>2, <1>3, <2>3
  <2>4. CASE (cents[e] + 1) * SumFunction(weight) > pool * weight[e]
    <3>1. \A c, d, s \in Nat : d >= c => (d + 1) * s >= (c + 1) * s
                                         /\ (d + 1) * s \in Nat /\ (c + 1) * s \in Nat
      OBVIOUS
    <3>2. \A p, q \in Nat : p * q \in Nat
      OBVIOUS
    <3>3. pool * weight[e] \in Nat
      BY <2>2, <3>2
    <3>4. /\ (cents'[e] + 1) * SumFunction(weight) >= (cents[e] + 1) * SumFunction(weight)
          /\ (cents'[e] + 1) * SumFunction(weight) \in Nat
          /\ (cents[e] + 1) * SumFunction(weight) \in Nat
      BY <1>2, <1>3, <3>1
    <3>5. (cents'[e] + 1) * SumFunction(weight) > pool * weight[e]
      BY <2>4, <3>3, <3>4
    <3>. QED
      BY <1>2, <2>2, <3>5
  <2>. QED
    BY <2>1, <2>3, <2>4
<1>7. percent' # 10000
  BY <1>1, InputFacts DEF Touched, input
<1>. QED
  BY <1>5, <1>6, <1>7 DEF Touched

\* The first turn divides the pool itself, among everybody.
LEMMA UntouchedFacts ==
    ASSUME AllocationInv, Turn, Untouched
    PROVE  /\ TypeOK /\ Accepted /\ status = "allocating" /\ left = pool
           /\ Open = Ids /\ OpenWeight = SumFunction(weight) /\ OpenWeight > 0
           /\ \A e \in Ids : /\ Whole(e) \in Nat /\ Fraction(e) \in Nat /\ Fraction(e) < OpenWeight
                             /\ pool * weight[e] = OpenWeight * Whole(e) + Fraction(e)
                             /\ Floored[e] = IF Whole(e) < Cap THEN Whole(e) ELSE Cap
<1>1. TypeOK /\ Accepted /\ status = "allocating" /\ left = pool
  BY DEF AllocationInv, Turn, Untouched
<1>2. Open = Ids
  BY <1>1, InputFacts DEF Open, Untouched, Accepted
<1>3. OpenWeight = SumFunction(weight) /\ OpenWeight > 0
  BY <1>1, <1>2, InputFacts DEF OpenWeight, Accepted
<1>4. \A e \in Ids : /\ Whole(e) \in Nat /\ Fraction(e) \in Nat /\ Fraction(e) < OpenWeight
                     /\ pool * weight[e] = OpenWeight * Whole(e) + Fraction(e)
  BY <1>1, <1>3, WholeFacts
<1>5. \A e \in Ids : Floored[e] = IF Whole(e) < Cap THEN Whole(e) ELSE Cap
  <2>. TAKE e \in Ids
  <2>1. Floored[e] = cents[e] + Additional(e) /\ cents[e] = 0 /\ Cap \in Nat /\ Whole(e) \in Nat
    BY <1>1, <1>2, <1>4, InputFacts DEF Floored, Untouched
  <2>. QED
    BY <2>1 DEF Additional
<1>. QED
  BY <1>1, <1>2, <1>3, <1>4, <1>5

WithFraction == {e \in Ids : Fraction(e) > 0}

LEMMA WholeAmounts ==
    ASSUME AllocationInv, Turn, Untouched, \A e \in Ids : Floored[e] = Whole(e)
    PROVE  Rest > 0 => Rest < Cardinality(WithFraction)
<1>. DEFINE whole == [e \in Ids |-> Whole(e)]
            part == [e \in Ids |-> Fraction(e)]
<1>1. /\ TypeOK /\ OpenWeight = SumFunction(weight) /\ OpenWeight > 0 /\ OpenWeight \in Nat
      /\ pool \in Nat /\ IsFiniteSet(Ids)
  BY UntouchedFacts, InputFacts
<1>2. OpenWeight = SumFunctionOnSet(weight, Ids)
  BY <1>1, InputFacts
<1>3. \A e \in Ids : /\ whole[e] = Whole(e) /\ part[e] = Fraction(e)
                     /\ weight[e] \in Nat /\ whole[e] \in Nat
                     /\ part[e] \in Nat /\ part[e] < OpenWeight
                     /\ pool * weight[e] = OpenWeight * whole[e] + part[e]
  BY <1>1, UntouchedFacts, InputFacts
<1>. HIDE DEF whole, part
<1>4. pool - SumFunctionOnSet(whole, Ids) > 0 =>
        pool - SumFunctionOnSet(whole, Ids) < Cardinality(WithFraction)
  <2>1. WithFraction \subseteq Ids /\ \A e \in Ids : e \notin WithFraction => part[e] = 0
    BY <1>3 DEF WithFraction
  <2>2. whole \in [Ids -> Nat] /\ part \in [Ids -> Nat] /\ weight \in [Ids -> Nat]
    <3>1. whole = [e \in Ids |-> whole[e]] /\ part = [e \in Ids |-> part[e]]
      BY DEF whole, part
    <3>2. weight = [e \in Ids |-> weight[e]]
      BY <1>1 DEF TypeOK
    <3>. QED
      BY <1>3, <3>1, <3>2
  <2>3. \A e \in Ids : part[e] < OpenWeight /\ pool * weight[e] = OpenWeight * whole[e] + part[e]
    BY <1>3
  <2>4. Divided(Ids, pool, weight, OpenWeight, whole, part)
    BY <2>3 DEF Divided
  <2>. QED
    BY <1>1, <1>2, <2>1, <2>2, <2>4, Leftover
<1>5. Rest = pool - SumFunctionOnSet(whole, Ids)
  <2>1. \A e \in Ids : whole[e] \in Int
    BY <1>3
  <2>2. \A e \in Ids : Floored[e] = whole[e]
    BY <1>3
  <2>3. SumFunctionOnSet(Floored, Ids) = SumFunctionOnSet(whole, Ids)
    BY <1>1, <2>1, <2>2, SumSame
  <2>4. SumFunction(Floored) = SumFunctionOnSet(Floored, Ids)
    BY <1>1, FlooredFacts
  <2>. QED
    BY <2>3, <2>4 DEF Rest
<1>. QED
  BY <1>4, <1>5

\* While nobody reaches the cap, the first turn is the last, and its cents go to fractions.
LEMMA EverybodyUnder ==
    ASSUME AllocationInv, Untouched, ProportionalTurn, \A e \in Ids : Floored[e] = Whole(e),
           Under = Ids
    PROVE  /\ left' = 0
           /\ \A e \in LuckyByFraction : Fraction(e) > 0
<1>1. TypeOK /\ Turn /\ OpenWeight > 0 /\ IsFiniteSet(Ids) /\ Rest \in Nat
  BY UntouchedFacts, InputFacts, FlooredFacts DEF AllocationInv, ProportionalTurn
<1>2. Rest > 0 => Rest < Cardinality(WithFraction)
  BY <1>1, WholeAmounts
<1>3. WithFraction \subseteq Ids /\ IsFiniteSet(WithFraction) /\ Cardinality(WithFraction) \in Nat
      /\ Cardinality(WithFraction) <= Cardinality(Ids) /\ Cardinality(Ids) \in Nat
  <2>1. WithFraction \subseteq Ids
    BY DEF WithFraction
  <2>. QED
    BY <1>1, <2>1, FS_Subset, FS_CardinalityType
<1>4. left' = 0
  <2>1. Rest <= Cardinality(Under)
    BY <1>1, <1>2, <1>3
  <2>. QED
    BY <1>1, <2>1, ProportionalTurnFacts
<1>5. ASSUME NEW e \in LuckyByFraction, ~(Fraction(e) > 0) PROVE FALSE
  <2>. DEFINE Pre == {f \in Ids : <<f, e>> \in ByFraction}
  <2>1. e \in Ids /\ Cardinality(Pre) < Rest
    BY DEF LuckyByFraction, First
  <2>2. \A f \in Ids : Fraction(f) \in Nat
    BY <1>1, WholeFacts
  <2>3. WithFraction \subseteq Pre
    BY <1>5, <2>1, <2>2 DEF WithFraction, ByFraction
  <2>4. IsFiniteSet(Pre)
    BY <1>1, FS_Subset
  <2>. HIDE DEF Pre
  <2>5. Cardinality(WithFraction) <= Cardinality(Pre) /\ Cardinality(Pre) \in Nat
    BY <2>3, <2>4, FS_Subset, FS_CardinalityType
  <2>. QED
    BY <1>1, <1>2, <1>3, <2>1, <2>5
<1>. QED
  BY <1>4, <1>5

\* The first turn rounds down, or adds less than a cent more.
LEMMA FirstTurnQuota ==
    ASSUME AllocationInv, AllocationInv', Untouched, ProportionalTurn
    PROVE  /\ RoundedDownAtLeast'
           /\ SomebodyCapped' \/ (left' = 0 /\ LessThanACentMore')
<1>1. Turn /\ TypeOK
  BY DEF AllocationInv, ProportionalTurn
<1>. DEFINE n == SumFunction(weight)
<1>2. /\ Cap' = Cap /\ Cap \in Nat /\ n' = n /\ n \in Nat /\ pool' = pool /\ weight' = weight
      /\ status' = "allocating" /\ n > 0 /\ n = OpenWeight
  BY <1>1, InputFacts, UntouchedFacts DEF ProportionalTurn, input, Cap
<1>. HIDE DEF n
<1>3. \A e \in Ids : cents'[e] \in Nat /\ cents'[e] <= Cap
  BY <1>2, ProportionalTurnFacts DEF AllocationInv, WithinBounds
<1>4. \A e \in Ids : /\ Whole(e) \in Nat /\ Fraction(e) \in Nat /\ Fraction(e) < n
                     /\ pool * weight[e] = n * Whole(e) + Fraction(e)
                     /\ Floored[e] = IF Whole(e) < Cap THEN Whole(e) ELSE Cap
  BY <1>1, <1>2, UntouchedFacts
<1>5. \A e \in Ids : cents'[e] = Floored[e] + IF e \in LuckyByFraction THEN 1 ELSE 0
  BY ProportionalTurnFacts
<1>6. \A c, m, w, r \in Nat : c >= w /\ r < m => (c + 1) * m > m * w + r
  <2>. SUFFICES ASSUME NEW c \in Nat, NEW m \in Nat, NEW w \in Nat, NEW r \in Nat, c >= w, r < m
                PROVE  (c + 1) * m > m * w + r
    OBVIOUS
  <2>1. PICK d \in Nat : c = w + d
    <3>1. c - w \in Nat /\ c = w + (c - w)
      OBVIOUS
    <3>. QED
      BY <3>1
  <2>2. (c + 1) * m = m * w + m + d * m /\ d * m \in Nat /\ m * w \in Nat
    BY <2>1
  <2>. QED
    BY <2>2
<1>7. RoundedDownAtLeast'
  <2>. SUFFICES ASSUME NEW e \in Ids
                PROVE  cents'[e] = Cap' \/ (cents'[e] + 1) * n' > pool' * weight'[e]
    BY DEF RoundedDownAtLeast, n
  <2>1. CASE Whole(e) < Cap
    <3>1. cents'[e] >= Whole(e)
      BY <1>3, <1>4, <1>5, <2>1
    <3>2. (cents'[e] + 1) * n > n * Whole(e) + Fraction(e)
      BY <1>2, <1>3, <1>4, <1>6, <3>1
    <3>. QED
      BY <1>2, <1>4, <3>2
  <2>2. CASE ~(Whole(e) < Cap)
    BY <1>2, <1>3, <1>4, <1>5, <2>2
  <2>. QED
    BY <2>1, <2>2
<1>8. ASSUME ~SomebodyCapped' PROVE left' = 0 /\ LessThanACentMore'
  <2>1. \A e \in Ids : cents'[e] < Cap
    BY <1>2, <1>3, <1>8 DEF SomebodyCapped
  <2>2. \A e \in Ids : Floored[e] = Whole(e) /\ Floored[e] < Cap
    BY <1>2, <1>3, <1>4, <1>5, <2>1
  <2>3. Under = Ids
    BY <1>1, <2>2, UntouchedFacts DEF Under
  <2>4. left' = 0 /\ \A e \in LuckyByFraction : Fraction(e) > 0
    BY <2>2, <2>3, EverybodyUnder
  <2>5. LessThanACentMore'
    <3>. SUFFICES ASSUME NEW e \in Ids PROVE (cents'[e] - 1) * n' < pool' * weight'[e]
      BY DEF LessThanACentMore, n
    <3>1. \A w, m, r \in Nat : /\ r > 0 => (w + 1 - 1) * m < m * w + r
                               /\ m > 0 => (w - 1) * m < m * w + r
      <4>. SUFFICES ASSUME NEW w \in Nat, NEW m \in Nat, NEW r \in Nat
                    PROVE  /\ r > 0 => (w + 1 - 1) * m < m * w + r
                           /\ m > 0 => (w - 1) * m < m * w + r
        OBVIOUS
      <4>1. w + 1 - 1 = w /\ (w - 1) * m = m * w - m /\ w * m = m * w /\ m * w \in Nat
        OBVIOUS
      <4>. QED
        BY <4>1
    <3>2. CASE e \in LuckyByFraction
      <4>1. cents'[e] = Whole(e) + 1 /\ Fraction(e) > 0
        BY <1>5, <2>2, <2>4, <3>2
      <4>2. (Whole(e) + 1 - 1) * n < n * Whole(e) + Fraction(e)
        BY <1>2, <1>4, <3>1, <4>1
      <4>. QED
        BY <1>2, <1>4, <4>1, <4>2
    <3>3. CASE e \notin LuckyByFraction
      <4>1. cents'[e] = Whole(e)
        BY <1>4, <1>5, <2>2, <3>3
      <4>2. (Whole(e) - 1) * n < n * Whole(e) + Fraction(e)
        BY <1>2, <1>4, <3>1
      <4>. QED
        BY <1>2, <1>4, <4>1, <4>2
    <3>. QED
      BY <3>2, <3>3
  <2>. QED
    BY <2>4, <2>5
<1>. QED
  BY <1>7, <1>8

\* Without a cap the first turn is the split of the ML service.
LEMMA FirstTurnAgrees ==
    ASSUME AllocationInv, Untouched, ProportionalTurn, percent = 10000
    PROVE  left' = 0 /\ cents' = AllocateCents(pool, weight)
<1>1. Turn /\ TypeOK
  BY DEF AllocationInv, ProportionalTurn
<1>2. Cap = pool /\ pool \in Nat /\ pool > 0
  <2>1. \A p \in Nat : (p * 10000) \div 10000 = p
    OBVIOUS
  <2>. QED
    BY <1>1, <2>1, InputFacts DEF Cap
<1>3. \A e \in Ids : /\ Whole(e) \in Nat /\ Fraction(e) \in Nat
                     /\ pool * weight[e] = OpenWeight * Whole(e) + Fraction(e)
                     /\ Floored[e] = IF Whole(e) < Cap THEN Whole(e) ELSE Cap
  BY <1>1, UntouchedFacts
<1>4. /\ OpenWeight = SumFunction(weight) /\ OpenWeight \in Nat /\ OpenWeight > 0 /\ left = pool
      /\ Open = Ids
  BY <1>1, UntouchedFacts, InputFacts
<1>5. \A e \in Ids : Whole(e) <= pool
  <2>. SUFFICES ASSUME NEW e \in Ids PROVE Whole(e) <= pool
    OBVIOUS
  <2>1. weight[e] <= OpenWeight /\ weight[e] \in Nat
    <3>1. \A d \in Ids : weight[d] \in Nat
      BY <1>1, InputFacts
    <3>2. weight[e] <= SumFunctionOnSet(weight, Ids)
      BY <1>1, <3>1, InputFacts, SumBound
    <3>. QED
      BY <1>1, <1>4, <3>1, <3>2, InputFacts
  <2>2. \A p, w, n, q, r \in Nat : w <= n /\ n > 0 /\ p * w = n * q + r => q <= p
    <3>. SUFFICES ASSUME NEW p \in Nat, NEW w \in Nat, NEW n \in Nat, NEW q \in Nat, NEW r \in Nat,
                         w <= n, n > 0, p * w = n * q + r, q > p
                  PROVE  FALSE
      OBVIOUS
    <3>1. PICK d \in Nat : n = w + d
      <4>1. n - w \in Nat /\ n = w + (n - w)
        OBVIOUS
      <4>. QED
        BY <4>1
    <3>2. PICK c \in Nat : q = p + 1 + c
      <4>1. q - p - 1 \in Nat /\ q = p + 1 + (q - p - 1)
        OBVIOUS
      <4>. QED
        BY <4>1
    <3>3. n * q = n * p + n + n * c /\ n * p = p * w + p * d
      BY <3>1, <3>2
    <3>4. n * c \in Nat /\ p * d \in Nat /\ p * w \in Nat
      OBVIOUS
    <3>. QED
      BY <3>3, <3>4
  <2>. QED
    BY <1>2, <1>3, <1>4, <2>1, <2>2
<1>6. \A e \in Ids : Floored[e] = Whole(e)
  BY <1>2, <1>3, <1>5
<1>7. /\ Rest \in Nat /\ SumFunction(Floored) \in Nat /\ Rest = pool - SumFunction(Floored)
      /\ Floored \in [Ids -> Nat] /\ SumFunction(Floored) = SumFunctionOnSet(Floored, Ids)
  BY <1>1, <1>4, FlooredFacts DEF Rest
<1>8. Rest > 0 => Under = Ids
  <2>. SUFFICES ASSUME Rest > 0, NEW e \in Ids PROVE Floored[e] < Cap
    BY <1>4 DEF Under
  <2>1. \A d \in Ids : Floored[d] \in Nat
    BY <1>7
  <2>2. Floored[e] <= SumFunctionOnSet(Floored, Ids)
    BY <1>1, <2>1, InputFacts, SumBound
  <2>. QED
    BY <1>2, <1>7, <2>1, <2>2
<1>9. LuckyByFraction = First(Ids, Rest, ByFraction)
  <2>1. CASE Rest > 0
    BY <1>8, <2>1 DEF LuckyByFraction
  <2>2. CASE Rest = 0
    <3>1. IsFiniteSet(Ids) /\ Orders(ByFraction, Ids)
      BY <1>1, <1>4, InputFacts, ByFractionOrders
    <3>2. IsFiniteSet(First(Ids, Rest, ByFraction)) /\ Cardinality(First(Ids, Rest, ByFraction)) = 0
      BY <1>7, <2>2, <3>1, FirstCount
    <3>3. First(Ids, Rest, ByFraction) = {}
      BY <3>2, FS_EmptySet
    <3>4. IsFiniteSet(LuckyByFraction) /\ Cardinality(LuckyByFraction) = 0
      <4>1. IsFiniteSet(LuckyByFraction)
        BY ProportionalTurnFacts, FS_Subset
      <4>. QED
        BY <2>2, <4>1, ProportionalTurnFacts
    <3>5. LuckyByFraction = {}
      BY <3>4, FS_EmptySet
    <3>. QED
      BY <3>3, <3>5
  <2>. QED
    BY <1>7, <2>1, <2>2
<1>10. left' = 0
  <2>1. CASE Rest > 0
    BY <1>6, <1>8, <2>1, EverybodyUnder
  <2>2. CASE Rest = 0
    BY <2>2, ProportionalTurnFacts
  <2>. QED
    BY <1>7, <2>1, <2>2
<1>11. cents' = AllocateCents(pool, weight)
  <2>. DEFINE sum == SumFunction(weight)
              whole == [i \in Ids |-> (pool * weight[i]) \div sum]
              part == [i \in Ids |-> (pool * weight[i]) % sum]
              leftover == pool - SumFunction(whole)
              before == {p \in Ids \X Ids :
                           \/ part[p[1]] > part[p[2]]
                           \/ part[p[1]] = part[p[2]] /\ p[1] < p[2]}
  <2>1. AllocateCents(pool, weight) =
          [i \in Ids |-> whole[i] + IF i \in First(Ids, leftover, before) THEN 1 ELSE 0]
    <3>1. DOMAIN weight = Ids
      BY <1>1 DEF TypeOK
    <3>. QED
      BY <3>1 DEF AllocateCents
  <2>2. \A i \in Ids : whole[i] = Whole(i) /\ part[i] = Fraction(i)
    BY <1>4 DEF Whole, Fraction
  <2>3. whole = Floored
    BY <1>6, <1>7, <2>2
  <2>4. leftover = Rest
    BY <1>7, <2>3
  <2>5. before = ByFraction
    BY <2>2 DEF ByFraction, ById
  <2>. HIDE DEF whole, part, leftover, before
  <2>6. AllocateCents(pool, weight) =
          [i \in Ids |-> Floored[i] + IF i \in LuckyByFraction THEN 1 ELSE 0]
    BY <1>9, <2>1, <2>3, <2>4, <2>5
  <2>7. cents' = [i \in Ids |-> Floored[i] + IF i \in LuckyByFraction THEN 1 ELSE 0]
    BY DEF ProportionalTurn, LuckyByFraction
  <2>. QED
    BY <2>6, <2>7
<1>. QED
  BY <1>10, <1>11

LEMMA FairInit == Init => FairInv
BY DEF Init, FairInv

LEMMA PaysStep ==
    ASSUME AllocationInv, AllocationInv', FairInv, ProportionalTurn \/ CentTurn
    PROVE  PayFollowsWeight'
<1>1. /\ status = "allocating" /\ status' = "allocating" /\ PayFollowsWeight
      /\ weight' = weight /\ minimum' = minimum
  BY DEF FairInv, ProportionalTurn, CentTurn, Turn, input
<1>. SUFFICES ASSUME NEW e \in Ids, NEW f \in Ids, minimum[e] = minimum[f], weight[e] > weight[f]
              PROVE  cents'[e] >= cents'[f]
  BY <1>1 DEF PayFollowsWeight
<1>2. cents[e] >= cents[f]
  BY <1>1 DEF PayFollowsWeight
<1>. QED
  BY <1>2, ProportionalTurnPays, CentTurnPays

LEMMA TouchedStep ==
    ASSUME AllocationInv, AllocationInv', FairInv, NoMinimums, ProportionalTurn \/ CentTurn
    PROVE  Touched'
<1>1. /\ TypeOK /\ TypeOK' /\ Turn /\ Accepted /\ status' = status /\ UNCHANGED input
      /\ status = "allocating"
  BY DEF AllocationInv, ProportionalTurn, CentTurn, Turn
<1>2. Untouched \/ Touched
  BY <1>1 DEF FairInv
<1>3. CASE Untouched /\ ProportionalTurn
  <2>1. percent' = 10000 => left' = 0 /\ cents' = AllocateCents(pool', weight')
    BY <1>1, <1>3, FirstTurnAgrees DEF input
  <2>. QED
    BY <1>3, <2>1, FirstTurnQuota DEF Touched
<1>4. CASE Untouched /\ CentTurn
  <2>1. OpenWeight > 0 /\ OpenWeight = 0
    BY <1>1, <1>4, UntouchedFacts DEF CentTurn
  <2>. QED
    BY <2>1
<1>5. CASE Touched
  <2>1. \A e \in Ids : cents'[e] >= cents[e]
    <3>. TAKE e \in Ids
    <3>1. CASE ProportionalTurn
      <4>1. OpenWeight > 0
        BY <3>1 DEF ProportionalTurn
      <4>2. cents[e] <= Floored[e] /\ cents[e] \in Nat /\ Floored[e] \in Nat
        BY <1>1, <4>1, FlooredFacts, InputFacts
      <4>3. cents'[e] = Floored[e] + IF e \in LuckyByFraction THEN 1 ELSE 0
        BY <3>1, ProportionalTurnFacts
      <4>. QED
        BY <4>2, <4>3
    <3>2. CASE CentTurn
      <4>1. cents'[e] = cents[e] + IF e \in LuckyById THEN 1 ELSE 0
        BY <3>2, CentTurnFacts
      <4>. QED
        BY <1>1, <4>1, InputFacts
    <3>. QED
      BY <3>1, <3>2
  <2>. QED
    BY <1>1, <1>5, <2>1, MoreCents
<1>. QED
  BY <1>2, <1>3, <1>4, <1>5

LEMMA FairStep ==
    ASSUME AllocationInv, AllocationInv', FairInv, [Next]_vars
    PROVE  FairInv'
<1>1. CASE Validate
  <2>. SUFFICES ASSUME status' \in {"allocating", "done"}
                PROVE  PayFollowsWeight' /\ (NoMinimums' => Untouched' \/ Touched')
    BY DEF FairInv
  <2>1. /\ TypeOK /\ cents' = minimum /\ left' = pool - SumFunction(minimum) /\ UNCHANGED input
    BY <1>1 DEF AllocationInv, Validate
  <2>2. PayFollowsWeight'
    BY <2>1, InputFacts DEF PayFollowsWeight, input
  <2>3. ASSUME NoMinimums' PROVE Untouched'
    <3>1. \A e \in Ids : minimum[e] = 0
      BY <2>1, <2>3 DEF NoMinimums, input
    <3>2. SumFunctionOnSet(minimum, Ids) = 0 * Cardinality(Ids)
      BY <2>1, <3>1, InputFacts, SumConst
    <3>3. left' = pool
      BY <2>1, <3>2, InputFacts
    <3>. QED
      BY <2>1, <3>1, <3>3 DEF Untouched, input
  <2>. QED
    BY <2>2, <2>3
<1>2. CASE ProportionalTurn \/ CentTurn
  <2>1. PayFollowsWeight'
    BY <1>2, PaysStep
  <2>2. NoMinimums' => NoMinimums
    BY <1>2 DEF NoMinimums, ProportionalTurn, CentTurn, input
  <2>3. NoMinimums => Touched'
    BY <1>2, TouchedStep
  <2>. QED
    BY <2>1, <2>2, <2>3 DEF FairInv
<1>3. CASE Finish \/ UNCHANGED vars
  <2>1. /\ UNCHANGED <<input, cents, left>>
        /\ status' \in {"allocating", "done"} => status \in {"allocating", "done"}
    BY <1>3 DEF Finish, vars
  <2>2. /\ PayFollowsWeight /\ status' \in {"allocating", "done"} /\ status \in {"allocating", "done"}
             => PayFollowsWeight'
        /\ NoMinimums' = NoMinimums /\ Untouched' = Untouched
    BY <2>1 DEF PayFollowsWeight, NoMinimums, Untouched, input
  <2>3. Touched' = Touched
    <3>1. Cap' = Cap
      BY <2>1 DEF Cap, input
    <3>2. /\ RoundedDownAtLeast' = RoundedDownAtLeast /\ SomebodyCapped' = SomebodyCapped
          /\ LessThanACentMore' = LessThanACentMore
      BY <2>1, <3>1 DEF RoundedDownAtLeast, SomebodyCapped, LessThanACentMore, input
    <3>. QED
      BY <2>1, <3>2 DEF Touched, input
  <2>. QED
    BY <2>1, <2>2, <2>3 DEF FairInv
<1>. QED
  BY <1>1, <1>2, <1>3 DEF Next

LEMMA FairEnd ==
    ASSUME AllocationInv, FairInv
    PROVE  FairShares
<1>1. PayFollowsWeight
  BY DEF FairInv, PayFollowsWeight
<1>2. ASSUME status = "done", NoMinimums PROVE Touched
  <2>1. left = 0 /\ TypeOK
    BY <1>2 DEF AllocationInv, WithinBounds
  <2>2. ~Untouched
    BY <2>1, InputFacts DEF Untouched
  <2>. QED
    BY <1>2, <2>2 DEF FairInv
<1>3. Quota
  BY <1>2 DEF Quota, NoMinimums, Touched, RoundedDownAtLeast, SomebodyCapped, LessThanACentMore
<1>4. AgreesWithMlService
  BY <1>2 DEF AgreesWithMlService, NoMinimums, Touched
<1>. QED
  BY <1>1, <1>3, <1>4 DEF FairShares

\* More weight never means less pay; without minimums everybody gets the proportional amount
\* rounded down at least, or the cap, and less than a cent more unless somebody is capped;
\* and without bounds the amounts are those of the ML service (allocation.ts:300-360,
\* apps/ml-service/app/models/distribution_allocation.py:7-54).
THEOREM SharesAreFair == Spec => []FairShares
<1>1. Init => AllocationInv /\ FairInv
  BY AllocationInit, FairInit
<1>2. AllocationInv /\ FairInv /\ [Next]_vars => AllocationInv' /\ FairInv'
  BY AllocationStep, FairStep
<1>3. AllocationInv /\ FairInv => FairShares
  BY FairEnd
<1>. QED
  BY <1>1, <1>2, <1>3, PTL DEF Spec

-----------------------------------------------------------------------------
(* The split: progress *)

\* Every turn of the loop of distributeRemainder hands out a cent at least, so that the loop
\* ends after as many turns as there are cents (allocation.ts:300-360).
EachTurnGives == [][ProportionalTurn \/ CentTurn => left' < left]_vars

LEMMA TurnGives ==
    ASSUME AllocationInv, ProportionalTurn \/ CentTurn
    PROVE  left' < left
<1>1. TypeOK /\ left \in Nat /\ left > 0 /\ SumFunction(cents) + left = pool /\ Turn
      /\ SumFunction(cents) \in Nat /\ pool \in Nat /\ NeverStuck
  BY NotStuck, InputFacts DEF AllocationInv, WithinBounds, ProportionalTurn, CentTurn, Turn
<1>2. CASE ProportionalTurn
  <2>1. OpenWeight > 0 /\ TypeOK
    BY <1>1, <1>2 DEF ProportionalTurn
  <2>2. /\ SumFunction(Floored) \in Nat /\ Rest \in Nat /\ IsFiniteSet(Under)
        /\ Rest = pool - SumFunction(Floored)
    BY <1>1, <2>1, FlooredFacts DEF Rest
  <2>3. SumFunction(cents) <= SumFunction(Floored)
    <3>1. \A e \in Ids : cents[e] \in Int /\ Floored[e] \in Int
      BY <1>1, <2>1, FlooredFacts, InputFacts
    <3>2. \A e \in Ids : cents[e] <= Floored[e]
      BY <1>1, <2>1, FlooredFacts
    <3>3. SumFunctionOnSet(cents, Ids) <= SumFunctionOnSet(Floored, Ids)
      BY <1>1, <3>1, <3>2, InputFacts, SumLeq
    <3>. QED
      BY <1>1, <2>1, <3>3, FlooredFacts, InputFacts
  <2>4. Rest <= left
    BY <1>1, <2>2, <2>3
  <2>5. left' = Rest - Cardinality(LuckyByFraction) /\ Cardinality(LuckyByFraction) \in Nat
    BY <1>2, ProportionalTurnFacts
  <2>6. CASE Rest > 0
    <3>1. Under # {} /\ Under \subseteq Ids
      BY <1>1, <1>2, <2>1, <2>6, ProportionalTurnFacts DEF NeverStuck
    <3>2. Orders(ByFraction, Under)
      BY <2>1, <3>1, ByFractionOrders
    <3>3. Cardinality(LuckyByFraction) > 0
      BY <2>2, <2>6, <3>1, <3>2, FirstSome DEF LuckyByFraction
    <3>. QED
      BY <1>1, <2>2, <2>4, <2>5, <3>3
  <2>7. CASE Rest = 0
    BY <1>1, <2>5, <2>7
  <2>. QED
    BY <2>2, <2>6, <2>7
<1>3. CASE CentTurn
  <2>1. left' = left - Cardinality(LuckyById) /\ Cardinality(LuckyById) \in Nat
    BY <1>3, CentTurnFacts
  <2>2. Open # {} /\ IsFiniteSet(Open) /\ Orders(ById, Open)
    BY <1>1, OpenFacts, ByIdOrders DEF NeverStuck
  <2>3. Cardinality(LuckyById) > 0
    BY <1>1, <2>2, FirstSome DEF LuckyById
  <2>. QED
    BY <1>1, <2>1, <2>3
<1>. QED
  BY <1>2, <1>3

\* The turns give, for every input: the variant that, with NeverStuck, makes every call return.
THEOREM TurnsGive == Spec => EachTurnGives
<1>1. Init => AllocationInv
  BY AllocationInit
<1>2. AllocationInv /\ [Next]_vars => AllocationInv'
  BY AllocationStep
<1>3. AllocationInv /\ [Next]_vars => [ProportionalTurn \/ CentTurn => left' < left]_vars
  BY TurnGives
<1>. QED
  BY <1>1, <1>2, <1>3, PTL DEF Spec, EachTurnGives

\* What the engine returns is a split of the pool between its employees, which is all that
\* TipDistribution takes it for (Splits): amounts of up to the pool that sum to it
\* (allocation.ts:219-291).
THEOREM EngineSplits ==
    Spec => [](status = "done" => cents \in [Ids -> 0..pool] /\ SumFunction(cents) = pool)
<1>1. ASSUME AllocationInv, status = "done"
      PROVE  cents \in [Ids -> 0..pool] /\ SumFunction(cents) = pool
  <2>1. /\ TypeOK /\ left = 0 /\ SumFunction(cents) + left = pool
        /\ \A e \in Ids : cents[e] <= Cap
    BY <1>1 DEF AllocationInv, WithinBounds
  <2>2. \A e \in Ids : cents[e] \in 0..pool
    BY <2>1, InputFacts
  <2>3. cents \in [Ids -> 0..pool]
    BY <2>1, <2>2 DEF TypeOK
  <2>. QED
    BY <2>1, <2>3, InputFacts
<1>. QED
  BY <1>1, AllocationInit, AllocationStep, PTL DEF Spec

-----------------------------------------------------------------------------
(* The weights: an answer and the rules that stand in *)

\* Teams with any sales, which the rules score as well.
Teams == [Team -> [role : Roles, base : Bases, sales : Nat]]

LEMMA AmountFacts ==
    /\ \A b \in Bases : b \in Nat /\ b > 0
    /\ \A s \in Sales : s \in Nat
    /\ \A b \in Bonuses : b \in Nat
    /\ \A w \in MlWeights : w \in Nat
    /\ Tolerance \in Nat /\ Rounding \in Nat
    /\ BonusUnit \in Nat /\ BonusUnit > 0 /\ ShareUnit \in Nat /\ ShareUnit > 0
<1>1. /\ \A b \in Bases : b \in Nat \ {0}
      /\ \A s \in Sales : s \in Nat
      /\ \A b \in Bonuses : b \in Nat
      /\ \A w \in MlWeights : w \in Nat
      /\ Tolerance \in Nat /\ Rounding \in Nat
      /\ BonusUnit \in Nat \ {0} /\ ShareUnit \in Nat \ {0}
  BY AmountsAssumption, Zenon
<1>2. \A n \in Nat \ {0} : n \in Nat /\ n > 0
  OBVIOUS
<1>. QED
  BY <1>1, <1>2

LEMMA MemberFacts ==
    ASSUME NEW t \in Teams, NEW e \in Team
    PROVE  /\ t[e].role \in Roles
           /\ t[e].base \in Nat /\ t[e].base > 0 /\ t[e].sales \in Nat
<1>1. t[e] \in [role : Roles, base : Bases, sales : Nat]
  BY DEF Teams
<1>2. t[e].role \in Roles /\ t[e].base \in Bases /\ t[e].sales \in Nat
  BY <1>1
<1>. QED
  BY <1>2, AmountFacts

LEMMA ReadFacts ==
    ASSUME ComputationTypeOK
    PROVE  team \in Teams /\ bonus \in Bonuses
<1>1. \A e \in Team : team[e] \in [role : Roles, base : Bases, sales : Nat]
  <2>. TAKE e \in Team
  <2>1. team[e] \in [role : Roles, base : Bases, sales : Sales]
    BY DEF ComputationTypeOK
  <2>. QED
    BY <2>1, AmountFacts
<1>. QED
  BY <1>1 DEF ComputationTypeOK, Teams

LEMMA SalesFacts ==
    ASSUME NEW t \in Teams
    PROVE  /\ IsFiniteSet(Team) /\ Sellers(t) \subseteq Team /\ IsFiniteSet(Sellers(t))
           /\ Cardinality(Sellers(t)) \in Nat
           /\ SalesIn(t, Sellers(t)) \in Nat
<1>1. IsFiniteSet(Team) /\ Sellers(t) \subseteq Team /\ IsFiniteSet(Sellers(t))
      /\ Cardinality(Sellers(t)) \in Nat
  <2>1. Sellers(t) \subseteq Team
    BY DEF Sellers
  <2>. QED
    BY <2>1, TeamAssumption, FS_Subset, FS_CardinalityType
<1>. DEFINE f == [e \in Team |-> t[e].sales]
<1>2. \A e \in Sellers(t) : f[e] \in Nat
  BY <1>1, MemberFacts
<1>. HIDE DEF f
<1>3. SumFunctionOnSet(f, Sellers(t)) \in Nat
  BY <1>1, <1>2, SumNat
<1>. QED
  BY <1>1, <1>3 DEF SalesIn, f

LEMMA AboveAverageFacts ==
    ASSUME NEW t \in Teams, NEW e \in Team
    PROVE  AboveAverage(t, e) \in Nat
<1>. DEFINE excess == Cardinality(Sellers(t)) * t[e].sales - SalesIn(t, Sellers(t))
<1>1. excess \in Int
  <2>1. \A p, q, r \in Nat : p * q - r \in Int
    OBVIOUS
  <2>. QED
    BY <2>1, SalesFacts, MemberFacts
<1>2. AboveAverage(t, e) = IF e \in Sellers(t) /\ excess > 0 THEN excess ELSE 0
  BY DEF AboveAverage
<1>. HIDE DEF excess
<1>. QED
  BY <1>1, <1>2

\* Everybody has a positive score, since hours and coefficients are.
LEMMA ScoreFacts ==
    ASSUME bonus \in Bonuses, NEW t \in Teams
    PROVE  /\ \A e \in Team : Score(t, e) \in Nat /\ Score(t, e) > 0
           /\ TotalScore(t) = SumFunctionOnSet([e \in Team |-> Score(t, e)], Team)
           /\ TotalScore(t) \in Nat
<1>1. ASSUME NEW e \in Team PROVE Score(t, e) \in Nat /\ Score(t, e) > 0
  <2>. DEFINE sold == SalesIn(t, Sellers(t))
              a == AboveAverage(t, e)
  <2>1. /\ sold \in Nat /\ a \in Nat /\ t[e].base \in Nat /\ BonusUnit \in Nat /\ bonus \in Nat
        /\ t[e].base > 0 /\ BonusUnit > 0
    BY SalesFacts, AboveAverageFacts, MemberFacts, AmountFacts
  <2>2. Score(t, e) = t[e].base * IF sold = 0 THEN BonusUnit ELSE BonusUnit * sold + bonus * a
    BY DEF Score
  <2>. HIDE DEF sold, a
  <2>3. \A p, q \in Nat : p * q \in Nat /\ (p > 0 /\ q > 0 => p * q > 0)
    BY ProductTypes
  <2>4. sold # 0 => BonusUnit * sold + bonus * a \in Nat /\ BonusUnit * sold + bonus * a > 0
    BY <2>1, <2>3
  <2>. DEFINE factor == IF sold = 0 THEN BonusUnit ELSE BonusUnit * sold + bonus * a
  <2>5. factor \in Nat /\ factor > 0
    BY <2>1, <2>4
  <2>. HIDE DEF factor
  <2>6. t[e].base * factor \in Nat /\ t[e].base * factor > 0
    BY <2>1, <2>3, <2>5
  <2>. QED
    BY <2>2, <2>6 DEF factor
<1>. DEFINE f == [e \in Team |-> Score(t, e)]
<1>2. TotalScore(t) = SumFunctionOnSet(f, Team)
  BY DEF TotalScore, SumFunction
<1>3. \A e \in Team : f[e] \in Nat
  BY <1>1
<1>4. TotalScore(t) \in Nat
  <2>. HIDE DEF f
  <2>. QED
    BY <1>2, <1>3, SalesFacts, SumNat
<1>. QED
  BY <1>1, <1>2, <1>4

-----------------------------------------------------------------------------
\* Some weight makes the sum positive.
LEMMA WeighsSomething ==
    ASSUME NEW w \in [Team -> Nat]
    PROVE  /\ SumFunction(w) \in Nat
           /\ \A e \in Team : w[e] > 0 => SumFunction(w) > 0
<1>1. SumFunction(w) = SumFunctionOnSet(w, Team) /\ IsFiniteSet(Team)
  BY SumIsOnDomain, TeamAssumption
<1>2. \A e \in Team : w[e] \in Nat
  OBVIOUS
<1>3. SumFunctionOnSet(w, Team) \in Nat
  BY <1>1, <1>2, SumNat
<1>4. \A e \in Team : w[e] <= SumFunctionOnSet(w, Team)
  BY <1>1, <1>2, SumBound
<1>. QED
  BY <1>1, <1>2, <1>3, <1>4

\* What the client lets through, whatever its tolerance, names everybody once: the calculator
\* has no more to object to than the sum of the shares.
LEMMA RowFacts ==
    ASSUME NEW rows \in Seq(Row), NEW t, Passes(rows, t)
    PROVE  /\ Named(rows) = Team
           /\ Off(rows) <= Tolerance => Indexed(rows)
           /\ \A i, j \in DOMAIN rows : rows[i].id = rows[j].id => i = j
<1>. DEFINE f == [i \in DOMAIN rows |-> rows[i].id]
            n == Len(rows)
<1>1. DOMAIN rows = 1..n /\ n \in Nat
  OBVIOUS
<1>2. Named(rows) \subseteq Team /\ n = Cardinality(Team) /\ IsInjective(f)
  BY DEF Passes
<1>3. \A i \in DOMAIN rows : f[i] = rows[i].id /\ f[i] \in Named(rows)
  BY DEF Named
<1>4. f \in [1..n -> Team]
  BY <1>1, <1>2, <1>3
<1>5. f \in Injection(1..n, Team)
  BY <1>2, <1>4 DEF Injection
<1>. HIDE DEF f, n
<1>6. IsFiniteSet(Team) /\ IsFiniteSet(1..n) /\ Cardinality(1..n) = n
  BY <1>1, TeamAssumption, FS_Interval
<1>7. f \in Surjection(1..n, Team)
  BY <1>2, <1>5, <1>6, FS_Injection
<1>8. Team \subseteq Named(rows)
  BY <1>1, <1>3, <1>7 DEF Surjection
<1>9. \A i, j \in DOMAIN rows : rows[i].id = rows[j].id => i = j
  <2>1. DOMAIN f = DOMAIN rows
    BY DEF f
  <2>. QED
    BY <1>2, <1>3, <2>1 DEF IsInjective
<1>. QED
  BY <1>2, <1>8, <1>9 DEF Indexed, n

\* Each employee's row, and the sum of their shares.
LEMMA AnswerFacts ==
    ASSUME answer \in Seq(Row), MayPass(answer)
    PROVE  /\ \A e \in Team : RowOf(e).share \in Nat /\ RowOf(e).weight \in Nat
           /\ \A i \in DOMAIN answer : answer[i].id \in Team /\ RowOf(answer[i].id) = answer[i]
           /\ \A i \in DOMAIN answer : answer[i].weight \in Nat
           /\ SumFunctionOnSet([e \in Team |-> RowOf(e).share], Team) = ShareSum(answer)
           /\ ShareSum(answer) \in Nat /\ Off(answer) \in Nat
<1>. DEFINE tolerance == Tolerance + Rounding
<1>0. Passes(answer, tolerance)
  BY DEF MayPass
<1>. HIDE DEF tolerance
<1>1. \A i \in DOMAIN answer : answer[i].share \in Nat /\ answer[i].weight \in Nat
  <2>1. \A i \in DOMAIN answer : answer[i] \in Row
    OBVIOUS
  <2>. QED
    <3>1. ASSUME NEW row \in Row PROVE row.share \in Nat /\ row.weight \in Nat
      <4>1. row.weight \in MlWeights /\ row.share \in 0..ShareUnit
        BY DEF Row
      <4>. QED
        BY <4>1, AmountFacts
    <3>. QED
      BY <2>1, <3>1
<1>2. \A i \in DOMAIN answer : answer[i].id \in Team /\ RowOf(answer[i].id) = answer[i]
  <2>. TAKE i \in DOMAIN answer
  <2>1. answer[i].id \in Team
    BY <1>0, RowFacts DEF Named
  <2>. DEFINE c == CHOOSE j \in DOMAIN answer : answer[j].id = answer[i].id
  <2>2. c \in DOMAIN answer /\ answer[c].id = answer[i].id
    OBVIOUS
  <2>3. RowOf(answer[i].id) = answer[c]
    BY DEF RowOf
  <2>. HIDE DEF c
  <2>. QED
    BY <1>0, <2>1, <2>2, <2>3, RowFacts
<1>3. \A e \in Team : RowOf(e).share \in Nat /\ RowOf(e).weight \in Nat
  <2>. TAKE e \in Team
  <2>1. PICK i \in DOMAIN answer : answer[i].id = e
    BY <1>0, RowFacts DEF Named
  <2>. QED
    BY <1>1, <1>2, <2>1
<1>. DEFINE f == [i \in DOMAIN answer |-> answer[i].share]
            g == [e \in Team |-> RowOf(e).share]
            r == [i \in DOMAIN answer |-> answer[i].id]
<1>4. ShareSum(answer) = SumFunctionOnSet(f, DOMAIN answer)
  BY DEF ShareSum, SumFunction
<1>5. /\ \A i \in DOMAIN answer : f[i] \in Int /\ g[r[i]] = f[i]
      /\ \A i, j \in DOMAIN answer : r[i] = r[j] => i = j
  <2>1. \A i, j \in DOMAIN answer : r[i] = r[j] => i = j
    BY <1>0, RowFacts
  <2>2. \A i \in DOMAIN answer : f[i] = answer[i].share /\ r[i] = answer[i].id
    OBVIOUS
  <2>3. \A i \in DOMAIN answer : g[answer[i].id] = answer[i].share
    BY <1>2
  <2>. HIDE DEF f, g, r
  <2>. QED
    BY <1>1, <2>1, <2>2, <2>3
<1>6. {r[i] : i \in DOMAIN answer} = Team
  BY <1>0, RowFacts DEF Named
<1>7. IsFiniteSet(DOMAIN answer)
  <2>1. DOMAIN answer = 1..Len(answer) /\ Len(answer) \in Nat
    OBVIOUS
  <2>. QED
    BY <2>1, FS_Interval
<1>8. SumFunctionOnSet(g, Team) = SumFunctionOnSet(f, DOMAIN answer)
  <2>. HIDE DEF f, g, r
  <2>1. SumFunctionOnSet(g, {r[i] : i \in DOMAIN answer}) = SumFunctionOnSet(f, DOMAIN answer)
    BY <1>5, <1>7, SumReindexed
  <2>. QED
    BY <1>6, <2>1
<1>9. ShareSum(answer) \in Nat
  <2>1. \A i \in DOMAIN answer : f[i] \in Nat
    BY <1>1
  <2>. HIDE DEF f
  <2>. QED
    BY <1>4, <1>7, <2>1, SumNat
<1>10. Off(answer) \in Nat
  BY <1>9, AmountFacts DEF Off
<1>. QED
  BY <1>1, <1>2, <1>3, <1>4, <1>8, <1>9, <1>10

\* The invariant of a call: what was asked for, what was let through, and what was computed
\* from it.
ComputationInv ==
    /\ ComputationTypeOK
    /\ RulesStandIn
    /\ EveryoneWeighs
    /\ step \in {"asked", "answered", "unavailable"} =>
         mode # "RULES_ONLY" /\ declared /\ ClientTakesHours
    /\ step \in {"new", "asked", "answered", "unavailable"} => method = "NONE"
    /\ step = "answered" => MayPass(answer)
    /\ method = "ML_ASSISTED" =>
         MayPass(answer) /\ weights = [e \in Team |-> Blend(e)]

LEMMA ComputationBegins == ComputationInit => ComputationInv
<1>. SUFFICES ASSUME ComputationInit PROVE ComputationInv
  OBVIOUS
<1>1. answer \in Seq(Row) /\ weights \in [Team -> Nat]
  BY DEF ComputationInit
<1>2. ComputationTypeOK
  BY <1>1 DEF ComputationInit, ComputationTypeOK
<1>. QED
  BY <1>2 DEF ComputationInit, ComputationInv, RulesStandIn, EveryoneWeighs

LEMMA RulesWeigh ==
    ASSUME ComputationInv, ComputeByRules, step \in {"new", "unavailable"},
           step = "new" => mode = "RULES_ONLY" \/ ~declared
    PROVE  ComputationInv'
<1>1. ComputationTypeOK
  BY DEF ComputationInv
<1>2. team \in Teams /\ bonus \in Bonuses
  BY <1>1, ReadFacts
<1>3. \A e \in Team : Score(team, e) \in Nat /\ Score(team, e) > 0
  BY <1>2, ScoreFacts
<1>4. weights' \in [Team -> Nat]
  BY <1>1, <1>3 DEF ComputeByRules, ComputationTypeOK
<1>5. /\ step' \in {"computed", "rejected"} /\ method' \in {"NONE", "RULES"}
      /\ UNCHANGED <<mode, declared, times, team, bonus, answer>>
      /\ step' = "rejected" => ~declared
  BY DEF ComputeByRules, ComputationInv, given
<1>6. ComputationTypeOK'
  BY <1>1, <1>4, <1>5 DEF ComputationTypeOK
<1>7. EveryoneWeighs'
  <2>1. step' = "computed" => weights' = [e \in Team |-> Score(team, e)]
    BY DEF ComputeByRules
  <2>2. step' = "computed" => \A e \in Team : weights'[e] > 0
    BY <1>3, <2>1
  <2>3. step' = "computed" => SumFunction(weights') > 0
    BY <1>4, <2>2, TeamAssumption, WeighsSomething
  <2>. QED
    BY <2>2, <2>3 DEF EveryoneWeighs
<1>. QED
  BY <1>5, <1>6, <1>7 DEF ComputationInv, RulesStandIn, ClientTakesHours

\* The weights of a blend are positive, so only ML_FULL can have none.
LEMMA MlAllocandsFacts ==
    ASSUME ComputationTypeOK, MayPass(answer), mode \in {"ML_ASSISTED", "ML_FULL"}
    PROVE  /\ MlAllocands \in [Team -> Nat]
           /\ mode = "ML_ASSISTED" => /\ MlAllocands = [e \in Team |-> Blend(e)]
                                      /\ \A e \in Team : MlAllocands[e] > 0
           /\ ~Weighted => mode = "ML_FULL" /\ Weightless(answer)
<1>1. team \in Teams /\ bonus \in Bonuses /\ answer \in Seq(Row)
  BY ReadFacts DEF ComputationTypeOK
<1>2. \A e \in Team : RowOf(e).weight \in Nat /\ Blend(e) \in Nat /\ Blend(e) > 0
  <2>. TAKE e \in Team
  <2>1. RowOf(e).share \in Nat /\ RowOf(e).weight \in Nat
    BY <1>1, AnswerFacts
  <2>2. /\ Score(team, e) \in Nat /\ Score(team, e) > 0 /\ TotalScore(team) \in Nat
        /\ ShareUnit \in Nat /\ ShareUnit > 0
    BY <1>1, ScoreFacts, AmountFacts
  <2>. DEFINE m == RowOf(e).share * TotalScore(team)
              r == Score(team, e) * ShareUnit
  <2>3. m \in Nat /\ r \in Nat /\ r > 0
    BY <2>1, <2>2, ProductTypes
  <2>4. Blend(e) = m + r
    BY DEF Blend
  <2>. HIDE DEF m, r
  <2>. QED
    BY <2>1, <2>3, <2>4
<1>3. MlAllocands \in [Team -> Nat]
  BY <1>2 DEF MlAllocands
<1>4. /\ mode = "ML_ASSISTED" => /\ MlAllocands = [e \in Team |-> Blend(e)]
                                 /\ \A e \in Team : MlAllocands[e] > 0
      /\ mode = "ML_FULL" => \A e \in Team : MlAllocands[e] = RowOf(e).weight
  BY <1>2 DEF MlAllocands
<1>5. ~Weighted => \A e \in Team : ~(MlAllocands[e] > 0)
  BY <1>3, WeighsSomething DEF Weighted
<1>6. ~Weighted => mode = "ML_FULL"
  BY <1>4, <1>5, TeamAssumption
<1>7. ASSUME ~Weighted, NEW i \in DOMAIN answer PROVE answer[i].weight = 0
  <2>1. /\ answer[i].id \in Team /\ RowOf(answer[i].id) = answer[i]
        /\ answer[i].weight \in Nat
    BY <1>1, AnswerFacts
  <2>2. ~(MlAllocands[answer[i].id] > 0) /\ MlAllocands[answer[i].id] = answer[i].weight
    BY <1>4, <1>5, <1>6, <1>7, <2>1
  <2>. QED
    BY <2>1, <2>2
<1>. QED
  BY <1>3, <1>4, <1>6, <1>7 DEF Weightless

LEMMA AnswerWeighs ==
    ASSUME ComputationInv, UseAnswer
    PROVE  ComputationInv'
<1>1. /\ ComputationTypeOK /\ step = "answered" /\ MayPass(answer) /\ method = "NONE"
      /\ mode \in {"ML_ASSISTED", "ML_FULL"}
  BY DEF ComputationInv, UseAnswer, ComputationTypeOK, Modes
<1>2. answer \in Seq(Row)
  BY <1>1 DEF ComputationTypeOK
<1>3. UNCHANGED <<mode, declared, times, team, bonus, answer>>
  BY DEF UseAnswer, given
<1>4. /\ Weightless(answer)' = Weightless(answer) /\ Off(answer)' = Off(answer)
      /\ MayPass(answer)' = MayPass(answer)
  BY <1>3 DEF Weightless, Off, ShareSum, MayPass, Passes, Named
<1>5. CASE Indexed(answer) /\ Weighted
  <2>1. step' = "computed" /\ method' = mode /\ weights' = MlAllocands
    BY <1>5 DEF UseAnswer
  <2>2. weights' \in [Team -> Nat] /\ SumFunction(weights') > 0
    BY <1>1, <1>5, <2>1, MlAllocandsFacts DEF Weighted
  <2>3. ComputationTypeOK'
    BY <1>1, <1>3, <2>1, <2>2 DEF ComputationTypeOK
  <2>4. mode = "ML_ASSISTED" => /\ weights' = [e \in Team |-> Blend(e)]
                                /\ \A e \in Team : weights'[e] > 0
    BY <1>1, <2>1, MlAllocandsFacts
  <2>5. \A e \in Team : Blend(e)' = Blend(e)
    BY <1>3 DEF Blend, RowOf, TotalScore, Score, AboveAverage, SalesIn, Sellers
  <2>6. method' = "ML_ASSISTED" => MayPass(answer)' /\ weights' = [e \in Team |-> Blend(e)]'
    BY <1>1, <1>4, <2>1, <2>4, <2>5
  <2>7. method' # "ML_FULL" => \A e \in Team : weights'[e] > 0
    BY <1>1, <2>1, <2>4
  <2>. QED
    BY <2>1, <2>2, <2>3, <2>6, <2>7 DEF ComputationInv, RulesStandIn, EveryoneWeighs
<1>6. CASE ~(Indexed(answer) /\ Weighted)
  <2>1. step' = "rejected" /\ UNCHANGED <<method, weights>>
    BY <1>6 DEF UseAnswer
  <2>2. ComputationTypeOK'
    BY <1>1, <1>3, <2>1 DEF ComputationTypeOK
  <2>3. Off(answer) <= Tolerance => Indexed(answer)
    BY <1>1, <1>2, RowFacts DEF MayPass
  <2>4. Off(answer) \in Nat /\ Tolerance \in Nat
    BY <1>1, <1>2, AnswerFacts, AmountFacts
  <2>5. (mode = "ML_FULL" /\ Weightless(answer)) \/ Off(answer) > Tolerance
    BY <1>1, <1>6, <2>3, <2>4, MlAllocandsFacts
  <2>. QED
    BY <1>1, <1>3, <1>4, <2>1, <2>2, <2>5 DEF ComputationInv, RulesStandIn, EveryoneWeighs
<1>. QED
  BY <1>5, <1>6

LEMMA PredictionArrives ==
    ASSUME ComputationInv, NEW echoed \in BOOLEAN,
           NEW rows \in BoundedSeq(Row, Cardinality(Team)), Receive(rows, echoed)
    PROVE  ComputationInv'
<1>1. rows \in Seq(Row)
  <2>1. PICK m \in 0..Cardinality(Team) : rows \in [1..m -> Row]
    BY DEF BoundedSeq, SeqOf
  <2>2. Cardinality(Team) \in Nat
    BY TeamAssumption, FS_CardinalityType
  <2>3. m \in Nat
    BY <2>2
  <2>. QED
    BY <2>1, <2>3
<1>2. /\ ComputationTypeOK /\ step = "asked" /\ method = "NONE"
      /\ mode # "RULES_ONLY" /\ declared /\ ClientTakesHours
  BY DEF ComputationInv, Receive
<1>3. UNCHANGED <<mode, declared, times, team, bonus, method, weights>>
  BY DEF Receive, given
<1>4. \/ step' = "answered" /\ MayPass(rows) /\ answer' = rows
      \/ step' = "unavailable" /\ answer' = answer
  BY DEF Receive
<1>5. ComputationTypeOK'
  BY <1>1, <1>2, <1>3, <1>4 DEF ComputationTypeOK
<1>6. step' = "answered" => MayPass(answer)'
  BY <1>4 DEF MayPass, Passes, Named, Off, ShareSum
<1>7. method' = "NONE" /\ mode' # "RULES_ONLY" /\ declared' /\ ClientTakesHours'
  BY <1>2, <1>3 DEF ClientTakesHours
<1>. QED
  BY <1>4, <1>5, <1>6, <1>7 DEF ComputationInv, RulesStandIn, EveryoneWeighs

LEMMA ComputationStep ==
    ComputationInv /\ [ComputationNext]_computationVars => ComputationInv'
<1>. SUFFICES ASSUME ComputationInv, [ComputationNext]_computationVars PROVE ComputationInv'
  OBVIOUS
<1>1. CASE Rules
  BY <1>1, RulesWeigh DEF Rules
<1>2. CASE Ask
  <2>1. /\ UNCHANGED <<mode, declared, times, team, bonus, answer, method, weights>>
        /\ step' = IF ClientTakesHours THEN "asked" ELSE "failed"
        /\ step = "new" /\ mode # "RULES_ONLY" /\ declared
    BY <1>2 DEF Ask, given
  <2>2. ComputationTypeOK'
    BY <2>1 DEF ComputationInv, ComputationTypeOK
  <2>. QED
    BY <2>1, <2>2 DEF ComputationInv, RulesStandIn, EveryoneWeighs, ClientTakesHours
<1>3. CASE Unavailable
  <2>1. /\ UNCHANGED <<mode, declared, times, team, bonus, answer, method, weights>>
        /\ step' = "unavailable" /\ step = "asked"
    BY <1>3 DEF Unavailable, given
  <2>2. ComputationTypeOK'
    BY <2>1 DEF ComputationInv, ComputationTypeOK
  <2>. QED
    BY <2>1, <2>2 DEF ComputationInv, RulesStandIn, EveryoneWeighs, ClientTakesHours
<1>4. CASE UseAnswer
  BY <1>4, AnswerWeighs
<1>5. CASE FallBack
  BY <1>5, RulesWeigh DEF FallBack
<1>6. ASSUME NEW echoed \in BOOLEAN, NEW rows \in BoundedSeq(Row, Cardinality(Team)),
             Receive(rows, echoed)
      PROVE  ComputationInv'
  BY <1>6, PredictionArrives
<1>7. CASE UNCHANGED computationVars
  <2>1. UNCHANGED <<mode, declared, times, team, bonus, step, answer, method, weights>>
    BY <1>7 DEF computationVars, given
  <2>2. ComputationTypeOK'
    BY <2>1 DEF ComputationInv, ComputationTypeOK
  <2>3. /\ MayPass(answer)' = MayPass(answer)
        /\ Weightless(answer)' = Weightless(answer) /\ Off(answer)' = Off(answer)
    BY <2>1 DEF MayPass, Passes, Named, Off, ShareSum, Weightless
  <2>4. \A e \in Team : Blend(e)' = Blend(e)
    BY <2>1 DEF Blend, RowOf, TotalScore, Score, AboveAverage, SalesIn, Sellers
  <2>5. [e \in Team |-> Blend(e)]' = [e \in Team |-> Blend(e)]
    BY <2>4
  <2>. QED
    BY <2>1, <2>2, <2>3, <2>5 DEF ComputationInv, RulesStandIn, EveryoneWeighs, ClientTakesHours
<1>. QED
  BY <1>1, <1>2, <1>3, <1>4, <1>5, <1>6, <1>7 DEF ComputationNext

\* A shift within one day that the rules would distribute fails in no mode. It is refused for
\* an answer of the ML service in two cases only: ML_FULL with weights that are all 0, and shares
\* outside the exact tolerance that the client's floats let pass. What is computed has some
\* weight, and outside ML_FULL everybody has (distribution.service.ts:217-248,
\* ml-client.service.ts:495-532, distribution-calculator.service.ts:276-323, allocation.ts:173-177).
THEOREM ComputationIsSafe == ComputationSpec => []ComputationSafe
<1>1. ComputationInv => ComputationSafe
  BY DEF ComputationInv, ComputationSafe
<1>. QED
  BY <1>1, ComputationBegins, ComputationStep, PTL DEF ComputationSpec

-----------------------------------------------------------------------------
(* The weights: a blended share *)

\* The weights of a blend sum to the total score times the sum of both kinds of shares.
LEMMA BlendsLieBetween ==
    ASSUME ComputationInv, method = "ML_ASSISTED"
    PROVE  BlendBetween
<1>1. /\ ComputationTypeOK /\ MayPass(answer) /\ answer \in Seq(Row)
      /\ weights = [e \in Team |-> Blend(e)]
  BY DEF ComputationInv, ComputationTypeOK
<1>2. team \in Teams /\ bonus \in Bonuses
  BY <1>1, ReadFacts
<1>. DEFINE t == TotalScore(team)
            m == [e \in Team |-> RowOf(e).share]
            r == [e \in Team |-> Score(team, e)]
            mt == [e \in Team |-> t * m[e]]
            rs == [e \in Team |-> ShareUnit * r[e]]
            W == SumFunction(weights)
            S == ShareSum(answer)
<1>3. /\ t \in Nat /\ t = SumFunctionOnSet(r, Team)
      /\ \A e \in Team : r[e] \in Nat
  BY <1>2, ScoreFacts
<1>4. /\ SumFunctionOnSet(m, Team) = S /\ S \in Nat
      /\ \A e \in Team : m[e] \in Nat
  BY <1>1, AnswerFacts
<1>5. ShareUnit \in Nat /\ IsFiniteSet(Team)
  BY AmountFacts, TeamAssumption
<1>6. \A e \in Team : weights[e] = m[e] * t + r[e] * ShareUnit
  BY <1>1 DEF Blend
<1>7. \A e \in Team : mt[e] = t * m[e] /\ rs[e] = ShareUnit * r[e]
  OBVIOUS
<1>8. W = SumFunctionOnSet(weights, Team)
  BY <1>1 DEF SumFunction
<1>. HIDE DEF t, m, r, mt, rs, W, S
<1>9. \A e \in Team : mt[e] \in Int /\ rs[e] \in Int /\ weights[e] = mt[e] + rs[e]
  <2>. TAKE e \in Team
  <2>1. mt[e] \in Nat /\ rs[e] \in Nat
    BY <1>3, <1>4, <1>5, <1>7, ProductTypes
  <2>2. t * m[e] = m[e] * t /\ ShareUnit * r[e] = r[e] * ShareUnit
    BY <1>3, <1>4, <1>5
  <2>. QED
    BY <1>6, <1>7, <2>1, <2>2
<1>10. SumFunctionOnSet(mt, Team) = t * S
  <2>1. t \in Int /\ \A e \in Team : m[e] \in Int
    BY <1>3, <1>4
  <2>2. SumFunctionOnSet(mt, Team) = t * SumFunctionOnSet(m, Team)
    BY <1>5, <1>7, <2>1, SumScaled
  <2>. QED
    BY <1>4, <2>2
<1>11. SumFunctionOnSet(rs, Team) = ShareUnit * t
  <2>1. ShareUnit \in Int /\ \A e \in Team : r[e] \in Int
    BY <1>3, <1>5
  <2>2. SumFunctionOnSet(rs, Team) = ShareUnit * SumFunctionOnSet(r, Team)
    BY <1>5, <1>7, <2>1, SumScaled
  <2>. QED
    BY <1>3, <2>2
<1>12. W = SumFunctionOnSet(mt, Team) + SumFunctionOnSet(rs, Team)
  <2>1. PICK A : A = Team
    OBVIOUS
  <2>2. A \subseteq Team /\ \A e \in Team : e \notin A => weights[e] = mt[e]
    BY <2>1
  <2>3. SumFunctionOnSet(weights, Team) = SumFunctionOnSet(mt, Team) + SumFunctionOnSet(rs, A)
    BY <1>5, <1>9, <2>2, SumAddOn
  <2>. QED
    BY <1>8, <2>1, <2>3
<1>13. W = t * (S + ShareUnit)
  BY <1>3, <1>4, <1>5, <1>10, <1>11, <1>12
<1>14. ASSUME NEW e \in Team
       PROVE  \/ m[e] * W <= weights[e] * S /\ weights[e] * t <= r[e] * W
              \/ r[e] * W <= weights[e] * t /\ weights[e] * S <= m[e] * W
  <2>1. m[e] \in Nat /\ r[e] \in Nat /\ S \in Nat /\ t \in Nat /\ ShareUnit \in Nat
    BY <1>3, <1>4, <1>5
  <2>. QED
    BY <1>6, <1>13, <2>1, Mediant
<1>15. \A e \in Team : m[e] = RowOf(e).share /\ r[e] = Score(team, e)
  BY DEF m, r
<1>. QED
  BY <1>14, <1>15 DEF BlendBetween, t, W, S

-----------------------------------------------------------------------------
(* The weights: sales that do not count *)

LEMMA SellingFacts ==
    ASSUME team \in Teams, NEW e \in Team, NEW s \in Sales
    PROVE  /\ Selling(e, s) \in Teams
           /\ Selling(e, s)[e].sales = s
           /\ \A f \in Team : /\ Selling(e, s)[f].role = team[f].role
                              /\ Selling(e, s)[f].base = team[f].base
                              /\ f # e => Selling(e, s)[f].sales = team[f].sales
           /\ Sellers(Selling(e, s)) = Sellers(team)
<1>1. s \in Nat
  BY AmountFacts
<1>2. Selling(e, s) = [team EXCEPT ![e] = [team[e] EXCEPT !.sales = s]]
  BY DEF Selling
<1>3. \A f \in Team : team[f] \in [role : Roles, base : Bases, sales : Nat]
  BY DEF Teams
<1>4. Selling(e, s) \in Teams
  BY <1>1, <1>2, <1>3 DEF Teams
<1>5. /\ Selling(e, s)[e].sales = s
      /\ \A f \in Team : /\ Selling(e, s)[f].role = team[f].role
                         /\ Selling(e, s)[f].base = team[f].base
                         /\ f # e => Selling(e, s)[f].sales = team[f].sales
  BY <1>2, <1>3 DEF Teams
<1>6. Sellers(Selling(e, s)) = Sellers(team)
  BY <1>5 DEF Sellers
<1>. QED
  BY <1>4, <1>5, <1>6

LEMMA SalesInIs ==
    ASSUME NEW t \in Teams, NEW S, S \subseteq Team
    PROVE  /\ SalesIn(t, S) = SumFunctionOnSet([e \in Team |-> t[e].sales], S)
           /\ \A e \in S : [f \in Team |-> t[f].sales][e] \in Nat
BY MemberFacts DEF SalesIn

\* Everything that the score of f depends on.
LEMMA ScoreDependsOn ==
    ASSUME NEW t, NEW u, NEW f \in Team,
           t[f].base = u[f].base, Sellers(t) = Sellers(u),
           SalesIn(t, Sellers(t)) = SalesIn(u, Sellers(u)),
           f \in Sellers(t) => t[f].sales = u[f].sales
    PROVE  Score(u, f) = Score(t, f)
<1>1. AboveAverage(u, f) = AboveAverage(t, f)
  <2>1. CASE f \in Sellers(t)
    BY <2>1 DEF AboveAverage
  <2>2. CASE f \notin Sellers(t)
    BY <2>2 DEF AboveAverage
  <2>. QED
    BY <2>1, <2>2
<1>. QED
  BY <1>1 DEF Score

LEMMA OthersAreIgnored ==
    ASSUME team \in Teams
    PROVE  OthersSalesIgnored
<1>. SUFFICES ASSUME NEW e \in Team \ Sellers(team), NEW s \in Sales, NEW f \in Team
              PROVE  Score(Selling(e, s), f) = Score(team, f)
  BY DEF OthersSalesIgnored
<1>. DEFINE u == Selling(e, s)
            g == [x \in Team |-> u[x].sales]
            h == [x \in Team |-> team[x].sales]
            S == Sellers(team)
<1>1. /\ u \in Teams /\ Sellers(u) = S
      /\ \A x \in Team : /\ u[x].base = team[x].base
                         /\ x # e => u[x].sales = team[x].sales
  BY SellingFacts
<1>2. S \subseteq Team /\ IsFiniteSet(S)
  BY SalesFacts
<1>3. SalesIn(u, S) = SumFunctionOnSet(g, S) /\ SalesIn(team, S) = SumFunctionOnSet(h, S)
  BY DEF SalesIn
<1>4. \A x \in S : g[x] \in Int /\ h[x] = g[x]
  <2>1. \A x \in S : u[x].sales \in Nat
    BY <1>1, <1>2, MemberFacts
  <2>. QED
    BY <1>1, <1>2, <2>1
<1>. HIDE DEF g, h, S, u
<1>5. SumFunctionOnSet(g, S) = SumFunctionOnSet(h, S)
  BY <1>2, <1>4, SumSame
<1>6. f \in S => u[f].sales = team[f].sales
  BY <1>1 DEF S
<1>7. Score(u, f) = Score(team, f)
  BY <1>1, <1>3, <1>5, <1>6, ScoreDependsOn DEF S
<1>. QED
  BY <1>7 DEF u

-----------------------------------------------------------------------------
(* The weights: what a sale changes *)

Sold(t) == SalesIn(t, Sellers(t))
Pace(t) == IF Sold(t) = 0 THEN 1 ELSE Sold(t)

LEMMA PaceFacts ==
    ASSUME NEW t \in Teams
    PROVE  Sold(t) \in Nat /\ Pace(t) \in Nat /\ Pace(t) > 0
BY SalesFacts DEF Sold, Pace

LEMMA SoldBound ==
    ASSUME NEW t \in Teams, NEW e \in Sellers(t)
    PROVE  t[e].sales \in Nat /\ t[e].sales <= Sold(t)
<1>. DEFINE f == [x \in Team |-> t[x].sales]
            S == Sellers(t)
<1>1. S \subseteq Team /\ IsFiniteSet(S) /\ e \in S
  BY SalesFacts
<1>2. \A x \in S : f[x] \in Nat
  BY <1>1, MemberFacts
<1>3. Sold(t) = SumFunctionOnSet(f, S)
  BY DEF Sold, SalesIn
<1>4. f[e] = t[e].sales
  BY <1>1
<1>. HIDE DEF f, S
<1>5. f[e] <= SumFunctionOnSet(f, S)
  BY <1>1, <1>2, SumBound
<1>. QED
  BY <1>1, <1>2, <1>3, <1>4, <1>5

LEMMA Excess ==
    ASSUME NEW t \in Teams, NEW e \in Sellers(t)
    PROVE  /\ Cardinality(Sellers(t)) * t[e].sales - Sold(t) \in Int
           /\ AboveAverage(t, e) =
                IF Cardinality(Sellers(t)) * t[e].sales - Sold(t) > 0
                THEN Cardinality(Sellers(t)) * t[e].sales - Sold(t) ELSE 0
<1>1. Cardinality(Sellers(t)) \in Nat /\ t[e].sales \in Nat /\ Sold(t) \in Nat
  BY SalesFacts, SoldBound, PaceFacts
<1>2. \A p, q, r \in Nat : p * q - r \in Int
  OBVIOUS
<1>. QED
  BY <1>1, <1>2 DEF AboveAverage, Sold

LEMMA NothingSold ==
    ASSUME NEW t \in Teams, Sold(t) = 0, NEW e \in Team
    PROVE  AboveAverage(t, e) = 0
<1>1. CASE e \in Sellers(t)
  <2>1. t[e].sales = 0
    BY <1>1, SoldBound
  <2>2. Cardinality(Sellers(t)) \in Nat
    BY SalesFacts
  <2>3. \A c \in Nat : c * 0 - 0 = 0
    OBVIOUS
  <2>4. Cardinality(Sellers(t)) * t[e].sales - Sold(t) = 0
    BY <2>1, <2>2, <2>3
  <2>. QED
    BY <1>1, <2>4, Excess
<1>2. CASE e \notin Sellers(t)
  BY <1>2 DEF AboveAverage
<1>. QED
  BY <1>1, <1>2

\* A score in one form, with or without sales.
LEMMA ScoreForm ==
    ASSUME bonus \in Bonuses, NEW t \in Teams, NEW e \in Team
    PROVE  Score(t, e) = t[e].base * (BonusUnit * Pace(t) + bonus * AboveAverage(t, e))
<1>1. /\ t[e].base \in Nat /\ BonusUnit \in Nat /\ bonus \in Nat
      /\ AboveAverage(t, e) \in Nat
  BY MemberFacts, AmountFacts, AboveAverageFacts
<1>2. CASE Sold(t) = 0
  <2>1. \A p, q \in Nat : p = p * 1 + q * 0
    OBVIOUS
  <2>2. Score(t, e) = t[e].base * BonusUnit
    BY <1>2 DEF Score, Sold
  <2>3. BonusUnit = BonusUnit * 1 + bonus * 0
    BY <1>1, <2>1
  <2>. QED
    BY <1>2, <2>2, <2>3, NothingSold DEF Pace
<1>3. CASE Sold(t) # 0
  BY <1>3 DEF Score, Sold, Pace
<1>. QED
  BY <1>2, <1>3

-----------------------------------------------------------------------------
\* In another currency all scores change by the same factor.
LEMMA TwiceTheSales ==
    ASSUME team \in Teams, bonus \in Bonuses, NEW d \in Teams,
           \A e \in Team : /\ d[e].role = team[e].role
                           /\ d[e].base = team[e].base
                           /\ d[e].sales = 2 * team[e].sales
    PROVE  \E k \in Int : \A e \in Team : Score(d, e) = k * Score(team, e)
<1>. DEFINE f == [e \in Team |-> team[e].sales]
            g == [e \in Team |-> d[e].sales]
            S == Sellers(team)
<1>1. S \subseteq Team /\ IsFiniteSet(S) /\ Cardinality(S) \in Nat
  BY SalesFacts
<1>2. Sellers(d) = S
  BY DEF Sellers
<1>3. Sold(team) = SumFunctionOnSet(f, S) /\ Sold(d) = SumFunctionOnSet(g, S)
  BY <1>2 DEF Sold, SalesIn
<1>4. \A e \in S : f[e] \in Int /\ g[e] = 2 * f[e]
  BY <1>1, MemberFacts
<1>5. Sold(d) = 2 * Sold(team) /\ Sold(team) \in Nat
  <2>1. PICK k \in Int : k = 2
    OBVIOUS
  <2>. HIDE DEF f, g, S
  <2>2. \A e \in S : f[e] \in Int
    BY <1>4
  <2>3. \A e \in S : g[e] = k * f[e]
    BY <1>4, <2>1
  <2>4. SumFunctionOnSet(g, S) = k * SumFunctionOnSet(f, S)
    BY <1>1, <2>2, <2>3, SumScaled
  <2>. QED
    BY <1>3, <2>1, <2>4, PaceFacts
<1>6. ASSUME NEW e \in Team PROVE AboveAverage(d, e) = 2 * AboveAverage(team, e)
  <2>1. CASE e \in S
    <3>. DEFINE c == Cardinality(S)
                x == team[e].sales
                E == c * x - Sold(team)
    <3>1. c \in Nat /\ x \in Nat /\ Sold(team) \in Nat
      BY <1>1, <1>5, MemberFacts
    <3>2. c * d[e].sales - Sold(d) = 2 * E
      <4>1. \A p, q, r \in Nat : p * (2 * q) - 2 * r = 2 * (p * q - r)
        OBVIOUS
      <4>. QED
        BY <1>5, <3>1, <4>1
    <3>3. E \in Int /\ AboveAverage(team, e) = IF E > 0 THEN E ELSE 0
      BY <2>1, Excess
    <3>4. AboveAverage(d, e) = IF 2 * E > 0 THEN 2 * E ELSE 0
      BY <1>2, <2>1, <3>2, Excess
    <3>. HIDE DEF E
    <3>. QED
      BY <3>3, <3>4
  <2>2. CASE e \notin S
    BY <1>2, <2>2 DEF AboveAverage
  <2>. QED
    BY <2>1, <2>2
<1>7. CASE Sold(team) = 0
  <2>1. PICK k \in Int : k = 1
    OBVIOUS
  <2>2. Pace(d) = Pace(team)
    BY <1>5, <1>7 DEF Pace
  <2>3. ASSUME NEW e \in Team PROVE Score(d, e) = k * Score(team, e)
    <3>1. Score(d, e) = Score(team, e)
      <4>1. AboveAverage(d, e) = AboveAverage(team, e)
        BY <1>6, <1>7, NothingSold
      <4>. QED
        BY <2>2, <4>1, ScoreForm
    <3>2. Score(team, e) \in Nat
      BY ScoreFacts
    <3>. QED
      BY <2>1, <3>1, <3>2
  <2>. QED
    BY <2>3
<1>8. CASE Sold(team) # 0
  <2>1. PICK k \in Int : k = 2
    OBVIOUS
  <2>2. Pace(d) = 2 * Pace(team)
    BY <1>5, <1>8 DEF Pace
  <2>3. ASSUME NEW e \in Team PROVE Score(d, e) = k * Score(team, e)
    <3>1. \A b, p, q, m, a \in Nat : b * (p * (2 * m) + q * (2 * a)) = 2 * (b * (p * m + q * a))
      <4>. TAKE b, p, q, m, a \in Nat
      <4>1. p * (2 * m) + q * (2 * a) = 2 * (p * m + q * a)
        OBVIOUS
      <4>. QED
        BY <4>1
    <3>2. /\ d[e].base = team[e].base /\ team[e].base \in Nat /\ BonusUnit \in Nat /\ bonus \in Nat
          /\ Pace(team) \in Nat /\ AboveAverage(team, e) \in Nat
      BY MemberFacts, AmountFacts, PaceFacts, AboveAverageFacts
    <3>3. Score(d, e) = team[e].base * (BonusUnit * (2 * Pace(team)) + bonus * (2 * AboveAverage(team, e)))
      BY <1>6, <2>2, <3>2, ScoreForm
    <3>. QED
      BY <2>1, <3>1, <3>2, <3>3, ScoreForm
  <2>. QED
    BY <2>3
<1>. QED
  BY <1>7, <1>8

LEMMA BonusesAreRelative ==
    ASSUME team \in Teams, bonus \in Bonuses
    PROVE  BonusIsRelative
<1>. DEFINE d == [e \in Team |-> [team[e] EXCEPT !.sales = 2 * @]]
<1>1. \A e \in Team : team[e] \in [role : Roles, base : Bases, sales : Nat]
  BY DEF Teams
<1>2. \A e \in Team : d[e] = [team[e] EXCEPT !.sales = 2 * team[e].sales]
  OBVIOUS
<1>3. /\ d \in Teams
      /\ \A e \in Team : /\ d[e].role = team[e].role
                         /\ d[e].base = team[e].base
                         /\ d[e].sales = 2 * team[e].sales
  BY <1>1, <1>2 DEF Teams
<1>. HIDE DEF d
<1>4. PICK k \in Int : \A e \in Team : Score(d, e) = k * Score(team, e)
  BY <1>3, TwiceTheSales
<1>. DEFINE f == [e \in Team |-> Score(team, e)]
            g == [e \in Team |-> Score(d, e)]
<1>5. /\ TotalScore(team) = SumFunctionOnSet(f, Team) /\ TotalScore(d) = SumFunctionOnSet(g, Team)
      /\ \A e \in Team : Score(team, e) \in Nat
      /\ TotalScore(team) \in Nat
  BY <1>3, ScoreFacts
<1>6. \A e \in Team : f[e] \in Int
  BY <1>5
<1>7. \A e \in Team : g[e] = k * f[e]
  BY <1>4
<1>8. TotalScore(d) = k * TotalScore(team)
  <2>. HIDE DEF f, g
  <2>1. SumFunctionOnSet(g, Team) = k * SumFunctionOnSet(f, Team)
    BY <1>6, <1>7, TeamAssumption, SumScaled
  <2>. QED
    BY <1>5, <2>1
<1>9. ASSUME NEW e \in Team
      PROVE  Score(d, e) * TotalScore(team) = Score(team, e) * TotalScore(d)
  <2>1. \A p, q \in Nat : (k * p) * q = p * (k * q)
    OBVIOUS
  <2>. QED
    BY <1>4, <1>5, <1>8, <2>1
<1>. QED
  BY <1>9 DEF BonusIsRelative, d

Positive(n) == IF n > 0 THEN n ELSE 0

\* The seller who sold d more, one of c sellers.
LEMMA ExcessGains ==
    ASSUME NEW c \in Nat, NEW x \in Nat, NEW sold \in Nat, NEW d \in Nat, x <= sold
    PROVE  Positive(c * x - sold) * (sold + d) <= Positive(c * (x + d) - (sold + d)) * sold
<1>. DEFINE A == Positive(c * x - sold)
            B == Positive(c * (x + d) - (sold + d))
<1>1. A \in Nat /\ B \in Nat
  <2>1. c * x - sold \in Int /\ c * (x + d) - (sold + d) \in Int
    OBVIOUS
  <2>2. \A i \in Int : Positive(i) \in Nat
    BY DEF Positive
  <2>. QED
    BY <2>1, <2>2
<1>2. CASE c * x <= sold
  <2>1. A = 0
    BY <1>2 DEF Positive
  <2>. HIDE DEF A, B
  <2>2. A * (sold + d) = 0 /\ B * sold \in Nat
    BY <1>1, <2>1
  <2>. QED
    BY <2>2 DEF A, B
<1>3. CASE ~(c * x <= sold)
  <2>1. PICK k \in Nat : c = k + 1
    <3>1. c # 0
      BY <1>3
    <3>2. c - 1 \in Nat /\ c = (c - 1) + 1
      BY <3>1
    <3>. QED
      BY <3>2
  <2>2. PICK g \in Nat : c * x = sold + g /\ g > 0
    <3>1. c * x \in Nat
      OBVIOUS
    <3>2. c * x - sold \in Nat /\ c * x = sold + (c * x - sold) /\ c * x - sold > 0
      BY <1>3, <3>1
    <3>. QED
      BY <3>2
  <2>3. A = g
    BY <2>2 DEF Positive
  <2>. DEFINE e == k * d
  <2>4. e \in Nat /\ c * d = e + d
    BY <2>1
  <2>5. c * (x + d) - (sold + d) = g + e
    <3>1. c * (x + d) = c * x + c * d
      OBVIOUS
    <3>. HIDE DEF e
    <3>. QED
      BY <2>2, <2>4, <3>1
  <2>6. B = g + e
    BY <2>2, <2>4, <2>5 DEF Positive
  <2>7. g <= k * sold
    <3>1. c * x <= c * sold
      BY TimesGrows
    <3>2. c * sold = k * sold + sold /\ k * sold \in Nat
      BY <2>1
    <3>. QED
      BY <2>2, <3>1, <3>2
  <2>8. g * d <= e * sold
    <3>1. k * sold \in Nat
      BY <2>1
    <3>2. g * d <= (k * sold) * d
      BY <2>7, <3>1, TimesGrows
    <3>3. (k * sold) * d = (k * d) * sold
      BY <2>1
    <3>. QED
      BY <3>2, <3>3
  <2>. HIDE DEF A, B, e
  <2>9. /\ A * (sold + d) = g * sold + g * d /\ B * sold = g * sold + e * sold
        /\ g * sold \in Nat /\ g * d \in Nat /\ e * sold \in Nat
    BY <2>3, <2>4, <2>6, ProductTypes
  <2>. QED
    BY <2>8, <2>9 DEF A, B
<1>. QED
  BY <1>2, <1>3

\* Another seller, when d more was sold.
LEMMA ExcessLoses ==
    ASSUME NEW c \in Nat, NEW y \in Nat, NEW sold \in Nat, NEW d \in Nat
    PROVE  /\ Positive(c * y - sold) \in Nat /\ Positive(c * y - (sold + d)) \in Nat
           /\ Positive(c * y - (sold + d)) <= Positive(c * y - sold)
<1>1. c * y \in Nat
  OBVIOUS
<1>. DEFINE p == c * y
<1>. HIDE DEF p
<1>2. /\ Positive(p - sold) \in Nat /\ Positive(p - (sold + d)) \in Nat
      /\ Positive(p - (sold + d)) <= Positive(p - sold)
  BY <1>1 DEF Positive, p
<1>. QED
  BY <1>2 DEF p

\* Weights per unit of sales compare as the excesses do.
LEMMA ScoresCompare ==
    ASSUME NEW b \in Nat, NEW u \in Nat, NEW n \in Nat, NEW k \in Nat, NEW m \in Nat,
           NEW p \in Nat, NEW q \in Nat, p * m <= q * k
    PROVE  (b * (u * k + n * p)) * m <= (b * (u * m + n * q)) * k
<1>. DEFINE pm == p * m
            qk == q * k
            z == (u * k) * m
<1>1. pm \in Nat /\ qk \in Nat /\ z \in Nat /\ n * pm \in Nat /\ n * qk \in Nat
  BY ProductTypes
<1>2. (b * (u * k + n * p)) * m = b * (z + n * pm)
  <2>1. (u * k + n * p) * m = z + n * pm
    OBVIOUS
  <2>2. u * k + n * p \in Nat
    OBVIOUS
  <2>3. \A s \in Nat : (b * s) * m = b * (s * m)
    OBVIOUS
  <2>. QED
    BY <2>1, <2>2, <2>3
<1>3. (b * (u * m + n * q)) * k = b * (z + n * qk)
  <2>1. (u * m + n * q) * k = z + n * qk
    OBVIOUS
  <2>2. u * m + n * q \in Nat
    OBVIOUS
  <2>3. \A s \in Nat : (b * s) * k = b * (s * k)
    OBVIOUS
  <2>. QED
    BY <2>1, <2>2, <2>3
<1>4. n * pm <= n * qk
  BY <1>1, TimesGrows
<1>. DEFINE s == z + n * pm
            r == z + n * qk
<1>5. s \in Nat /\ r \in Nat /\ s <= r
  BY <1>1, <1>4
<1>. HIDE DEF s, r
<1>6. b * s <= b * r
  BY <1>5, TimesGrows
<1>. QED
  BY <1>2, <1>3, <1>6 DEF s, r

\* A part that grows against a rest that shrinks, at the same scale.
LEMMA ShareGrows ==
    ASSUME NEW s \in Nat, NEW s2 \in Nat, NEW r \in Nat, NEW r2 \in Nat,
           NEW k \in Nat, NEW m \in Nat, k > 0,
           s * m <= s2 * k, r2 * k <= r * m
    PROVE  s * (s2 + r2) <= s2 * (s + r)
<1>1. s * (r2 * k) <= s * (r * m)
  <2>1. r2 * k \in Nat /\ r * m \in Nat
    OBVIOUS
  <2>. QED
    BY <2>1, TimesGrows
<1>2. (s * m) * r <= (s2 * k) * r
  <2>1. s * m \in Nat /\ s2 * k \in Nat
    OBVIOUS
  <2>. QED
    BY <2>1, TimesGrows
<1>3. s * (r2 * k) = k * (s * r2) /\ s * (r * m) = (s * m) * r /\ (s2 * k) * r = k * (s2 * r)
  OBVIOUS
<1>4. s * r2 \in Nat /\ s2 * r \in Nat /\ k * (s * r2) \in Nat /\ k * (s2 * r) \in Nat
      /\ (s * m) * r \in Nat /\ s * s2 \in Nat
  BY ProductTypes
<1>5. k * (s * r2) <= k * (s2 * r)
  BY <1>1, <1>2, <1>3, <1>4
<1>6. s * r2 <= s2 * r
  BY <1>4, <1>5, DividesOut
<1>7. s * (s2 + r2) = s * s2 + s * r2 /\ s2 * (s + r) = s * s2 + s2 * r
  OBVIOUS
<1>. QED
  BY <1>4, <1>6, <1>7

\* What e's sale of d more changes.
LEMMA SellMore ==
    ASSUME NEW t \in Teams, NEW u \in Teams, NEW e \in Sellers(t), NEW d \in Nat, d > 0,
           Sellers(u) = Sellers(t), u[e].sales = t[e].sales + d,
           \A f \in Team : f # e => u[f].sales = t[f].sales
    PROVE  /\ Sold(u) = Sold(t) + d
           /\ Pace(t) <= Pace(u)
           /\ AboveAverage(t, e) * Pace(u) <= AboveAverage(u, e) * Pace(t)
           /\ \A f \in Team : f # e =>
                AboveAverage(u, f) * Pace(t) <= AboveAverage(t, f) * Pace(u)
<1>. DEFINE S == Sellers(t)
            g == [x \in Team |-> t[x].sales]
            h == [x \in Team |-> u[x].sales]
            c == Cardinality(S)
<1>1. S \subseteq Team /\ IsFiniteSet(S) /\ e \in S /\ c \in Nat
  BY SalesFacts
<1>2. \A x \in S : g[x] \in Int /\ h[x] \in Int
  BY <1>1, MemberFacts
<1>3. Sold(t) = SumFunctionOnSet(g, S) /\ Sold(u) = SumFunctionOnSet(h, S)
  BY DEF Sold, SalesIn
<1>4. h[e] = g[e] + d /\ \A x \in S \ {e} : h[x] = g[x]
  BY <1>1
<1>5. Sold(u) = Sold(t) + d
  <2>. HIDE DEF S, g, h
  <2>1. SumFunctionOnSet(g, S) = g[e] + SumFunctionOnSet(g, S \ {e})
    BY <1>1, <1>2, SumTake
  <2>2. SumFunctionOnSet(h, S) = h[e] + SumFunctionOnSet(h, S \ {e})
    BY <1>1, <1>2, SumTake
  <2>3. IsFiniteSet(S \ {e}) /\ \A x \in S \ {e} : g[x] \in Int
    BY <1>1, <1>2, FS_Subset
  <2>4. SumFunctionOnSet(h, S \ {e}) = SumFunctionOnSet(g, S \ {e})
    BY <1>4, <2>3, SumSame
  <2>5. SumFunctionOnSet(g, S \ {e}) \in Int
    BY <2>3, SumInt
  <2>. QED
    BY <1>1, <1>2, <1>3, <1>4, <2>1, <2>2, <2>4, <2>5
<1>6. /\ Sold(t) \in Nat /\ Sold(u) \in Nat /\ Pace(t) \in Nat /\ Pace(u) \in Nat
      /\ Pace(t) > 0 /\ Pace(u) > 0
  BY PaceFacts
<1>7. Pace(t) <= Pace(u) /\ Pace(u) = Sold(t) + d
  BY <1>5, <1>6 DEF Pace
<1>8. \A f \in Team : AboveAverage(t, f) \in Nat /\ AboveAverage(u, f) \in Nat
  BY AboveAverageFacts
<1>9. ASSUME NEW f \in S
      PROVE  /\ AboveAverage(t, f) = Positive(c * t[f].sales - Sold(t))
             /\ AboveAverage(u, f) = Positive(c * u[f].sales - Sold(u))
  BY Excess DEF Positive
<1>10. AboveAverage(t, e) * Pace(u) <= AboveAverage(u, e) * Pace(t)
  <2>1. CASE Sold(t) = 0
    <3>1. AboveAverage(t, e) = 0
      BY <1>1, <2>1, NothingSold
    <3>2. \A p, q, r \in Nat : 0 * p <= q * r
      BY ProductTypes
    <3>. QED
      BY <1>1, <1>6, <1>8, <3>1, <3>2
  <2>2. CASE Sold(t) # 0
    <3>1. Pace(t) = Sold(t)
      BY <2>2 DEF Pace
    <3>2. t[e].sales \in Nat /\ t[e].sales <= Sold(t)
      BY SoldBound
    <3>. DEFINE x == t[e].sales
                s == Sold(t)
    <3>3. x \in Nat /\ s \in Nat /\ x <= s
      BY <1>6, <3>2
    <3>4. Positive(c * x - s) * (s + d) <= Positive(c * (x + d) - (s + d)) * s
      <4>. HIDE DEF x, s, c
      <4>. QED
        BY <1>1, <3>3, ExcessGains
    <3>5. AboveAverage(t, e) = Positive(c * x - s)
      BY <1>1, <1>9
    <3>6. AboveAverage(u, e) = Positive(c * (x + d) - (s + d))
      BY <1>1, <1>5, <1>9
    <3>. QED
      BY <1>7, <3>1, <3>4, <3>5, <3>6
  <2>. QED
    BY <2>1, <2>2
<1>11. ASSUME NEW f \in Team, f # e
       PROVE  AboveAverage(u, f) * Pace(t) <= AboveAverage(t, f) * Pace(u)
  <2>1. AboveAverage(u, f) <= AboveAverage(t, f)
    <3>1. CASE f \in S
      <4>1. u[f].sales = t[f].sales /\ t[f].sales \in Nat
        BY <1>11, MemberFacts
      <4>2. Positive(c * t[f].sales - (Sold(t) + d)) <= Positive(c * t[f].sales - Sold(t))
        <5>. HIDE DEF c
        <5>. QED
          BY <1>1, <1>6, <4>1, ExcessLoses
      <4>. QED
        BY <1>5, <1>9, <3>1, <4>1, <4>2
    <3>2. CASE f \notin S
      BY <1>8, <3>2 DEF AboveAverage
    <3>. QED
      BY <3>1, <3>2
  <2>2. AboveAverage(u, f) * Pace(t) <= AboveAverage(t, f) * Pace(t)
    BY <1>6, <1>8, <2>1, TimesGrows
  <2>3. AboveAverage(t, f) * Pace(t) <= AboveAverage(t, f) * Pace(u)
    BY <1>6, <1>7, <1>8, TimesGrows
  <2>4. \A p, q, r \in Nat : p <= q /\ q <= r => p <= r
    OBVIOUS
  <2>. QED
    BY <1>6, <1>8, <2>2, <2>3, <2>4, ProductTypes
<1>. QED
  BY <1>5, <1>7, <1>10, <1>11

\* The seller's score grows, relative to the total of sales, and everybody else's shrinks.
LEMMA SellingPays ==
    ASSUME team \in Teams, bonus \in Bonuses
    PROVE  SalesPay
<1>. SUFFICES ASSUME NEW e \in Sellers(team), NEW s \in Sales, s > team[e].sales
              PROVE  Score(Selling(e, s), e) * TotalScore(team)
                       >= Score(team, e) * TotalScore(Selling(e, s))
  BY DEF SalesPay
<1>. DEFINE u == Selling(e, s)
            f == [x \in Team |-> Score(team, x)]
            g == [x \in Team |-> Score(u, x)]
            d == s - team[e].sales
            K == Pace(team)
            M == Pace(u)
            Others == Team \ {e}
<1>1. e \in Team
  BY SalesFacts
<1>2. /\ u \in Teams /\ Sellers(u) = Sellers(team) /\ u[e].sales = s
      /\ \A x \in Team : /\ u[x].base = team[x].base
                         /\ x # e => u[x].sales = team[x].sales
  BY <1>1, SellingFacts
<1>3. d \in Nat /\ d > 0 /\ s = team[e].sales + d
  <2>1. s \in Nat /\ team[e].sales \in Nat
    BY <1>1, AmountFacts, MemberFacts
  <2>. QED
    BY <2>1
<1>. HIDE DEF u, d
<1>4. /\ AboveAverage(team, e) * M <= AboveAverage(u, e) * K
      /\ \A x \in Team : x # e =>
           AboveAverage(u, x) * K <= AboveAverage(team, x) * M
  BY <1>2, <1>3, SellMore
<1>5. K \in Nat /\ K > 0 /\ M \in Nat
  BY <1>2, PaceFacts
<1>6. \A x \in Team : /\ team[x].base \in Nat /\ AboveAverage(team, x) \in Nat
                      /\ AboveAverage(u, x) \in Nat
  BY <1>2, MemberFacts, AboveAverageFacts
<1>7. BonusUnit \in Nat /\ bonus \in Nat
  BY AmountFacts
<1>8. \A x \in Team :
        /\ Score(team, x) = team[x].base * (BonusUnit * K + bonus * AboveAverage(team, x))
        /\ Score(u, x) = team[x].base * (BonusUnit * M + bonus * AboveAverage(u, x))
  BY <1>2, ScoreForm
<1>. HIDE DEF K, M
<1>9. Score(team, e) * M <= Score(u, e) * K
  BY <1>1, <1>4, <1>5, <1>6, <1>7, <1>8, ScoresCompare
<1>10. \A x \in Team : x # e => Score(u, x) * K <= Score(team, x) * M
  <2>. TAKE x \in Team
  <2>. HAVE x # e
  <2>1. AboveAverage(u, x) * K <= AboveAverage(team, x) * M
    BY <1>4
  <2>. QED
    BY <1>5, <1>6, <1>7, <1>8, <2>1, ScoresCompare
<1>11. /\ TotalScore(team) = SumFunctionOnSet(f, Team) /\ TotalScore(u) = SumFunctionOnSet(g, Team)
       /\ \A x \in Team : Score(team, x) \in Nat /\ Score(u, x) \in Nat
  BY <1>2, ScoreFacts
<1>12. /\ IsFiniteSet(Team) /\ IsFiniteSet(Others) /\ Others \subseteq Team
  BY TeamAssumption, FS_Subset
<1>13. \A x \in Team : f[x] = Score(team, x) /\ g[x] = Score(u, x)
  OBVIOUS
<1>. HIDE DEF f, g, Others
<1>14. \A x \in Team : f[x] \in Nat /\ g[x] \in Nat /\ f[x] \in Int /\ g[x] \in Int
  BY <1>11, <1>13
<1>15. /\ TotalScore(team) = f[e] + SumFunctionOnSet(f, Others)
       /\ TotalScore(u) = g[e] + SumFunctionOnSet(g, Others)
  BY <1>1, <1>11, <1>12, <1>14, SumTake DEF Others
<1>16. SumFunctionOnSet(f, Others) \in Nat /\ SumFunctionOnSet(g, Others) \in Nat
  <2>1. \A x \in Others : f[x] \in Nat /\ g[x] \in Nat
    BY <1>12, <1>14
  <2>. QED
    BY <1>12, <2>1, SumNat
<1>17. K * SumFunctionOnSet(g, Others) <= M * SumFunctionOnSet(f, Others)
  <2>1. \A x \in Others : g[x] \in Int /\ f[x] \in Int
    BY <1>12, <1>14
  <2>2. \A x \in Others : K * g[x] <= M * f[x]
    <3>. TAKE x \in Others
    <3>1. x \in Team /\ x # e
      BY DEF Others
    <3>2. g[x] * K <= f[x] * M
      BY <1>10, <1>13, <3>1
    <3>3. \A p, q \in Nat : p * q = q * p
      OBVIOUS
    <3>. QED
      BY <1>5, <1>14, <3>1, <3>2, <3>3
  <2>3. K \in Int /\ M \in Int
    BY <1>5
  <2>. QED
    BY <1>12, <2>1, <2>2, <2>3, SumCompare
<1>. DEFINE r == SumFunctionOnSet(f, Others)
            q == SumFunctionOnSet(g, Others)
<1>18. r \in Nat /\ q \in Nat /\ f[e] \in Nat /\ g[e] \in Nat
  BY <1>1, <1>14, <1>16
<1>. HIDE DEF r, q
<1>19. q * K <= r * M
  <2>1. K * q <= M * r
    BY <1>17 DEF q, r
  <2>2. \A a, b \in Nat : a * b = b * a
    OBVIOUS
  <2>. QED
    BY <1>5, <1>18, <2>1, <2>2
<1>20. f[e] * M <= g[e] * K
  BY <1>1, <1>9, <1>13
<1>21. f[e] * (g[e] + q) <= g[e] * (f[e] + r)
  BY <1>5, <1>18, <1>19, <1>20, ShareGrows
<1>22. Score(team, e) * TotalScore(u) <= Score(u, e) * TotalScore(team)
  BY <1>1, <1>13, <1>15, <1>21 DEF q, r
<1>23. /\ Score(team, e) * TotalScore(u) \in Nat /\ Score(u, e) * TotalScore(team) \in Nat
  <2>1. TotalScore(team) \in Nat /\ TotalScore(u) \in Nat
    BY <1>2, ScoreFacts
  <2>. QED
    BY <1>1, <1>11, <2>1, ProductTypes
<1>24. \A a, b \in Nat : a <= b => b >= a
  OBVIOUS
<1>. QED
  BY <1>22, <1>23, <1>24 DEF u

\* By the rules, selling more never lowers one's share, what somebody in another role sold
\* changes nobody's, and all shares are the same in another currency; a blended share lies
\* between the model's and the rules' (allocation.ts:93-146,
\* distribution-calculator.service.ts:203-212).
THEOREM WeightsAreFair == ComputationSpec => []FairWeights
<1>1. ComputationInv => FairWeights
  <2>. SUFFICES ASSUME ComputationInv PROVE FairWeights
    OBVIOUS
  <2>1. team \in Teams /\ bonus \in Bonuses
    BY ReadFacts DEF ComputationInv
  <2>. QED
    BY <2>1, SellingPays, OthersAreIgnored, BonusesAreRelative, BlendsLieBetween DEF FairWeights
<1>. QED
  BY <1>1, ComputationBegins, ComputationStep, PTL DEF ComputationSpec
=============================================================================
