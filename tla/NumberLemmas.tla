---------------------------- MODULE NumberLemmas ----------------------------
(***************************************************************************)
(* Facts that the proofs about the MII analysis, the stage scheduler, the  *)
(* mapper, the route search and the register allocator share: least        *)
(* elements, functions defined by recursion on a natural number,           *)
(* arithmetic modulo an interval, sums, and the cycles that a longest-path *)
(* relaxation finds.                                                       *)
(***************************************************************************)
EXTENDS Integers, FiniteSetsExt, FiniteSetTheorems, WellFoundedInduction, TLAPS

\* A set of naturals that is not empty has a least element.
LEMMA LeastNatural ==
    ASSUME NEW T \in SUBSET Nat, T # {}
    PROVE  \E x \in T : \A y \in T : x =< y
<1>1. IsWellFoundedOn(OpToRel(<, Nat), Nat) BY NatLessThanWellFounded
<1>2. PICK x \in T : \A y \in T : <<y, x>> \notin OpToRel(<, Nat)
  BY <1>1, WFMin
<1>3. \A y \in T : ~(y < x) BY <1>2 DEF OpToRel
<1> QED BY <1>3

\* Min is the least element of such a set.
LEMMA MinIsMember ==
    ASSUME NEW T \in SUBSET Nat, T # {}
    PROVE  Min(T) \in T /\ \A y \in T : Min(T) =< y
<1>1. \E x \in T : \A y \in T : x =< y BY LeastNatural
<1> QED BY <1>1 DEF Min

\* Max is the largest element of a bounded set.
LEMMA MaxIsMember ==
    ASSUME NEW T \in SUBSET Nat, T # {}, NEW b \in Nat, \A y \in T : y =< b
    PROVE  Max(T) \in T /\ \A y \in T : y =< Max(T)
<1> DEFINE D == {b - y : y \in T}
<1>1. D \in SUBSET Nat /\ D # {} OBVIOUS
<1> HIDE DEF D
<1>2. PICK e \in D : \A u \in D : e =< u BY <1>1, LeastNatural
<1>3. PICK x \in T : e = b - x BY <1>2 DEF D
<1>4. ASSUME NEW y \in T PROVE x >= y
  <2>1. b - y \in D BY DEF D
  <2>2. b - x =< b - y BY <2>1, <1>2, <1>3
  <2>3. x \in Nat /\ y \in Nat BY <1>3
  <2> QED BY <2>2, <2>3
<1>5. Max(T) \in T /\ \A y \in T : Max(T) >= y BY <1>3, <1>4 DEF Max
<1>6. Max(T) \in Nat BY <1>5
<1> QED BY <1>5, <1>6

\* A measure is smallest on some of the elements, and larger on the rest.
LEMMA SmallestMeasure ==
    ASSUME NEW S, S # {}, NEW f, \A x \in S : f[x] \in Nat
    PROVE  \E T \in SUBSET S : /\ T # {}
                               /\ \A x, y \in T : f[x] = f[y]
                               /\ \A x \in T, y \in S \ T : f[x] < f[y]
<1> DEFINE D == {f[x] : x \in S}
<1>1. D \in SUBSET Nat /\ D # {} OBVIOUS
<1> HIDE DEF D
<1>2. PICK t \in D : \A u \in D : t =< u BY <1>1, LeastNatural
<1>3. PICK x \in S : t = f[x] BY <1>2 DEF D
<1>4. ASSUME NEW y \in S PROVE f[x] =< f[y]
  <2>1. f[y] \in D BY <1>4 DEF D
  <2> QED BY <2>1, <1>2, <1>3, <1>4
<1> DEFINE T == {y \in S : f[y] = f[x]}
<1>5. T \in SUBSET S /\ x \in T /\ \A y, z \in T : f[y] = f[z] BY <1>3
<1>6. \A y \in T, z \in S \ T : f[y] < f[z] BY <1>3, <1>4
<1> QED BY <1>5, <1>6

\* A set that holds 0 and, with a number below b, the next one holds 0 .. b.
LEMMA Climb ==
    ASSUME NEW b \in Nat, NEW T, 0 \in T,
           \A k \in 1 .. b : k - 1 \in T => k \in T
    PROVE  \A k \in 0 .. b : k \in T
<1> SUFFICES ASSUME NEW j \in 0 .. b, j \notin T PROVE FALSE OBVIOUS
<1> DEFINE Missing == {k \in 0 .. b : k \notin T}
<1>1. Missing \in SUBSET Nat /\ j \in Missing OBVIOUS
<1> HIDE DEF Missing
<1>2. PICK k \in Missing : \A i \in Missing : k =< i BY <1>1, LeastNatural
<1>3. k \in 0 .. b /\ k \notin T BY <1>2 DEF Missing
<1>4. k # 0 BY <1>3
<1>5. k \in 1 .. b /\ k - 1 \in 0 .. b /\ ~(k =< k - 1) BY <1>3, <1>4
<1>6. k - 1 \in T BY <1>2, <1>5 DEF Missing
<1> QED BY <1>3, <1>5, <1>6

\* Finitely many naturals have a bound.
LEMMA Bounded ==
    ASSUME NEW n \in Nat, NEW f, \A k \in 1 .. n : f[k] \in Nat
    PROVE  \E b \in Nat : \A k \in 1 .. n : f[k] =< b
<1> DEFINE T == {j \in 0 .. n : \E b \in Nat : \A k \in 1 .. j : f[k] =< b}
<1>1. 0 \in T
  <2>1. \A k \in 1 .. 0 : f[k] =< 0 OBVIOUS
  <2> QED BY <2>1
<1>2. ASSUME NEW j \in 1 .. n, j - 1 \in T PROVE j \in T
  <2>1. PICK b \in Nat : \A k \in 1 .. j - 1 : f[k] =< b BY <1>2
  <2>2. f[j] \in Nat OBVIOUS
  <2>3. b + f[j] \in Nat BY <2>2
  <2>4. ASSUME NEW k \in 1 .. j PROVE f[k] =< b + f[j]
    <3>1. k \in 1 .. n OBVIOUS
    <3>2. f[k] \in Nat BY <3>1
    <3>3. k = j \/ k \in 1 .. j - 1 OBVIOUS
    <3> QED BY <3>2, <3>3, <2>1, <2>2
  <2>5. j \in 0 .. n OBVIOUS
  <2> QED BY <2>3, <2>4, <2>5
<1>3. \A j \in 1 .. n : j - 1 \in T => j \in T BY <1>2
<1>4. n \in 0 .. n OBVIOUS
<1>5. n \in T
  <2> HIDE DEF T
  <2> QED BY <1>1, <1>3, <1>4, Climb
<1> QED BY <1>5

\* h starts with a and goes on with the step G.
Iterates(h, a, G, b) == h[0] = a /\ \A k \in 1 .. b : h[k] = G[<<k, h[k - 1]>>]

\* A function can be defined by recursion on 0 .. b: G gives the value at k from
\* the value at k - 1.
LEMMA RecursionExists ==
    ASSUME NEW X, NEW a \in X, NEW G \in [Nat \X X -> X], NEW b \in Nat
    PROVE  \E h \in [0 .. b -> X] : Iterates(h, a, G, b)
<1> DEFINE Upto(n) == \E h \in [0 .. n -> X] : /\ h[0] = a
                                               /\ \A k \in 1 .. n : h[k] = G[<<k, h[k - 1]>>]
           T == {n \in Nat : Upto(n)}
<1>1. 0 \in T
  <2> DEFINE h == [k \in 0 .. 0 |-> a]
  <2>1. h \in [0 .. 0 -> X] /\ h[0] = a /\ \A k \in 1 .. 0 : h[k] = G[<<k, h[k - 1]>>]
    OBVIOUS
  <2>2. Upto(0) BY <2>1
  <2> QED BY <2>2
<1>2. ASSUME NEW n \in 1 .. b, n - 1 \in T PROVE n \in T
  <2>1. PICK h \in [0 .. n - 1 -> X] : /\ h[0] = a
                                       /\ \A k \in 1 .. n - 1 : h[k] = G[<<k, h[k - 1]>>]
    BY <1>2
  <2> DEFINE g == [k \in 0 .. n |-> IF k = n THEN G[<<n, h[n - 1]>>] ELSE h[k]]
  <2>2. G[<<n, h[n - 1]>>] \in X
    <3>1. n - 1 \in 0 .. n - 1 /\ n \in Nat OBVIOUS
    <3> QED BY <3>1
  <2>3. g \in [0 .. n -> X]
    <3>1. \A k \in 0 .. n : k # n => k \in 0 .. n - 1 OBVIOUS
    <3> QED BY <3>1, <2>2
  <2>4. g[0] = a BY <2>1
  <2>5. ASSUME NEW k \in 1 .. n PROVE g[k] = G[<<k, g[k - 1]>>]
    <3>1. k - 1 \in 0 .. n /\ k \in 0 .. n /\ k - 1 # n OBVIOUS
    <3>2. g[k - 1] = h[k - 1] BY <3>1
    <3>3. CASE k = n BY <3>1, <3>2, <3>3
    <3>4. CASE k # n
      <4>1. k \in 1 .. n - 1 BY <3>4
      <4> QED BY <4>1, <3>1, <3>2, <3>4, <2>1
    <3> QED BY <3>3, <3>4
  <2> HIDE DEF g
  <2>6. Upto(n) BY <2>3, <2>4, <2>5
  <2> QED BY <2>6
<1> HIDE DEF T
<1>3. b \in T
  <2>1. \A k \in 1 .. b : k - 1 \in T => k \in T BY <1>2
  <2>2. \A k \in 0 .. b : k \in T BY <1>1, <2>1, Climb
  <2>3. b \in 0 .. b OBVIOUS
  <2> QED BY <2>2, <2>3
<1> QED BY <1>3 DEF T, Iterates

\* Division with remainder by an interval.
LEMMA DivMod ==
    ASSUME NEW a \in Int, NEW n \in Nat \ {0}
    PROVE  /\ a = n * (a \div n) + (a % n)
           /\ a \div n \in Int /\ a % n \in Int
           /\ 0 =< a % n /\ a % n < n
OBVIOUS

LEMMA Multiples ==
    ASSUME NEW n \in Nat \ {0}, NEW q \in Int, NEW p \in Int, q < p
    PROVE  n * q + n =< n * p
<1>1. q + 1 =< p OBVIOUS
<1>2. n * (p - q) >= n OBVIOUS
<1>3. n * (p - q) = n * p - n * q OBVIOUS
<1> QED BY <1>2, <1>3

\* Division keeps the order.
LEMMA DivMonotone ==
    ASSUME NEW a \in Int, NEW b \in Int, NEW n \in Nat \ {0}, a =< b
    PROVE  a \div n =< b \div n /\ a \div n \in Int /\ b \div n \in Int
<1> DEFINE q == a \div n
           r == a % n
           u == b \div n
           v == b % n
<1>1. /\ a = n * q + r /\ q \in Int /\ r \in Int /\ 0 =< r /\ r < n
      /\ b = n * u + v /\ u \in Int /\ v \in Int /\ 0 =< v /\ v < n
  BY DivMod
<1> HIDE DEF q, r, u, v
<1>2. u < q => n * u + n =< n * q BY <1>1, Multiples
<1> DEFINE x == n * q
           y == n * u
<1>3. x \in Int /\ y \in Int BY <1>1
<1>4. a = x + r /\ b = y + v /\ (u < q => y + n =< x) BY <1>1, <1>2
<1> HIDE DEF x, y
<1>5. q =< u BY <1>1, <1>3, <1>4
<1> QED BY <1>1, <1>5 DEF q, u

LEMMA RemainderIsUnique ==
    ASSUME NEW n \in Nat \ {0}, NEW q \in Int, NEW p \in Int,
           NEW r \in Int, NEW s \in Int,
           0 =< r, r < n, 0 =< s, s < n, n * q + r = n * p + s
    PROVE  q = p /\ r = s
<1> DEFINE x == n * q
           y == n * p
<1>1. x \in Int /\ y \in Int OBVIOUS
<1>2. q < p => x + n =< y BY Multiples
<1>3. p < q => y + n =< x BY Multiples
<1>4. x + r = y + s OBVIOUS
<1>5. q = p => x = y OBVIOUS
<1> HIDE DEF x, y
<1> QED BY <1>1, <1>2, <1>3, <1>4, <1>5

\* Taking a remainder before an addition changes nothing.
LEMMA ModSum ==
    ASSUME NEW a \in Int, NEW b \in Int, NEW n \in Nat \ {0}
    PROVE  ((a % n) + b) % n = (a + b) % n
<1> DEFINE q == a \div n
           r == a % n
           p == (r + b) \div n
           s == (r + b) % n
           u == (a + b) \div n
           v == (a + b) % n
<1>1. q \in Int /\ r \in Int /\ a = n * q + r BY DivMod
<1>2. /\ r + b \in Int /\ p \in Int /\ s \in Int /\ r + b = n * p + s
      /\ 0 =< s /\ s < n
  BY <1>1, DivMod
<1>3. /\ a + b \in Int /\ u \in Int /\ v \in Int /\ a + b = n * u + v
      /\ 0 =< v /\ v < n
  BY DivMod
<1> HIDE DEF q, r, p, s, u, v
<1>4. n * (q + p) = n * q + n * p BY <1>1, <1>2
<1>5. n * (q + p) + s = n * u + v BY <1>1, <1>2, <1>3, <1>4
<1>6. s = v
  <2> DEFINE w == q + p
  <2>1. w \in Int /\ n * w + s = n * u + v BY <1>1, <1>2, <1>5
  <2> HIDE DEF w
  <2> QED BY <2>1, <1>2, <1>3, RemainderIsUnique
<1> QED BY <1>6 DEF s, v, r

-----------------------------------------------------------------------------
(* Sums                                                                    *)

\* g adds up what f has at the indices in S, one index after the other.
Adds(g, f, S, n) ==
    g[0] = 0 /\ \A k \in 1 .. n : g[k] = g[k - 1] + (IF k \in S THEN f[k] ELSE 0)

LEMMA AddsExist ==
    ASSUME NEW n \in Nat, NEW f, \A k \in 1 .. n : f[k] \in Int, NEW S
    PROVE  \E g \in [0 .. n -> Int] : Adds(g, f, S, n)
<1> DEFINE add == [k \in Nat |-> IF k \in 1 .. n /\ k \in S THEN f[k] ELSE 0]
           G == [z \in Nat \X Int |-> z[2] + add[z[1]]]
<1>1. add \in [Nat -> Int] OBVIOUS
<1>2. \A k \in 1 .. n : add[k] = IF k \in S THEN f[k] ELSE 0 OBVIOUS
<1> HIDE DEF add
<1>3. G \in [Nat \X Int -> Int] BY <1>1
<1>4. PICK h \in [0 .. n -> Int] : Iterates(h, 0, G, n)
  <2> HIDE DEF G
  <2> QED BY <1>3, RecursionExists
<1>5. h[0] = 0 /\ \A k \in 1 .. n : h[k] = G[<<k, h[k - 1]>>]
  <2> HIDE DEF G
  <2> QED BY <1>4 DEF Iterates
<1>6. ASSUME NEW k \in 1 .. n PROVE h[k] = h[k - 1] + (IF k \in S THEN f[k] ELSE 0)
  <2>1. k \in Nat /\ k - 1 \in 0 .. n OBVIOUS
  <2>2. <<k, h[k - 1]>> \in Nat \X Int BY <2>1, <1>4
  <2>3. G[<<k, h[k - 1]>>] = h[k - 1] + add[k] BY <2>2
  <2> QED BY <2>3, <1>2, <1>5
<1> QED BY <1>4, <1>5, <1>6 DEF Adds

\* A sum of naturals stays one.
LEMMA AddsNaturals ==
    ASSUME NEW n \in Nat, NEW f, \A k \in 1 .. n : f[k] \in Nat, NEW S,
           NEW g, Adds(g, f, S, n)
    PROVE  \A k \in 0 .. n : g[k] \in Nat
<1> DEFINE T == {k \in 0 .. n : g[k] \in Nat}
<1>1. 0 \in T BY DEF Adds
<1>2. ASSUME NEW k \in 1 .. n, k - 1 \in T PROVE k \in T
  <2>1. g[k - 1] \in Nat /\ k \in 0 .. n BY <1>2
  <2>2. (IF k \in S THEN f[k] ELSE 0) \in Nat OBVIOUS
  <2>3. g[k] = g[k - 1] + (IF k \in S THEN f[k] ELSE 0) BY DEF Adds
  <2>4. g[k] \in Nat BY <2>1, <2>2, <2>3
  <2> QED BY <2>1, <2>4
<1> HIDE DEF T
<1>3. \A k \in 0 .. n : k \in T BY <1>1, <1>2, Climb
<1> QED BY <1>3 DEF T

LEMMA AddOrder ==
    ASSUME NEW x \in Int, NEW y \in Int, NEW z \in Int, x =< y + z,
           NEW e \in Int, NEW f \in Int, NEW h \in Int, e =< f + h
    PROVE  /\ x + e =< (y + f) + (z + h)
           /\ x < y + z \/ e < f + h => x + e < (y + f) + (z + h)
OBVIOUS

\* Sums keep an order between their terms, strictly where a term is less.
LEMMA AddsOrder ==
    ASSUME NEW n \in Nat, NEW S,
           NEW e, NEW f, NEW h,
           \A k \in 1 .. n : e[k] \in Int /\ f[k] \in Int /\ h[k] \in Int,
           \A k \in S : e[k] =< f[k] + h[k],
           NEW j \in S, j \in 1 .. n, e[j] < f[j] + h[j],
           NEW x \in [0 .. n -> Int], Adds(x, e, S, n),
           NEW y \in [0 .. n -> Int], Adds(y, f, S, n),
           NEW z \in [0 .. n -> Int], Adds(z, h, S, n)
    PROVE  x[n] < y[n] + z[n]
<1> DEFINE T == {k \in 0 .. n : x[k] =< y[k] + z[k] /\ (j =< k => x[k] < y[k] + z[k])}
<1>1. 0 \in T BY DEF Adds
<1>2. ASSUME NEW k \in 1 .. n, k - 1 \in T PROVE k \in T
  <2>1. /\ x[k - 1] =< y[k - 1] + z[k - 1]
        /\ j =< k - 1 => x[k - 1] < y[k - 1] + z[k - 1]
        /\ k \in 0 .. n /\ k - 1 \in 0 .. n
    BY <1>2
  <2>2. /\ x[k - 1] \in Int /\ y[k - 1] \in Int /\ z[k - 1] \in Int
        /\ e[k] \in Int /\ f[k] \in Int /\ h[k] \in Int
    BY <2>1
  <2>3. /\ x[k] = x[k - 1] + (IF k \in S THEN e[k] ELSE 0)
        /\ y[k] = y[k - 1] + (IF k \in S THEN f[k] ELSE 0)
        /\ z[k] = z[k - 1] + (IF k \in S THEN h[k] ELSE 0)
    BY DEF Adds
  <2>4. CASE k \notin S
    <3>1. j =< k => j =< k - 1
      <4>1. j # k BY <2>4
      <4> QED BY <4>1
    <3>2. x[k] = x[k - 1] /\ y[k] = y[k - 1] /\ z[k] = z[k - 1] BY <2>2, <2>3, <2>4
    <3> QED BY <2>1, <3>1, <3>2
  <2>5. CASE k \in S
    <3>1. e[k] =< f[k] + h[k] BY <2>5
    <3>2. x[k] = x[k - 1] + e[k] /\ y[k] = y[k - 1] + f[k] /\ z[k] = z[k - 1] + h[k]
      BY <2>3, <2>5
    <3>3. k = j => e[k] < f[k] + h[k] OBVIOUS
    <3>4. j =< k => j =< k - 1 \/ k = j OBVIOUS
    <3> DEFINE x1 == x[k - 1]
               y1 == y[k - 1]
               z1 == z[k - 1]
               ek == e[k]
               fk == f[k]
               hk == h[k]
    <3>5. /\ x1 \in Int /\ y1 \in Int /\ z1 \in Int /\ ek \in Int /\ fk \in Int /\ hk \in Int
          /\ x1 =< y1 + z1 /\ ek =< fk + hk
          /\ x[k] = x1 + ek /\ y[k] = y1 + fk /\ z[k] = z1 + hk
          /\ j =< k => x1 < y1 + z1 \/ ek < fk + hk
      BY <2>1, <2>2, <3>1, <3>2, <3>3, <3>4
    <3> HIDE DEF x1, y1, z1, ek, fk, hk
    <3>6. /\ x1 + ek =< (y1 + fk) + (z1 + hk)
          /\ x1 < y1 + z1 \/ ek < fk + hk => x1 + ek < (y1 + fk) + (z1 + hk)
      BY <3>5, AddOrder, Zenon
    <3>7. x[k] =< y[k] + z[k] /\ (j =< k => x[k] < y[k] + z[k]) BY <3>5, <3>6, Zenon
    <3> QED BY <2>1, <3>7
  <2> QED BY <2>4, <2>5
<1> HIDE DEF T
<1>3. \A k \in 0 .. n : k \in T BY <1>1, <1>2, Climb
<1>4. n \in T BY <1>3
<1> QED BY <1>4 DEF T

\* What a sum counts: as many pairs for an index of S as f has there.
UnitsOf(f, S, n) == {z \in (1 .. n) \X Nat : z[1] \in S /\ z[2] < f[z[1]]}

LEMMA AddsCount ==
    ASSUME NEW n \in Nat, NEW f, \A k \in 1 .. n : f[k] \in Nat, NEW S,
           NEW g, Adds(g, f, S, n)
    PROVE  /\ IsFiniteSet(UnitsOf(f, S, n))
           /\ g[n] \in Nat /\ Cardinality(UnitsOf(f, S, n)) = g[n]
<1>1. \A k \in 0 .. n : g[k] \in Nat BY AddsNaturals
<1> DEFINE T == {k \in 0 .. n : IsFiniteSet(UnitsOf(f, S, k))
                                /\ Cardinality(UnitsOf(f, S, k)) = g[k]}
<1>2. 0 \in T
  <2>1. UnitsOf(f, S, 0) = {} BY DEF UnitsOf
  <2>2. g[0] = 0 /\ 0 \in 0 .. n BY DEF Adds
  <2> QED BY <2>1, <2>2, FS_EmptySet
<1>3. ASSUME NEW k \in 1 .. n, k - 1 \in T PROVE k \in T
  <2>1. g[k] = g[k - 1] + (IF k \in S THEN f[k] ELSE 0) BY DEF Adds
  <2>2. g[k - 1] \in Nat /\ k \in 0 .. n /\ f[k] \in Nat /\ k - 1 \in 0 .. n BY <1>1
  <2> DEFINE P == UnitsOf(f, S, k - 1)
             Q == IF k \in S THEN {k} \X (0 .. f[k] - 1) ELSE {}
  <2>3. UnitsOf(f, S, k) = P \cup Q
    <3>1. \A z \in (1 .. k) \X Nat : z[1] = k \/ z \in (1 .. k - 1) \X Nat OBVIOUS
    <3>2. \A x \in Nat : x < f[k] <=> x \in 0 .. f[k] - 1 BY <2>2
    <3>3. ASSUME NEW z \in UnitsOf(f, S, k) PROVE z \in P \cup Q
      <4>1. z \in (1 .. k) \X Nat /\ z[1] \in S /\ z[2] < f[z[1]] BY DEF UnitsOf
      <4>2. z = <<z[1], z[2]>> /\ z[2] \in Nat BY <4>1
      <4>3. CASE z[1] = k
        <5>1. z[2] \in 0 .. f[k] - 1 BY <4>1, <4>2, <4>3, <3>2
        <5>2. z \in {k} \X (0 .. f[k] - 1) BY <5>1, <4>2, <4>3
        <5> QED BY <5>2, <4>1, <4>3
      <4>4. CASE z[1] # k
        <5>1. z \in (1 .. k - 1) \X Nat BY <4>1, <4>4, <3>1
        <5> QED BY <5>1, <4>1 DEF UnitsOf
      <4> QED BY <4>3, <4>4
    <3>4. ASSUME NEW z \in P PROVE z \in UnitsOf(f, S, k) BY <3>4 DEF UnitsOf
    <3>5. ASSUME NEW z \in Q PROVE z \in UnitsOf(f, S, k)
      <4>1. k \in S /\ z \in {k} \X (0 .. f[k] - 1) BY <3>5
      <4>2. z[1] = k /\ z[2] \in Nat /\ z[2] < f[k] /\ z = <<z[1], z[2]>> BY <4>1, <3>2, <2>2
      <4>3. z \in (1 .. k) \X Nat BY <4>2
      <4> QED BY <4>1, <4>2, <4>3 DEF UnitsOf
    <3> HIDE DEF P, Q
    <3> QED BY <3>3, <3>4, <3>5
  <2>4. P \cap Q = {}
    <3>1. \A z \in P : z[1] \in 1 .. k - 1 BY DEF UnitsOf
    <3>2. \A z \in Q : z[1] = k OBVIOUS
    <3>3. k \notin 1 .. k - 1 OBVIOUS
    <3> HIDE DEF P, Q
    <3> QED BY <3>1, <3>2, <3>3
  <2>5. IsFiniteSet(P) /\ Cardinality(P) = g[k - 1] BY <1>3
  <2>6. IsFiniteSet(Q) /\ Cardinality(Q) = IF k \in S THEN f[k] ELSE 0
    <3>1. CASE k \in S
      <4> DEFINE I == 0 .. f[k] - 1
      <4>1. IsFiniteSet(I) /\ Cardinality(I) = f[k]
        <5>1. f[k] - 1 \in Int /\ 0 \in Int BY <2>2
        <5>2. /\ IsFiniteSet(I)
              /\ Cardinality(I) = IF 0 > f[k] - 1 THEN 0 ELSE (f[k] - 1) - 0 + 1
          BY <5>1, FS_Interval
        <5> QED BY <5>2, <2>2
      <4>2. IsFiniteSet({k}) /\ Cardinality({k}) = 1 BY FS_Singleton
      <4> HIDE DEF I
      <4>3. IsFiniteSet({k} \X I) /\ Cardinality({k} \X I) = Cardinality({k}) * Cardinality(I)
        BY <4>1, <4>2, FS_Product
      <4>4. Cardinality({k} \X I) = f[k] BY <4>1, <4>2, <4>3, <2>2
      <4>5. Q = {k} \X I BY <3>1 DEF I
      <4> HIDE DEF Q
      <4> QED BY <4>3, <4>4, <4>5, <3>1
    <3>2. CASE k \notin S
      <4>1. Q = {} BY <3>2
      <4> HIDE DEF Q
      <4> QED BY <4>1, <3>2, FS_EmptySet
    <3> QED BY <3>1, <3>2
  <2> HIDE DEF P, Q
  <2>7. /\ IsFiniteSet(P \cup Q)
        /\ Cardinality(P \cup Q) = Cardinality(P) + Cardinality(Q) - Cardinality(P \cap Q)
    BY <2>5, <2>6, FS_Union
  <2>8. Cardinality(P \cap Q) = 0 BY <2>4, FS_EmptySet
  <2>9. Cardinality(P \cup Q) = g[k] BY <2>1, <2>2, <2>5, <2>6, <2>7, <2>8
  <2> QED BY <2>2, <2>3, <2>7, <2>9
<1>4. n \in T
  <2> HIDE DEF T
  <2>1. \A k \in 1 .. n : k - 1 \in T => k \in T BY <1>3
  <2>2. \A k \in 0 .. n : k \in T BY <1>2, <2>1, Climb
  <2>3. n \in 0 .. n OBVIOUS
  <2> QED BY <2>2, <2>3
<1>5. g[n] \in Nat BY <1>1
<1> QED BY <1>4, <1>5

-----------------------------------------------------------------------------
(* Chains of edges                                                         *)

\* A closed chain enters exactly the nodes that it leaves.
ClosedChain(src, dst, W) == W # {} /\ {src[k] : k \in W} = {dst[k] : k \in W}

Levels(d, C) == {z \in C \X Nat : z[2] < d[z[1]]}

\* f is the value d at the nodes C, which a numbers by the edges W.
ValuesAround(n, W, C, d, a, f) ==
    /\ \A x \in C : d[x] \in Nat
    /\ a \in Bijection(W, C)
    /\ \A k \in 1 .. n : f[k] \in Nat
    /\ \A k \in W : f[k] = d[a[k]]

\* Around a chain that meets every node once, a value at the nodes adds up to
\* the same at the ends of the edges as at their starts.
LEMMA AroundAdds ==
    ASSUME NEW n \in Nat, NEW W \in SUBSET (1 .. n), NEW C, NEW d, NEW a, NEW f,
           ValuesAround(n, W, C, d, a, f), NEW g, Adds(g, f, W, n)
    PROVE  g[n] = Cardinality(Levels(d, C))
<1> DEFINE P == UnitsOf(f, W, n)
           Q == {z \in C \X Nat : z[2] < d[z[1]]}
           b == [z \in P |-> <<a[z[1]], z[2]>>]
<1>1. a \in [W -> C] /\ (\A k, l \in W : a[k] = a[l] => k = l)
      /\ (\A x \in C : \E k \in W : a[k] = x)
  BY DEF ValuesAround, Bijection, Injection, Surjection, IsInjective
<1>2. /\ \A x \in C : d[x] \in Nat
      /\ \A k \in 1 .. n : f[k] \in Nat
      /\ \A k \in W : f[k] = d[a[k]]
  BY DEF ValuesAround
<1>3. IsFiniteSet(P) /\ Cardinality(P) = g[n] BY <1>2, AddsCount
<1>4. ASSUME NEW z \in P
      PROVE  /\ z[1] \in W /\ z[2] \in Nat /\ z[2] < d[a[z[1]]] /\ z = <<z[1], z[2]>>
             /\ b[z] = <<a[z[1]], z[2]>>
  <2>1. z \in (1 .. n) \X Nat /\ z[1] \in W /\ z[2] < f[z[1]] BY DEF UnitsOf
  <2>2. f[z[1]] = d[a[z[1]]] BY <1>2, <2>1
  <2> QED BY <2>1, <2>2
<1> HIDE DEF P
<1>5. b \in [P -> Q]
  <2>1. ASSUME NEW z \in P PROVE <<a[z[1]], z[2]>> \in Q BY <1>1, <1>4
  <2> QED BY <2>1
<1>6. ASSUME NEW y \in P, NEW z \in P, b[y] = b[z] PROVE y = z
  <2>1. a[y[1]] = a[z[1]] /\ y[2] = z[2] BY <1>4, <1>6
  <2>2. y[1] = z[1] BY <1>1, <1>4, <2>1
  <2> QED BY <1>4, <2>1, <2>2
<1>7. ASSUME NEW q \in Q PROVE \E z \in P : b[z] = q
  <2>1. q[1] \in C /\ q[2] \in Nat /\ q[2] < d[q[1]] /\ q = <<q[1], q[2]>> OBVIOUS
  <2>2. PICK k \in W : a[k] = q[1] BY <1>1, <2>1
  <2> DEFINE z == <<k, q[2]>>
  <2>3. f[k] = d[q[1]] BY <1>2, <2>2
  <2>4. z \in P BY <2>1, <2>2, <2>3 DEF UnitsOf, P
  <2>5. b[z] = <<a[k], q[2]>> BY <2>4
  <2> QED BY <2>1, <2>2, <2>4, <2>5
<1> HIDE DEF Q, b
<1>8. b \in Bijection(P, Q)
  BY <1>5, <1>6, <1>7 DEF Bijection, Injection, Surjection, IsInjective
<1>9. ExistsBijection(P, Q) BY <1>8 DEF ExistsBijection
<1>10. Cardinality(Q) = Cardinality(P) BY <1>3, <1>9, FS_Bijection
<1> QED BY <1>3, <1>10 DEF Q, Levels

\* If every edge of a closed chain allows the value at its end, and one allows
\* more, the weights of the chain add up to more than 0.
LEMMA ChainIsPositive ==
    ASSUME NEW n \in Nat, NEW W \in SUBSET (1 .. n), NEW src, NEW dst,
           ClosedChain(src, dst, W),
           \A k, l \in W : dst[k] = dst[l] => k = l,
           NEW h, \A k \in 1 .. n : h[k] \in Int,
           NEW d, \A k \in W : d[dst[k]] \in Nat,
           \A k \in W : d[dst[k]] =< d[src[k]] + h[k],
           NEW j \in W, d[dst[j]] < d[src[j]] + h[j],
           NEW g \in [0 .. n -> Int], Adds(g, h, W, n)
    PROVE  g[n] > 0
<1> DEFINE C == {dst[k] : k \in W}
           A == [k \in W |-> dst[k]]
           B == [k \in W |-> src[k]]
           e == [k \in 1 .. n |-> IF k \in W THEN d[A[k]] ELSE 0]
           f == [k \in 1 .. n |-> IF k \in W THEN d[B[k]] ELSE 0]
<1>1. C = {src[k] : k \in W} BY DEF ClosedChain
<1>2. A \in Bijection(W, C) BY DEF Bijection, Injection, Surjection, IsInjective
<1>3. IsFiniteSet(W)
  <2>1. IsFiniteSet(1 .. n) BY FS_Interval
  <2> QED BY <2>1, FS_Subset
<1>4. IsFiniteSet(C) /\ Cardinality(C) = Cardinality(W)
  <2> HIDE DEF A, C
  <2>1. ExistsBijection(W, C) BY <1>2 DEF ExistsBijection
  <2> QED BY <2>1, <1>3, FS_Bijection
<1>5. B \in Surjection(W, C)
  <2>1. B \in [W -> C] BY <1>1
  <2>2. \A t \in C : \E s \in W : B[s] = t BY <1>1
  <2> HIDE DEF B, C
  <2> QED BY <2>1, <2>2 DEF Surjection
<1>6. B \in Bijection(W, C)
  <2> HIDE DEF B, C
  <2>1. B \in Injection(W, C) BY <1>3, <1>4, <1>5, FS_SurjSameCardinalityImpliesInj
  <2> QED BY <1>5, <2>1 DEF Bijection
<1>7. \A x \in C : d[x] \in Nat OBVIOUS
<1>8. \A k \in W : A[k] = dst[k] /\ B[k] = src[k] /\ A[k] \in C /\ B[k] \in C BY <1>1
<1>9. \A k \in 1 .. n : e[k] \in Nat /\ f[k] \in Nat
  <2>1. \A k \in W : d[A[k]] \in Nat /\ d[B[k]] \in Nat
    <3> HIDE DEF A, B, C
    <3> QED BY <1>7, <1>8
  <2> HIDE DEF A, B
  <2> QED BY <2>1
<1>10. \A k \in W : e[k] = d[dst[k]] /\ f[k] = d[src[k]] BY <1>8
<1>11. \A k \in W : e[k] = d[A[k]] /\ f[k] = d[B[k]] OBVIOUS
<1> HIDE DEF A, B, C, e, f
<1>12. PICK x \in [0 .. n -> Int] : Adds(x, e, W, n)
  <2>1. \A k \in 1 .. n : e[k] \in Int BY <1>9
  <2> QED BY <2>1, AddsExist, Zenon
<1>13. PICK y \in [0 .. n -> Int] : Adds(y, f, W, n)
  <2>1. \A k \in 1 .. n : f[k] \in Int BY <1>9
  <2> QED BY <2>1, AddsExist, Zenon
<1>14. x[n] = y[n]
  <2>1. x[n] = Cardinality(Levels(d, C))
    <3>1. ValuesAround(n, W, C, d, A, e) BY <1>2, <1>7, <1>9, <1>11 DEF ValuesAround
    <3> QED BY <1>12, <3>1, AroundAdds
  <2>2. y[n] = Cardinality(Levels(d, C))
    <3>1. ValuesAround(n, W, C, d, B, f) BY <1>6, <1>7, <1>9, <1>11 DEF ValuesAround
    <3> QED BY <1>13, <3>1, AroundAdds
  <2> QED BY <2>1, <2>2
<1>15. x[n] < y[n] + g[n]
  <2>1. \A k \in W : e[k] =< f[k] + h[k] BY <1>10
  <2>2. e[j] < f[j] + h[j] BY <1>10
  <2>3. ASSUME NEW k \in 1 .. n PROVE e[k] \in Int /\ f[k] \in Int /\ h[k] \in Int
    <3>1. e[k] \in Nat /\ f[k] \in Nat BY <1>9
    <3> QED BY <3>1
  <2>4. j \in 1 .. n OBVIOUS
  <2> QED BY <1>12, <1>13, <2>1, <2>2, <2>3, <2>4, AddsOrder
<1>16. x[n] \in Int /\ y[n] \in Int /\ g[n] \in Int
  <2>1. n \in 0 .. n OBVIOUS
  <2> QED BY <1>12, <1>13, <2>1
<1> QED BY <1>14, <1>15, <1>16

-----------------------------------------------------------------------------
(* Longest-path relaxation.  Edge i of 1 .. m goes from src[i] to dst[i]    *)
(* and has weight h[i]; d is the value of every node, and pred the edge     *)
(* that last raised it, 0 for none.                                        *)

WeightedGraph(N, m, src, dst, h) ==
    m \in Nat /\ src \in [1 .. m -> N] /\ dst \in [1 .. m -> N] /\ h \in [1 .. m -> Int]

Used(N, pred) == {pred[v] : v \in N} \ {0}

\* A node is at most where its predecessor has put it, and where predecessors
\* form a closed chain its weights add up to more than 0.
HeldByPred(N, src, dst, h, d, pred) ==
    \A v \in N : pred[v] # 0 => dst[pred[v]] = v /\ d[v] =< d[src[pred[v]]] + h[pred[v]]

PositiveChains(N, m, src, dst, h, pred) ==
    \A W \in SUBSET Used(N, pred) : ClosedChain(src, dst, W) =>
        \A g \in [0 .. m -> Int] : Adds(g, h, W, m) => g[m] > 0

Traced(N, m, src, dst, h, d, pred) ==
    /\ d \in [N -> Nat] /\ pred \in [N -> 0 .. m]
    /\ HeldByPred(N, src, dst, h, d, pred)
    /\ PositiveChains(N, m, src, dst, h, pred)

LEMMA TracedStart ==
    ASSUME NEW N, NEW m \in Nat, NEW src, NEW dst, NEW h
    PROVE  Traced(N, m, src, dst, h, [v \in N |-> 0], [v \in N |-> 0])
<1> DEFINE pred == [v \in N |-> 0]
<1>1. Used(N, pred) = {} BY DEF Used
<1>2. PositiveChains(N, m, src, dst, h, pred) BY <1>1 DEF PositiveChains, ClosedChain
<1> QED BY <1>2 DEF Traced, HeldByPred

\* Raising the end of an edge keeps that.  A chain that the edge closes is
\* positive, because before the step all its other nodes were supported and
\* this one was below what the edge asks.
LEMMA TracedRaise ==
    ASSUME NEW N, NEW m, NEW src, NEW dst, NEW h, WeightedGraph(N, m, src, dst, h),
           NEW d, NEW pred, Traced(N, m, src, dst, h, d, pred),
           NEW i \in 1 .. m, d[dst[i]] < d[src[i]] + h[i]
    PROVE  Traced(N, m, src, dst, h, [d EXCEPT ![dst[i]] = d[src[i]] + h[i]],
                  [pred EXCEPT ![dst[i]] = i])
<1> DEFINE v == dst[i]
           c == d[src[i]] + h[i]
           e == [d EXCEPT ![v] = c]
           p == [pred EXCEPT ![v] = i]
<1>1. m \in Nat /\ i \in 0 .. m /\ i # 0 BY DEF WeightedGraph
<1>2. v \in N /\ src[i] \in N /\ h[i] \in Int BY DEF WeightedGraph
<1>3. d \in [N -> Nat] /\ pred \in [N -> 0 .. m] BY DEF Traced
<1>4. d[v] \in Nat /\ d[src[i]] \in Nat /\ d[v] < c BY <1>2, <1>3
<1>5. c \in Nat BY <1>2, <1>4
<1> HIDE DEF c
<1>6. e \in [N -> Nat] /\ p \in [N -> 0 .. m] BY <1>1, <1>2, <1>3, <1>5
<1>7. /\ e[v] = c /\ p[v] = i
      /\ \A u \in N : u # v => e[u] = d[u] /\ p[u] = pred[u]
      /\ \A u \in N : d[u] =< e[u]
  BY <1>2, <1>3, <1>4, <1>5
<1> HIDE DEF e, p
<1>8. HeldByPred(N, src, dst, h, e, p)
  <2> SUFFICES ASSUME NEW u \in N, p[u] # 0
               PROVE  dst[p[u]] = u /\ e[u] =< e[src[p[u]]] + h[p[u]]
    BY DEF HeldByPred
  <2>1. p[u] \in 1 .. m BY <1>1, <1>6
  <2>2. src[p[u]] \in N /\ h[p[u]] \in Int BY <2>1 DEF WeightedGraph
  <2>3. d[src[p[u]]] =< e[src[p[u]]] BY <1>7, <2>2
  <2>4. d[src[p[u]]] \in Nat /\ e[src[p[u]]] \in Nat /\ e[u] \in Nat BY <1>3, <1>6, <2>2
  <2>5. CASE u = v
    <3>1. p[u] = i /\ e[u] = d[src[i]] + h[i] BY <1>7, <2>5 DEF c
    <3> QED BY <2>2, <2>3, <2>4, <2>5, <3>1
  <2>6. CASE u # v
    <3>1. p[u] = pred[u] /\ e[u] = d[u] BY <1>7, <2>6
    <3>2. dst[p[u]] = u /\ d[u] =< d[src[p[u]]] + h[p[u]] BY <3>1 DEF Traced, HeldByPred
    <3> QED BY <2>2, <2>3, <2>4, <3>1, <3>2
  <2> QED BY <2>5, <2>6
<1>9. PositiveChains(N, m, src, dst, h, p)
  <2> SUFFICES ASSUME NEW W \in SUBSET Used(N, p), ClosedChain(src, dst, W),
                      NEW g \in [0 .. m -> Int], Adds(g, h, W, m)
               PROVE  g[m] > 0
    BY DEF PositiveChains
  <2>1. CASE i \notin W
    <3>1. ASSUME NEW k \in W PROVE k \in Used(N, pred)
      <4>1. PICK u \in N : k = p[u] /\ k # 0 BY DEF Used
      <4>2. u # v BY <1>7, <2>1, <4>1
      <4> QED BY <1>7, <4>1, <4>2 DEF Used
    <3>2. W \in SUBSET Used(N, pred) BY <3>1
    <3> QED BY <3>2 DEF Traced, PositiveChains
  <2>2. CASE i \in W
    <3>1. ASSUME NEW k \in W
          PROVE  k \in 1 .. m /\ dst[k] \in N /\ p[dst[k]] = k
      <4>1. PICK u \in N : k = p[u] /\ k # 0 BY DEF Used
      <4>2. k \in 1 .. m BY <1>1, <1>6, <4>1
      <4>3. dst[k] = u BY <1>8, <4>1 DEF HeldByPred
      <4> QED BY <4>1, <4>2, <4>3
    <3>2. \A k, l \in W : dst[k] = dst[l] => k = l
      <4>1. \A k \in W : p[dst[k]] = k BY <3>1
      <4> QED BY <4>1, Zenon
    <3>3. \A k \in W : d[dst[k]] \in Nat BY <1>3, <3>1
    <3>4. ASSUME NEW k \in W PROVE d[dst[k]] =< d[src[k]] + h[k]
      <4>1. CASE k = i
        <5>1. d[dst[i]] < d[src[i]] + h[i] /\ d[dst[i]] \in Nat /\ d[src[i]] + h[i] \in Nat
          BY <1>4, <1>5 DEF c
        <5> QED BY <4>1, <5>1
      <4>2. CASE k # i
        <5>1. dst[k] # v BY <1>7, <3>1, <4>2
        <5>2. pred[dst[k]] = k /\ dst[k] \in N /\ k # 0 BY <1>7, <3>1, <5>1
        <5> QED BY <5>2 DEF Traced, HeldByPred
      <4> QED BY <4>1, <4>2
    <3>5. W \in SUBSET (1 .. m) BY <3>1
    <3>6. \A k \in 1 .. m : h[k] \in Int BY DEF WeightedGraph
    <3> QED BY <1>1, <2>2, <3>2, <3>3, <3>4, <3>5, <3>6, ChainIsPositive
  <2> QED BY <2>1, <2>2
<1> QED BY <1>6, <1>8, <1>9 DEF Traced, e, p, c

\* last numbers the round that raised a node last, 0 for none, while round r has
\* come to edge k of the edges ks and has raised the nodes U.  A node is raised
\* one round after its predecessor at the latest, because an edge is violated
\* only if its start was raised after the edge was relaxed.
Ranked(N, src, dst, h, ks, d, pred, r, k, U, last) ==
    /\ last \in [N -> 0 .. r]
    /\ \A v \in N : last[v] # 0 => pred[v] # 0
    /\ \A v \in N : pred[v] # 0 => last[v] =< last[src[pred[v]]] + 1
    /\ \A i \in ks : d[dst[i]] < d[src[i]] + h[i] =>
           last[src[i]] >= (IF i < k THEN r ELSE r - 1)
    /\ \A u \in U : last[u] = r

LEMMA RankedStart ==
    ASSUME NEW N, NEW m, NEW src, NEW dst, NEW h, WeightedGraph(N, m, src, dst, h),
           NEW ks \in SUBSET (1 .. m), NEW d
    PROVE  Ranked(N, src, dst, h, ks, d, [v \in N |-> 0], 1, 1, {}, [v \in N |-> 0])
<1> DEFINE z == [v \in N |-> 0]
<1>1. z \in [N -> 0 .. 1] /\ \A v \in N : z[v] = 0 OBVIOUS
<1> HIDE DEF z
<1>2. ASSUME NEW i \in ks PROVE z[src[i]] >= (IF i < 1 THEN 1 ELSE 1 - 1)
  <2>1. i \in 1 .. m /\ m \in Nat BY DEF WeightedGraph
  <2>2. src[i] \in N /\ ~(i < 1) BY <2>1 DEF WeightedGraph
  <2> QED BY <1>1, <2>2
<1>3. Ranked(N, src, dst, h, ks, d, z, 1, 1, {}, z) BY <1>1, <1>2 DEF Ranked
<1> QED BY <1>3 DEF z

LEMMA RankedRaise ==
    ASSUME NEW N, NEW m, NEW src, NEW dst, NEW h, WeightedGraph(N, m, src, dst, h),
           NEW ks \in SUBSET (1 .. m), NEW d, NEW pred, d \in [N -> Nat],
           pred \in [N -> 0 .. m],
           NEW r \in Nat \ {0}, NEW k \in ks, NEW U, NEW last,
           Ranked(N, src, dst, h, ks, d, pred, r, k, U, last),
           d[dst[k]] < d[src[k]] + h[k]
    PROVE  Ranked(N, src, dst, h, ks, [d EXCEPT ![dst[k]] = d[src[k]] + h[k]],
                  [pred EXCEPT ![dst[k]] = k], r, k + 1, {dst[k]},
                  [last EXCEPT ![dst[k]] = r])
<1> DEFINE v == dst[k]
           c == d[src[k]] + h[k]
           e == [d EXCEPT ![v] = c]
           p == [pred EXCEPT ![v] = k]
           l == [last EXCEPT ![v] = r]
<1>1. m \in Nat /\ k \in 1 .. m /\ k \in Int /\ k # 0 BY DEF WeightedGraph
<1>2. v \in N /\ src[k] \in N /\ h[k] \in Int BY <1>1 DEF WeightedGraph
<1>3. d[v] \in Nat /\ d[src[k]] \in Nat /\ d[v] < c /\ c \in Int BY <1>2
<1> HIDE DEF c
<1>4. last \in [N -> 0 .. r] BY DEF Ranked
<1>5. /\ e[v] = c /\ p[v] = k /\ l[v] = r
      /\ \A u \in N : u # v => e[u] = d[u] /\ p[u] = pred[u] /\ l[u] = last[u]
  BY <1>2, <1>4
<1>6. l \in [N -> 0 .. r]
  <2>1. r \in 0 .. r OBVIOUS
  <2> QED BY <2>1, <1>4
<1> HIDE DEF e, p, l
<1>7. ASSUME NEW u \in N, l[u] # 0 PROVE p[u] # 0
  BY <1>1, <1>5, <1>7 DEF Ranked
<1>8. ASSUME NEW u \in N, p[u] # 0 PROVE l[u] =< l[src[p[u]]] + 1
  <2>1. l[u] \in 0 .. r BY <1>6
  <2>2. p[u] \in 1 .. m BY <1>1, <1>5, <1>8
  <2>3. src[p[u]] \in N BY <2>2 DEF WeightedGraph
  <2>4. CASE src[p[u]] = v BY <2>1, <2>4, <1>5
  <2>5. CASE src[p[u]] # v
    <3>1. l[src[p[u]]] = last[src[p[u]]] /\ last[src[p[u]]] \in 0 .. r
      BY <2>3, <2>5, <1>4, <1>5
    <3>2. CASE u = v
      <4>1. p[u] = k BY <3>2, <1>5
      <4>2. ~(k < k) BY <1>1
      <4>3. last[src[k]] >= r - 1 BY <4>2 DEF Ranked
      <4> QED BY <2>1, <3>1, <4>1, <4>3
    <3>3. CASE u # v
      <4>1. p[u] = pred[u] /\ l[u] = last[u] BY <3>3, <1>5
      <4>2. last[u] =< last[src[pred[u]]] + 1 BY <4>1, <1>8 DEF Ranked
      <4> QED BY <3>1, <4>1, <4>2
    <3> QED BY <3>2, <3>3
  <2> QED BY <2>4, <2>5
<1>9. ASSUME NEW i \in ks, e[dst[i]] < e[src[i]] + h[i]
      PROVE  l[src[i]] >= (IF i < k + 1 THEN r ELSE r - 1)
  <2>1. i \in 1 .. m BY DEF WeightedGraph
  <2>2. src[i] \in N /\ dst[i] \in N /\ h[i] \in Int BY <2>1 DEF WeightedGraph
  <2>3. CASE src[i] = v BY <2>3, <1>5
  <2>4. CASE src[i] # v
    <3>1. e[src[i]] = d[src[i]] /\ l[src[i]] = last[src[i]] /\ last[src[i]] \in 0 .. r
      BY <2>2, <2>4, <1>4, <1>5
    <3>2. i # k BY <3>1, <1>3, <1>5, <1>9 DEF c
    <3>3. d[dst[i]] =< e[dst[i]] /\ d[dst[i]] \in Nat /\ e[dst[i]] \in Int /\ d[src[i]] \in Nat
      BY <2>2, <1>3, <1>5
    <3>4. d[dst[i]] < d[src[i]] + h[i]
      <4>1. e[dst[i]] < d[src[i]] + h[i] BY <3>1, <1>9
      <4> QED BY <2>2, <3>3, <4>1
    <3>5. last[src[i]] >= (IF i < k THEN r ELSE r - 1) BY <3>4 DEF Ranked
    <3>6. i < k + 1 <=> i < k BY <2>1, <3>2, <1>1
    <3> QED BY <3>1, <3>5, <3>6
  <2> QED BY <2>3, <2>4
<1>10. Ranked(N, src, dst, h, ks, e, p, r, k + 1, {v}, l)
  BY <1>5, <1>6, <1>7, <1>8, <1>9 DEF Ranked
<1> QED BY <1>10 DEF e, p, l, c

LEMMA RankedPass ==
    ASSUME NEW N, NEW m, NEW src, NEW dst, NEW h, WeightedGraph(N, m, src, dst, h),
           NEW ks \in SUBSET (1 .. m), NEW d, NEW pred, d \in [N -> Nat],
           NEW r \in Nat \ {0}, NEW k \in 1 .. m, NEW U, NEW last,
           Ranked(N, src, dst, h, ks, d, pred, r, k, U, last),
           k \in ks => ~(d[dst[k]] < d[src[k]] + h[k])
    PROVE  Ranked(N, src, dst, h, ks, d, pred, r, k + 1, U, last)
<1>1. ASSUME NEW i \in ks, d[dst[i]] < d[src[i]] + h[i]
      PROVE  last[src[i]] >= (IF i < k + 1 THEN r ELSE r - 1)
  <2>1. i \in 1 .. m /\ m \in Nat /\ i # k BY <1>1 DEF WeightedGraph
  <2>2. i < k + 1 <=> i < k BY <2>1
  <2>3. last[src[i]] >= (IF i < k THEN r ELSE r - 1) BY <1>1 DEF Ranked
  <2> QED BY <2>2, <2>3
<1> QED BY <1>1 DEF Ranked

LEMMA RankedRound ==
    ASSUME NEW N, NEW m, NEW src, NEW dst, NEW h, WeightedGraph(N, m, src, dst, h),
           NEW ks \in SUBSET (1 .. m), NEW d, NEW pred,
           NEW r \in Nat \ {0}, NEW k \in Nat, k > m, NEW U, NEW last,
           Ranked(N, src, dst, h, ks, d, pred, r, k, U, last)
    PROVE  Ranked(N, src, dst, h, ks, d, pred, r + 1, 1, {}, last)
<1>1. last \in [N -> 0 .. r + 1] BY DEF Ranked
<1>2. ASSUME NEW i \in ks, d[dst[i]] < d[src[i]] + h[i]
      PROVE  last[src[i]] >= (IF i < 1 THEN r + 1 ELSE (r + 1) - 1)
  <2>1. i \in 1 .. m /\ m \in Nat BY DEF WeightedGraph
  <2>2. ~(i < 1) /\ i < k /\ (r + 1) - 1 = r BY <2>1
  <2>3. last[src[i]] >= r BY <1>2, <2>2 DEF Ranked
  <2> QED BY <2>2, <2>3
<1> QED BY <1>1, <1>2 DEF Ranked

\* b goes from a node to the start of the edge that raised it, M times.
Walks(N, src, pred, b, M) ==
    \A k \in 1 .. M : b[k - 1] \in N /\ pred[b[k - 1]] # 0 => b[k] = src[pred[b[k - 1]]]

Reaches(N, pred, x, n) ==
    \A j \in 0 .. n : x[j] \in N /\ (j < n => pred[x[j]] # 0)

\* From a node that round n raised, n steps back never meet a node without a
\* predecessor.
LEMMA WalkReaches ==
    ASSUME NEW N, NEW m, NEW src, NEW dst, NEW h, WeightedGraph(N, m, src, dst, h),
           NEW ks, NEW d, NEW pred \in [N -> 0 .. m], NEW n \in Nat, NEW k, NEW U, NEW last,
           Ranked(N, src, dst, h, ks, d, pred, n, k, U, last),
           NEW x, x[0] \in U, x[0] \in N, Walks(N, src, pred, x, n)
    PROVE  Reaches(N, pred, x, n)
<1> DEFINE T == {j \in 0 .. n : x[j] \in N /\ last[x[j]] >= n - j}
<1>1. /\ last \in [N -> 0 .. n]
      /\ \A v \in N : last[v] # 0 => pred[v] # 0
      /\ \A v \in N : pred[v] # 0 => last[v] =< last[src[pred[v]]] + 1
      /\ \A u \in U : last[u] = n
  BY DEF Ranked
<1>2. 0 \in T
  <2>1. last[x[0]] = n BY <1>1
  <2>2. n >= n - 0 /\ 0 \in 0 .. n OBVIOUS
  <2> QED BY <2>1, <2>2
<1>3. ASSUME NEW j \in 0 .. n, x[j] \in N, last[x[j]] >= n - j, j < n
      PROVE  pred[x[j]] # 0
  <2>1. last[x[j]] \in 0 .. n BY <1>1, <1>3
  <2>2. last[x[j]] # 0 BY <2>1, <1>3
  <2> QED BY <2>2, <1>1, <1>3
<1>4. ASSUME NEW j \in 1 .. n, j - 1 \in T PROVE j \in T
  <2>1. x[j - 1] \in N /\ last[x[j - 1]] >= n - (j - 1) /\ j - 1 \in 0 .. n /\ j - 1 < n
    BY <1>4
  <2>2. pred[x[j - 1]] # 0 BY <2>1, <1>3
  <2>3. x[j] = src[pred[x[j - 1]]] BY <2>1, <2>2 DEF Walks
  <2>4. pred[x[j - 1]] \in 1 .. m
    <3>1. m \in Nat BY DEF WeightedGraph
    <3> QED BY <3>1, <2>1, <2>2
  <2>5. x[j] \in N BY <2>3, <2>4 DEF WeightedGraph
  <2>6. last[x[j - 1]] =< last[x[j]] + 1 BY <2>1, <2>2, <2>3, <1>1
  <2>7. last[x[j]] \in Nat /\ last[x[j - 1]] \in Nat BY <2>1, <2>5, <1>1
  <2>8. last[x[j]] >= n - j BY <2>1, <2>6, <2>7
  <2>9. j \in 0 .. n OBVIOUS
  <2> QED BY <2>5, <2>8, <2>9
<1>5. \A j \in 0 .. n : j \in T
  <2> HIDE DEF T
  <2> QED BY <1>2, <1>4, Climb
<1> QED BY <1>3, <1>5 DEF Reaches

\* Two of the first n + 1 nodes of a walk among n nodes are the same.
LEMMA WalkRepeats ==
    ASSUME NEW N, IsFiniteSet(N), NEW n, n = Cardinality(N),
           NEW x, \A j \in 0 .. n : x[j] \in N
    PROVE  n \in Nat /\ \E i \in 0 .. n, j \in 0 .. n : i < j /\ x[i] = x[j]
<1>1. n \in Nat BY FS_CardinalityType
<1> DEFINE I == 0 .. n
           f == [j \in I |-> x[j]]
<1>2. IsFiniteSet(I) /\ Cardinality(I) = n + 1
  <2>1. n \in Int /\ 0 \in Int BY <1>1
  <2>2. IsFiniteSet(I) /\ Cardinality(I) = IF 0 > n THEN 0 ELSE n - 0 + 1
    BY <2>1, FS_Interval
  <2> QED BY <2>2, <1>1
<1>3. f \in [I -> N] OBVIOUS
<1>4. \E i, j \in I : i # j /\ f[i] = f[j]
  <2>1. Cardinality(I) > Cardinality(N) BY <1>1, <1>2
  <2> HIDE DEF I, f
  <2> QED BY <1>2, <1>3, <2>1, FS_PigeonHole
<1>5. PICK i \in I, j \in I : i # j /\ x[i] = x[j] BY <1>4
<1>6. i < j \/ j < i BY <1>1, <1>5
<1> QED BY <1>1, <1>5, <1>6

\* A walk that has met one node twice goes around from then on.
Turns(N, src, pred, b, i, j, M) ==
    /\ i \in 0 .. M /\ j \in 0 .. M /\ i < j /\ b[i] = b[j]
    /\ \A k \in 0 .. j : b[k] \in N
    /\ \A k \in 0 .. j - 1 : pred[b[k]] # 0
    /\ Walks(N, src, pred, b, M)

TurnedAround(N, pred, b, i, j, M) ==
    /\ \A k \in 0 .. M : b[k] \in N /\ pred[b[k]] # 0
    /\ \A k \in j .. M : b[k] = b[k - (j - i)]

LEMMA TurnsForever ==
    ASSUME NEW N, NEW src, NEW pred, NEW b, NEW M \in Nat,
           NEW i, NEW j, Turns(N, src, pred, b, i, j, M)
    PROVE  TurnedAround(N, pred, b, i, j, M)
<1>1. /\ i \in 0 .. M /\ j \in 0 .. M /\ i < j /\ b[i] = b[j]
      /\ \A k \in 0 .. j : b[k] \in N
      /\ \A k \in 0 .. j - 1 : pred[b[k]] # 0
      /\ \A k \in 1 .. M : b[k - 1] \in N /\ pred[b[k - 1]] # 0 => b[k] = src[pred[b[k - 1]]]
  BY DEF Turns, Walks
<1> DEFINE T == {k \in 0 .. M : /\ \A l \in 0 .. k : b[l] \in N /\ pred[b[l]] # 0
                                /\ \A l \in j .. k : b[l] = b[l - (j - i)]}
<1>2. 0 \in T
  <2>1. 0 \in 0 .. j /\ 0 \in 0 .. j - 1 BY <1>1
  <2>2. \A l \in 0 .. 0 : b[l] \in N /\ pred[b[l]] # 0 BY <1>1, <2>1
  <2>3. \A l \in j .. 0 : FALSE BY <1>1
  <2> QED BY <2>2, <2>3
<1>3. ASSUME NEW k \in 1 .. M, k - 1 \in T PROVE k \in T
  <2>1. /\ \A l \in 0 .. k - 1 : b[l] \in N /\ pred[b[l]] # 0
        /\ \A l \in j .. k - 1 : b[l] = b[l - (j - i)]
    BY <1>3
  <2>2. k \in 0 .. M /\ k - 1 \in 0 .. k - 1 OBVIOUS
  <2>3. b[k] = src[pred[b[k - 1]]] BY <1>1, <2>1, <2>2
  <2>4. CASE k < j
    <3>1. k \in 0 .. j /\ k \in 0 .. j - 1 BY <1>1, <2>4
    <3>2. b[k] \in N /\ pred[b[k]] # 0 BY <1>1, <3>1
    <3>3. ASSUME NEW l \in 0 .. k PROVE b[l] \in N /\ pred[b[l]] # 0
      <4>1. l = k \/ l \in 0 .. k - 1 OBVIOUS
      <4> QED BY <4>1, <3>2, <2>1
    <3>4. \A l \in j .. k : FALSE BY <1>1, <2>4
    <3> QED BY <2>2, <3>3, <3>4
  <2>5. CASE k >= j
    <3>1. b[k] = b[k - (j - i)]
      <4>1. CASE k = j
        <5>1. k - (j - i) = i BY <1>1, <4>1
        <5> QED BY <5>1, <4>1, <1>1
      <4>2. CASE k # j
        <5> DEFINE q == k - (j - i)
        <5>1. /\ k - 1 \in j .. k - 1 /\ q \in 1 .. M /\ q - 1 \in 0 .. k - 1
              /\ (k - 1) - (j - i) = q - 1
          BY <1>1, <2>5, <4>2
        <5> HIDE DEF q
        <5>2. b[k - 1] = b[q - 1] BY <5>1, <2>1
        <5>3. b[q] = src[pred[b[q - 1]]] BY <5>1, <2>1, <1>1
        <5>4. b[k] = b[q] BY <5>2, <5>3, <2>3
        <5> QED BY <5>4 DEF q
      <4> QED BY <4>1, <4>2
    <3>2. k - (j - i) \in 0 .. k - 1 BY <1>1, <2>5
    <3>3. b[k] \in N /\ pred[b[k]] # 0 BY <3>1, <3>2, <2>1
    <3>4. ASSUME NEW l \in 0 .. k PROVE b[l] \in N /\ pred[b[l]] # 0
      <4>1. l = k \/ l \in 0 .. k - 1 OBVIOUS
      <4> QED BY <4>1, <3>3, <2>1
    <3>5. ASSUME NEW l \in j .. k PROVE b[l] = b[l - (j - i)]
      <4>1. l = k \/ l \in j .. k - 1 BY <1>1
      <4> QED BY <4>1, <3>1, <2>1
    <3> QED BY <2>2, <3>4, <3>5
  <2> QED BY <1>1, <2>4, <2>5
<1>4. M \in T
  <2> HIDE DEF T
  <2>1. \A k \in 0 .. M : k \in T BY <1>2, <1>3, Climb
  <2> QED BY <2>1
<1> QED BY <1>4 DEF TurnedAround

Returns(N, pred, y, n) ==
    /\ \A j \in 0 .. n : y[j] \in N /\ pred[y[j]] # 0
    /\ \E p \in 1 .. n : y[p] = y[0]

\* n steps back from a node that round n raised there is a node to which the
\* next n steps back return.
LEMMA WalkReturns ==
    ASSUME NEW N, IsFiniteSet(N), NEW m, NEW src, NEW dst, NEW h, WeightedGraph(N, m, src, dst, h),
           NEW ks, NEW d, NEW pred \in [N -> 0 .. m], NEW n, n = Cardinality(N),
           NEW k, NEW U, NEW last,
           Ranked(N, src, dst, h, ks, d, pred, n, k, U, last),
           NEW x, x[0] \in U, x[0] \in N, Walks(N, src, pred, x, n),
           NEW y, y[0] = x[n], Walks(N, src, pred, y, n)
    PROVE  Returns(N, pred, y, n)
<1>1. n \in Nat BY FS_CardinalityType
<1>2. \A j \in 0 .. n : x[j] \in N /\ (j < n => pred[x[j]] # 0)
  <2>1. Reaches(N, pred, x, n) BY <1>1, WalkReaches, Zenon
  <2> QED BY <2>1 DEF Reaches
<1>3. PICK i \in 0 .. n, j \in 0 .. n : i < j /\ x[i] = x[j] BY <1>2, WalkRepeats
<1> DEFINE b == [l \in 0 .. 2 * n |-> IF l =< n THEN x[l] ELSE y[l - n]]
<1>4. 2 * n \in Nat BY <1>1
<1>5. /\ \A l \in 0 .. n : b[l] = x[l]
      /\ \A l \in 0 .. n : b[n + l] = y[l]
  <2>1. ASSUME NEW l \in 0 .. n PROVE b[l] = x[l] BY <1>1
  <2>2. ASSUME NEW l \in 0 .. n PROVE b[n + l] = y[l]
    <3>1. n + l \in 0 .. 2 * n /\ (n + l) - n = l BY <1>1
    <3>2. CASE l = 0
      <4>1. n + l = n BY <1>1, <3>2
      <4> QED BY <3>1, <3>2, <4>1, <1>1
    <3>3. CASE l # 0
      <4>1. ~(n + l =< n) BY <1>1, <3>3
      <4> QED BY <3>1, <4>1
    <3> QED BY <3>2, <3>3
  <2> QED BY <2>1, <2>2
<1> HIDE DEF b
<1>6. Walks(N, src, pred, b, 2 * n)
  <2> SUFFICES ASSUME NEW l \in 1 .. 2 * n, b[l - 1] \in N, pred[b[l - 1]] # 0
               PROVE  b[l] = src[pred[b[l - 1]]]
    BY DEF Walks
  <2>1. CASE l =< n
    <3>1. l \in 1 .. n /\ l \in 0 .. n /\ l - 1 \in 0 .. n BY <1>1, <2>1
    <3>2. b[l] = x[l] /\ b[l - 1] = x[l - 1] BY <1>5, <3>1
    <3> QED BY <3>1, <3>2 DEF Walks
  <2>2. CASE l > n
    <3> DEFINE q == l - n
    <3>1. /\ q \in 1 .. n /\ q \in 0 .. n /\ q - 1 \in 0 .. n
          /\ l = n + q /\ l - 1 = n + (q - 1)
      BY <1>1, <2>2
    <3> HIDE DEF q
    <3>2. b[l] = y[q] /\ b[l - 1] = y[q - 1] BY <1>5, <3>1
    <3> QED BY <3>1, <3>2 DEF Walks
  <2> QED BY <1>1, <2>1, <2>2
<1>7. Turns(N, src, pred, b, i, j, 2 * n)
  <2>1. i \in 0 .. 2 * n /\ j \in 0 .. 2 * n BY <1>1
  <2>2. b[i] = b[j] BY <1>3, <1>5
  <2>3. ASSUME NEW l \in 0 .. j PROVE b[l] \in N
    <3>1. l \in 0 .. n BY <1>1
    <3> QED BY <3>1, <1>2, <1>5
  <2>4. ASSUME NEW l \in 0 .. j - 1 PROVE pred[b[l]] # 0
    <3>1. l \in 0 .. n /\ l < n BY <1>1
    <3> QED BY <3>1, <1>2, <1>5
  <2> QED BY <1>3, <1>6, <2>1, <2>2, <2>3, <2>4 DEF Turns
<1>8. /\ \A l \in 0 .. 2 * n : b[l] \in N /\ pred[b[l]] # 0
      /\ \A l \in j .. 2 * n : b[l] = b[l - (j - i)]
  <2> DEFINE M == 2 * n
  <2>1. M \in Nat /\ Turns(N, src, pred, b, i, j, M) BY <1>4, <1>7
  <2> HIDE DEF M
  <2>2. TurnedAround(N, pred, b, i, j, M) BY <2>1, TurnsForever, Zenon
  <2> QED BY <2>2 DEF M, TurnedAround
<1>9. ASSUME NEW l \in 0 .. n PROVE y[l] \in N /\ pred[y[l]] # 0
  <2>1. n + l \in 0 .. 2 * n BY <1>1
  <2> QED BY <2>1, <1>5, <1>8
<1>10. \E p \in 1 .. n : y[p] = y[0]
  <2> DEFINE p == j - i
  <2>1. p \in 1 .. n /\ p \in 0 .. n /\ n + p \in j .. 2 * n /\ (n + p) - p = n + 0
    BY <1>1, <1>3
  <2>2. b[n + p] = b[(n + p) - p] BY <2>1, <1>8
  <2> HIDE DEF p
  <2>3. 0 \in 0 .. n BY <1>1
  <2>4. b[n + p] = y[p] /\ b[n + 0] = y[0] BY <2>1, <2>3, <1>5
  <2>5. y[p] = y[0] BY <2>1, <2>2, <2>4
  <2> QED BY <2>1, <2>5
<1> QED BY <1>9, <1>10 DEF Returns

\* The edges that a walk back to its start has passed.
EdgesAround(pred, y, p) == {pred[y[k]] : k \in 0 .. p - 1}

\* y walks along nodes that have a predecessor, and returns after p steps.
Around(N, src, pred, y, n, p) ==
    /\ n \in Nat /\ p \in 1 .. n /\ y[p] = y[0]
    /\ \A k \in 0 .. n : y[k] \in N /\ pred[y[k]] # 0
    /\ Walks(N, src, pred, y, n)

\* Going on after the return meets no other node.
LEMMA AroundCovers ==
    ASSUME NEW N, NEW src, NEW pred, NEW y, NEW n, NEW p, Around(N, src, pred, y, n, p)
    PROVE  {pred[y[k]] : k \in 0 .. n} = EdgesAround(pred, y, p)
<1>1. /\ n \in Nat /\ p \in 1 .. n /\ y[p] = y[0]
      /\ \A k \in 0 .. n : y[k] \in N /\ pred[y[k]] # 0
      /\ \A k \in 1 .. n : y[k - 1] \in N /\ pred[y[k - 1]] # 0 => y[k] = src[pred[y[k - 1]]]
  BY DEF Around, Walks
<1>2. ASSUME NEW k \in 1 .. n PROVE y[k] = src[pred[y[k - 1]]]
  <2>1. k - 1 \in 0 .. n BY <1>1
  <2> QED BY <2>1, <1>1
<1> DEFINE T == {k \in 0 .. n : \E j \in 0 .. p - 1 : y[k] = y[j]}
<1>3. 0 \in T
  <2>1. 0 \in 0 .. n /\ 0 \in 0 .. p - 1 BY <1>1
  <2> QED BY <2>1
<1>4. ASSUME NEW k \in 1 .. n, k - 1 \in T PROVE k \in T
  <2>1. PICK j \in 0 .. p - 1 : y[k - 1] = y[j] BY <1>4
  <2>2. j + 1 \in 1 .. n /\ (j + 1) - 1 = j /\ k \in 0 .. n BY <1>1
  <2>3. y[k] = y[j + 1] BY <2>1, <2>2, <1>2
  <2>4. CASE j + 1 = p
    <3>1. y[k] = y[0] /\ 0 \in 0 .. p - 1 BY <2>3, <2>4, <1>1
    <3> QED BY <3>1, <2>2
  <2>5. CASE j + 1 # p
    <3>1. j + 1 \in 0 .. p - 1 BY <2>5, <1>1
    <3> QED BY <3>1, <2>2, <2>3
  <2> QED BY <2>4, <2>5
<1>5. \A k \in 0 .. n : k \in T
  <2> HIDE DEF T
  <2> QED BY <1>1, <1>3, <1>4, Climb
<1>6. \A k \in 0 .. n : \E j \in 0 .. p - 1 : y[k] = y[j] BY <1>5
<1>7. \A j \in 0 .. p - 1 : j \in 0 .. n BY <1>1
<1> QED BY <1>6, <1>7 DEF EdgesAround

\* These edges are a closed chain of predecessors that meets every node once.
LEMMA AroundCloses ==
    ASSUME NEW N, NEW m, NEW src, NEW dst, NEW h, NEW d, NEW pred,
           Traced(N, m, src, dst, h, d, pred),
           NEW y, NEW n, NEW p, Around(N, src, pred, y, n, p)
    PROVE  LET W == EdgesAround(pred, y, p)
           IN  /\ ClosedChain(src, dst, W)
               /\ W \subseteq Used(N, pred)
               /\ \A k, l \in W : dst[k] = dst[l] => k = l
<1> DEFINE W == EdgesAround(pred, y, p)
<1>1. /\ n \in Nat /\ p \in 1 .. n /\ y[p] = y[0]
      /\ \A k \in 0 .. n : y[k] \in N /\ pred[y[k]] # 0
      /\ \A k \in 1 .. n : y[k - 1] \in N /\ pred[y[k - 1]] # 0 => y[k] = src[pred[y[k - 1]]]
  BY DEF Around, Walks
<1>2. ASSUME NEW k \in 0 .. p - 1
      PROVE  /\ pred[y[k]] \in W /\ pred[y[k]] # 0 /\ y[k] \in N
             /\ dst[pred[y[k]]] = y[k] /\ src[pred[y[k]]] = y[k + 1]
  <2>1. k \in 0 .. n /\ k + 1 \in 1 .. n /\ (k + 1) - 1 = k BY <1>1
  <2>2. y[k] \in N /\ pred[y[k]] # 0 BY <2>1, <1>1
  <2>3. dst[pred[y[k]]] = y[k] BY <2>2 DEF Traced, HeldByPred
  <2>4. src[pred[y[k]]] = y[k + 1] BY <2>1, <2>2, <1>1
  <2> QED BY <2>2, <2>3, <2>4 DEF EdgesAround
<1>3. ASSUME NEW w \in W PROVE \E k \in 0 .. p - 1 : w = pred[y[k]] BY DEF EdgesAround
<1> HIDE DEF W
<1>4. ASSUME NEW w \in W PROVE pred[dst[w]] = w /\ dst[w] \in N /\ w # 0
  <2>1. PICK k \in 0 .. p - 1 : w = pred[y[k]] BY <1>3
  <2> QED BY <2>1, <1>2
<1>5. W \subseteq Used(N, pred) BY <1>4 DEF Used
<1>6. \A k, l \in W : dst[k] = dst[l] => k = l
  <2>1. \A w \in W : pred[dst[w]] = w BY <1>4
  <2> QED BY <2>1, Zenon
<1>7. W # {}
  <2>1. 0 \in 0 .. p - 1 BY <1>1
  <2> QED BY <2>1, <1>2
<1>8. ASSUME NEW w \in W PROVE \E v \in W : dst[v] = src[w]
  <2>1. PICK k \in 0 .. p - 1 : w = pred[y[k]] BY <1>3
  <2>2. src[w] = y[k + 1] BY <2>1, <1>2
  <2>3. CASE k + 1 = p
    <3>1. 0 \in 0 .. p - 1 /\ src[w] = y[0] BY <2>2, <2>3, <1>1
    <3> QED BY <3>1, <1>2
  <2>4. CASE k + 1 # p
    <3>1. k + 1 \in 0 .. p - 1 BY <2>4, <1>1
    <3> QED BY <2>2, <3>1, <1>2
  <2> QED BY <2>3, <2>4
<1>9. ASSUME NEW w \in W PROVE \E v \in W : src[v] = dst[w]
  <2>1. PICK k \in 0 .. p - 1 : w = pred[y[k]] BY <1>3
  <2>2. dst[w] = y[k] BY <2>1, <1>2
  <2>3. CASE k = 0
    <3>1. p - 1 \in 0 .. p - 1 /\ (p - 1) + 1 = p BY <1>1
    <3>2. src[pred[y[p - 1]]] = y[0] BY <3>1, <1>1, <1>2
    <3> QED BY <2>2, <2>3, <3>1, <3>2, <1>2
  <2>4. CASE k # 0
    <3>1. k - 1 \in 0 .. p - 1 /\ (k - 1) + 1 = k BY <2>4, <1>1
    <3>2. src[pred[y[k - 1]]] = y[k] BY <3>1, <1>2
    <3> QED BY <2>2, <3>1, <3>2, <1>2
  <2> QED BY <2>3, <2>4
<1>10. {src[k] : k \in W} = {dst[k] : k \in W}
  <2>1. \A z \in {src[k] : k \in W} : z \in {dst[k] : k \in W} BY <1>8
  <2>2. \A z \in {dst[k] : k \in W} : z \in {src[k] : k \in W} BY <1>9
  <2> QED BY <2>1, <2>2
<1>11. ClosedChain(src, dst, W) BY <1>7, <1>10 DEF ClosedChain
<1> QED BY <1>5, <1>6, <1>11 DEF W

\* From every node there is such a walk.
LEMMA WalkExists ==
    ASSUME NEW N, NEW m, NEW src, NEW dst, NEW h, WeightedGraph(N, m, src, dst, h),
           NEW pred \in [N -> 0 .. m], NEW v \in N, NEW n \in Nat
    PROVE  \E x : x[0] = v /\ Walks(N, src, pred, x, n)
<1> DEFINE back == [u \in N |-> IF pred[u] = 0 THEN u ELSE src[pred[u]]]
           G == [z \in Nat \X N |-> back[z[2]]]
<1>1. back \in [N -> N]
  <2>1. ASSUME NEW u \in N, pred[u] # 0 PROVE src[pred[u]] \in N
    <3>1. pred[u] \in 1 .. m BY <2>1 DEF WeightedGraph
    <3> QED BY <3>1 DEF WeightedGraph
  <2> QED BY <2>1
<1>2. \A u \in N : pred[u] # 0 => back[u] = src[pred[u]] OBVIOUS
<1> HIDE DEF back
<1>3. G \in [Nat \X N -> N] BY <1>1
<1>4. PICK x \in [0 .. n -> N] : Iterates(x, v, G, n)
  <2> HIDE DEF G
  <2> QED BY <1>3, RecursionExists
<1>5. x[0] = v /\ \A k \in 1 .. n : x[k] = G[<<k, x[k - 1]>>] BY <1>4, Zenon DEF Iterates
<1>6. ASSUME NEW k \in 1 .. n PROVE x[k] = back[x[k - 1]] /\ x[k - 1] \in N
  <2>1. k \in Nat /\ k - 1 \in 0 .. n OBVIOUS
  <2>2. <<k, x[k - 1]>> \in Nat \X N BY <2>1, <1>4
  <2>3. G[<<k, x[k - 1]>>] = back[x[k - 1]] BY <2>2
  <2> QED BY <2>1, <2>3, <1>4, <1>5
<1>7. Walks(N, src, pred, x, n) BY <1>2, <1>6 DEF Walks
<1> QED BY <1>5, <1>7
=============================================================================
