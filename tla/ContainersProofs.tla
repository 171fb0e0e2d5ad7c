-------------------------- MODULE ContainersProofs --------------------------
(***************************************************************************)
(* Proofs about Containers, for any containers, capacities, kinds of items *)
(* and stack size.                                                         *)
(***************************************************************************)
EXTENDS Containers, SequenceTheorems, FiniteSetTheorems, TLAPS

-----------------------------------------------------------------------------
(***************************************************************************)
(* Sums.  They count pairs, so that the library's facts about              *)
(* cardinalities yield theirs.                                             *)
(***************************************************************************)
Below(f) == UNION {{i} \X (1 .. f[i]) : i \in DOMAIN f}

LEMMA BelowPairs ==
    ASSUME NEW f, NEW i, NEW u
    PROVE  <<i, u>> \in Below(f) <=> i \in DOMAIN f /\ u \in 1 .. f[i]
BY DEF Below

LEMMA BelowIsPairs ==
    ASSUME NEW f, NEW p \in Below(f)
    PROVE  p = <<p[1], p[2]>> /\ p[1] \in DOMAIN f /\ p[2] \in 1 .. f[p[1]]
BY DEF Below

LEMMA Column ==
    ASSUME NEW i, NEW n \in Nat
    PROVE  IsFiniteSet({i} \X (1 .. n)) /\ Cardinality({i} \X (1 .. n)) = n
<1>1. IsFiniteSet({i}) /\ Cardinality({i}) = 1
  BY FS_Singleton
<1>2. IsFiniteSet(1 .. n) /\ Cardinality(1 .. n) = n
  BY FS_Interval
<1>3. Cardinality({i} \X (1 .. n)) = 1 * n
  BY <1>1, <1>2, FS_Product
<1>4. IsFiniteSet({i} \X (1 .. n))
  BY <1>1, <1>2, FS_Product
<1>5. QED BY <1>3, <1>4

LEMMA TotalFinite ==
    ASSUME NEW D, IsFiniteSet(D), NEW f \in [D -> Nat]
    PROVE  IsFiniteSet(Below(f)) /\ Total(f) \in Nat
<1> DEFINE P == {{i} \X (1 .. f[i]) : i \in D}
<1>1. PICK g : g = [i \in D |-> {i} \X (1 .. f[i])]
  OBVIOUS
<1>2. g \in Surjection(D, P)
  BY <1>1 DEF Surjection
<1>3. IsFiniteSet(P)
  BY <1>2, FS_Surjection
<1>4. ASSUME NEW i \in D PROVE IsFiniteSet({i} \X (1 .. f[i]))
  BY Column
<1>5. IsFiniteSet(UNION P)
  <2>1. \A T \in P : IsFiniteSet(T)
    BY <1>4
  <2>2. QED BY <1>3, <2>1, FS_UNION
<1>6. UNION P = Below(f)
  BY DEF Below
<1>7. QED BY <1>5, <1>6, FS_CardinalityType DEF Total, Below

\* A sum over two parts of the domain.
LEMMA TotalParts ==
    ASSUME NEW D, IsFiniteSet(D), NEW f \in [D -> Nat], NEW A, NEW B,
           A \cup B = D, A \cap B = {}
    PROVE  Total(f) = Total([i \in A |-> f[i]]) + Total([i \in B |-> f[i]])
<1>1. PICK a : a = [i \in A |-> f[i]]
  OBVIOUS
<1>2. PICK b : b = [i \in B |-> f[i]]
  OBVIOUS
<1>3. IsFiniteSet(A) /\ IsFiniteSet(B)
  BY FS_Subset
<1>4. IsFiniteSet(Below(a)) /\ IsFiniteSet(Below(b))
  <2>1. a \in [A -> Nat] /\ b \in [B -> Nat]
    BY <1>1, <1>2
  <2>2. QED BY <2>1, <1>3, TotalFinite
<1>5. Below(f) = Below(a) \cup Below(b)
  BY <1>1, <1>2 DEF Below
<1>6. Below(a) \cap Below(b) = {}
  BY <1>1, <1>2 DEF Below
<1>7. Cardinality(Below(f)) = Cardinality(Below(a)) + Cardinality(Below(b))
  <2>1. Cardinality(Below(a) \cup Below(b))
            = Cardinality(Below(a)) + Cardinality(Below(b)) - Cardinality(Below(a) \cap Below(b))
    BY <1>4, FS_Union
  <2>2. Cardinality(Below(a)) \in Nat /\ Cardinality(Below(b)) \in Nat
    BY <1>4, FS_CardinalityType
  <2>3. QED BY <1>5, <1>6, <2>1, <2>2, FS_EmptySet
<1>8. QED BY <1>1, <1>2, <1>7 DEF Total, Below

LEMMA TotalSingle ==
    ASSUME NEW f, NEW i, DOMAIN f = {i}, f[i] \in Nat
    PROVE  Total(f) = f[i]
<1>1. Below(f) = {i} \X (1 .. f[i])
  BY DEF Below
<1>2. QED BY <1>1, Column DEF Total, Below

LEMMA TotalZero ==
    ASSUME NEW f, \A i \in DOMAIN f : f[i] = 0
    PROVE  Total(f) = 0
<1>1. Below(f) = {}
  BY DEF Below
<1>2. QED BY <1>1, FS_EmptySet DEF Total, Below

\* One value taken out of a sum.
LEMMA TotalOne ==
    ASSUME NEW D, IsFiniteSet(D), NEW f \in [D -> Nat], NEW i \in D,
           NEW R, R = D \ {i}, NEW b \in [R -> Nat], \A j \in R : b[j] = f[j]
    PROVE  Total(b) \in Nat /\ Total(f) = f[i] + Total(b)
<1>1. PICK a : a = [j \in {i} |-> f[j]]
  OBVIOUS
<1>3. Total(f) = Total(a) + Total(b)
  <2>1. {i} \cup (D \ {i}) = D /\ {i} \cap (D \ {i}) = {}
    OBVIOUS
  <2>2. b = [j \in D \ {i} |-> f[j]]
    OBVIOUS
  <2>3. QED BY <1>1, <2>1, <2>2, TotalParts
<1>4. Total(a) = f[i]
  BY <1>1, TotalSingle
<1>5. Total(b) \in Nat
  <2>1. IsFiniteSet(R)
    BY FS_Subset
  <2>2. QED BY <2>1, TotalFinite
<1>6. QED BY <1>3, <1>4, <1>5

Splits(D, f, i, R, b) ==
    /\ IsFiniteSet(D) /\ f \in [D -> Nat] /\ i \in D
    /\ R = D \ {i} /\ b \in [R -> Nat] /\ \A j \in R : b[j] = f[j]

LEMMA TotalSplit ==
    ASSUME NEW D, NEW f, NEW i, NEW R, NEW b, Splits(D, f, i, R, b)
    PROVE  Total(b) \in Nat /\ Total(f) = f[i] + Total(b)
BY TotalOne DEF Splits

\* One value of a sum changed.
Differs(D, f, g, i) ==
    /\ IsFiniteSet(D) /\ f \in [D -> Nat] /\ g \in [D -> Nat] /\ i \in D
    /\ \A j \in D : j # i => g[j] = f[j]

LEMMA TotalChange ==
    ASSUME NEW D, NEW f, NEW g, NEW i, Differs(D, f, g, i)
    PROVE  Total(g) = Total(f) + g[i] - f[i]
<1> USE DEF Differs
<1>1. PICK R : R = D \ {i}
  OBVIOUS
<1>2. PICK a : a = [j \in R |-> f[j]]
  OBVIOUS
<1>3. a \in [R -> Nat] /\ \A j \in R : a[j] = f[j] /\ a[j] = g[j]
  BY <1>1, <1>2
<1>4. Total(a) \in Nat /\ Total(f) = f[i] + Total(a)
  BY <1>1, <1>3, TotalOne
<1>5. Total(g) = g[i] + Total(a)
  BY <1>1, <1>3, TotalOne
<1>6. f[i] \in Nat /\ g[i] \in Nat
  OBVIOUS
<1>7. QED BY <1>4, <1>5, <1>6

\* The order of the values does not matter.
LEMMA TotalRenamed ==
    ASSUME NEW D, IsFiniteSet(D), NEW E, NEW f \in [D -> Nat], NEW g \in [E -> Nat],
           NEW h \in Bijection(D, E), \A i \in D : g[h[i]] = f[i]
    PROVE  Total(g) = Total(f)
<1>1. PICK F : F = [p \in Below(f) |-> <<h[p[1]], p[2]>>]
  OBVIOUS
<1>2. h \in [D -> E] /\ (\A i, j \in D : h[i] = h[j] => i = j) /\ \A e \in E : \E i \in D : h[i] = e
  BY DEF Bijection, Injection, Surjection, IsInjective
<1>3. ASSUME NEW p \in Below(f) PROVE F[p] \in Below(g)
  <2>1. p[1] \in D /\ p[2] \in 1 .. f[p[1]]
    BY BelowIsPairs
  <2>2. h[p[1]] \in E /\ p[2] \in 1 .. g[h[p[1]]]
    BY <2>1, <1>2
  <2>3. <<h[p[1]], p[2]>> \in Below(g)
    BY <2>2, BelowPairs
  <2>4. QED BY <1>1, <2>3
<1>4. ASSUME NEW p \in Below(f), NEW q \in Below(f), F[p] = F[q] PROVE p = q
  <2>1. p = <<p[1], p[2]>> /\ q = <<q[1], q[2]>> /\ p[1] \in D /\ q[1] \in D
    BY BelowIsPairs
  <2>2. h[p[1]] = h[q[1]] /\ p[2] = q[2]
    BY <1>1, <1>4
  <2>3. QED BY <2>1, <2>2, <1>2
<1>5. ASSUME NEW q \in Below(g) PROVE \E p \in Below(f) : F[p] = q
  <2>1. q = <<q[1], q[2]>> /\ q[1] \in E /\ q[2] \in 1 .. g[q[1]]
    BY BelowIsPairs
  <2>2. PICK i \in D : h[i] = q[1]
    BY <2>1, <1>2
  <2>3. <<i, q[2]>> \in Below(f)
    BY <2>1, <2>2, BelowPairs
  <2>4. F[<<i, q[2]>>] = q
    BY <1>1, <2>1, <2>2, <2>3
  <2>5. QED BY <2>3, <2>4
<1>6. F \in Bijection(Below(f), Below(g))
  <2>1. F \in [Below(f) -> Below(g)]
    BY <1>1, <1>3
  <2>2. QED BY <2>1, <1>4, <1>5 DEF Bijection, Injection, Surjection, IsInjective
<1>7. IsFiniteSet(Below(f))
  BY TotalFinite
<1>8. Cardinality(Below(g)) = Cardinality(Below(f))
  <2>1. ExistsBijection(Below(f), Below(g))
    BY <1>6 DEF ExistsBijection
  <2>2. QED BY <1>7, <2>1, FS_Bijection
<1>9. QED BY <1>8 DEF Total, Below

\* g is f, with the value at i taken out and the others put elsewhere by h.
TakenOut(D, f, i, E, g, h) ==
    /\ IsFiniteSet(D) /\ f \in [D -> Nat] /\ i \in D
    /\ IsFiniteSet(E) /\ g \in [E -> Nat] /\ h \in [E -> D]
    /\ \A j, k \in E : h[j] = h[k] => j = k
    /\ \A d \in D : d = i <=> ~ \E j \in E : h[j] = d
    /\ \A j \in E : f[h[j]] = g[j]

LEMMA TotalMoved ==
    ASSUME NEW D, NEW f, NEW i, NEW E, NEW g, NEW h, TakenOut(D, f, i, E, g, h)
    PROVE  Total(g) = Total(f) - f[i]
<1> USE DEF TakenOut
<1>1. PICK R : R = D \ {i}
  OBVIOUS
<1>2. PICK a : a = [j \in R |-> f[j]]
  OBVIOUS
<1>3. a \in [R -> Nat] /\ \A j \in R : a[j] = f[j]
  BY <1>1, <1>2
<1>4. Total(a) \in Nat /\ Total(f) = f[i] + Total(a)
  BY <1>1, <1>3, TotalOne
<1>5. h \in [E -> R] /\ \A d \in R : \E j \in E : h[j] = d
  BY <1>1
<1>6. h \in Bijection(E, R)
  BY <1>5 DEF Bijection, Injection, Surjection, IsInjective
<1>7. \A j \in E : a[h[j]] = g[j]
  BY <1>3, <1>5
<1>8. Total(a) = Total(g)
  BY <1>3, <1>6, <1>7, TotalRenamed
<1>9. f[i] \in Nat
  OBVIOUS
<1>10. QED BY <1>4, <1>8, <1>9

\* A value in front of the others.
LEMMA TotalInFront ==
    ASSUME NEW n \in Nat, NEW f \in [1 .. n -> Nat], NEW g \in [1 .. n + 1 -> Nat],
           \A j \in 1 .. n : g[j + 1] = f[j]
    PROVE  Total(g) = Total(f) + g[1]
<1>1. PICK D : D = 1 .. n + 1
  OBVIOUS
<1>2. PICK E : E = 1 .. n
  OBVIOUS
<1>3. IsFiniteSet(D) /\ IsFiniteSet(E)
  BY <1>1, <1>2, FS_Interval
<1>4. f \in [E -> Nat] /\ g \in [D -> Nat] /\ 1 \in D
  BY <1>1, <1>2
<1>5. PICK h : h = [j \in E |-> j + 1]
  OBVIOUS
<1>6. h \in [E -> D] /\ \A j, k \in E : h[j] = h[k] => j = k
  BY <1>1, <1>2, <1>5
<1>7. ASSUME NEW d \in D PROVE d = 1 <=> ~ \E j \in E : h[j] = d
  <2>1. d # 1 => d - 1 \in E /\ h[d - 1] = d
    BY <1>1, <1>2, <1>5
  <2>2. \A j \in E : h[j] # 1
    BY <1>2, <1>5
  <2>3. QED BY <2>1, <2>2
<1>8. \A j \in E : g[h[j]] = f[j]
  BY <1>2, <1>5
<1>9. Total(f) = Total(g) - g[1]
  <2>1. TakenOut(D, g, 1, E, f, h)
    BY <1>3, <1>4, <1>6, <1>7, <1>8 DEF TakenOut
  <2>2. QED BY <2>1, TotalMoved
<1>10. Total(g) \in Nat /\ g[1] \in Nat
  BY <1>3, <1>4, TotalFinite
<1>11. QED BY <1>9, <1>10

\* A value taken out, the ones behind it move up.
LEMMA TotalWithout ==
    ASSUME NEW n \in Nat, NEW i \in 1 .. n, NEW f \in [1 .. n -> Nat],
           NEW g \in [1 .. n - 1 -> Nat],
           \A j \in 1 .. n - 1 : g[j] = IF j < i THEN f[j] ELSE f[j + 1]
    PROVE  Total(g) = Total(f) - f[i]
<1>1. PICK D : D = 1 .. n
  OBVIOUS
<1>2. PICK E : E = 1 .. n - 1
  OBVIOUS
<1>3. IsFiniteSet(D) /\ IsFiniteSet(E)
  BY <1>1, <1>2, FS_Interval
<1>4. f \in [D -> Nat] /\ g \in [E -> Nat] /\ i \in D
  BY <1>1, <1>2
<1>5. PICK h : h = [j \in E |-> IF j < i THEN j ELSE j + 1]
  OBVIOUS
<1>6. h \in [E -> D] /\ \A j, k \in E : h[j] = h[k] => j = k
  BY <1>1, <1>2, <1>5
<1>7. ASSUME NEW d \in D PROVE d = i <=> ~ \E j \in E : h[j] = d
  <2>1. d < i => d \in E /\ h[d] = d
    BY <1>1, <1>2, <1>5
  <2>2. d > i => d - 1 \in E /\ h[d - 1] = d
    BY <1>1, <1>2, <1>5
  <2>3. \A j \in E : h[j] # i
    BY <1>2, <1>5
  <2>4. d < i \/ d > i \/ d = i
    BY <1>1
  <2>5. QED BY <2>1, <2>2, <2>3, <2>4
<1>8. \A j \in E : f[h[j]] = g[j]
  BY <1>2, <1>5
<1>9. TakenOut(D, f, i, E, g, h)
  BY <1>3, <1>4, <1>6, <1>7, <1>8 DEF TakenOut
<1>10. QED BY <1>9, TotalMoved

-----------------------------------------------------------------------------
(***************************************************************************)
(* Least and greatest numbers.                                             *)
(***************************************************************************)
LEMMA Least ==
    ASSUME NEW S \in SUBSET Nat, S # {}
    PROVE  Min(S) \in S /\ \A y \in S : Min(S) <= y
<1>1. PICK x \in S : \A y \in S : ~ (<<y, x>> \in OpToRel(<, Nat))
  BY NatLessThanWellFounded, WFMin
<1>2. ASSUME NEW y \in S PROVE x <= y
  <2>1. ~ (<<y, x>> \in {ss \in Nat \X Nat : ss[1] < ss[2]})
    BY <1>1, <1>2 DEF OpToRel
  <2>2. QED BY <2>1
<1>3. QED BY <1>2 DEF Min

LEMMA MaxOfTwo ==
    ASSUME NEW a \in Int, NEW b \in Int
    PROVE  Max({a, b}) = IF a >= b THEN a ELSE b
<1>1. PICK m : m = IF a >= b THEN a ELSE b
  OBVIOUS
<1>2. m \in {a, b} /\ \A y \in {a, b} : m >= y
  BY <1>1
<1>3. Max({a, b}) \in {a, b} /\ \A y \in {a, b} : Max({a, b}) >= y
  BY <1>2 DEF Max
<1>4. QED BY <1>1, <1>2, <1>3

LEMMA MinOfTwo ==
    ASSUME NEW a \in Int, NEW b \in Int
    PROVE  Min({a, b}) = IF a <= b THEN a ELSE b
<1>1. PICK m : m = IF a <= b THEN a ELSE b
  OBVIOUS
<1>2. m \in {a, b} /\ \A y \in {a, b} : m <= y
  BY <1>1
<1>3. Min({a, b}) \in {a, b} /\ \A y \in {a, b} : Min({a, b}) <= y
  BY <1>2 DEF Min
<1>4. QED BY <1>1, <1>2, <1>3

-----------------------------------------------------------------------------
(***************************************************************************)
(* The containers around a container.                                      *)
(***************************************************************************)
LEMMA ChainSelf ==
    ASSUME NEW up, NEW c \in Container
    PROVE  c \in Chain(up, c)
BY DEF Chain

LEMMA ChainContainers ==
    ASSUME NEW up, NEW c
    PROVE  Chain(up, c) \subseteq Container
BY DEF Chain

LEMMA ChainClosed ==
    ASSUME NEW up, NEW c
    PROVE  Closed(up, Chain(up, c))
BY DEF Chain, Closed

LEMMA ChainLeast ==
    ASSUME NEW up, NEW c, NEW S \in SUBSET Container, c \in S, Closed(up, S)
    PROVE  Chain(up, c) \subseteq S
BY DEF Chain

LEMMA ChainAbove ==
    ASSUME NEW up, NEW c, NEW d \in Chain(up, c)
    PROVE  Chain(up, d) \subseteq Chain(up, c)
BY ChainContainers, ChainClosed, ChainLeast

\* Whatever is around c, other than c itself, is around its parent.
LEMMA ChainStep ==
    ASSUME NEW up, NEW c \in Container, NEW d \in Chain(up, c), d # c
    PROVE  up[c] \in Container /\ d \in Chain(up, up[c])
<1>1. CASE up[c] \in Container
  <2>1. PICK S : S = {c} \cup Chain(up, up[c])
    OBVIOUS
  <2>2. S \in SUBSET Container
    BY <2>1, ChainContainers
  <2>3. Closed(up, S)
    <3>1. up[c] \in Chain(up, up[c])
      BY <1>1, ChainSelf
    <3>2. Closed(up, Chain(up, up[c]))
      BY ChainClosed
    <3>3. QED BY <2>1, <3>1, <3>2 DEF Closed
  <2>4. d \in S
    BY <2>1, <2>2, <2>3, ChainLeast
  <2>5. QED BY <1>1, <2>1, <2>4
<1>2. CASE up[c] \notin Container
  <2>1. {c} \in SUBSET Container /\ Closed(up, {c})
    BY <1>2 DEF Closed
  <2>2. Chain(up, c) \subseteq {c}
    BY <2>1, ChainLeast
  <2>3. QED BY <2>2
<1>3. QED BY <1>1, <1>2

\* ... and it is the parent of one of them.
LEMMA ChainBelow ==
    ASSUME NEW up, NEW c \in Container, NEW d \in Chain(up, c), d # c
    PROVE  \E e \in Chain(up, c) : up[e] = d
<1>1. SUFFICES ASSUME \A e \in Chain(up, c) : up[e] # d PROVE FALSE
  OBVIOUS
<1>2. PICK S : S = Chain(up, c) \ {d}
  OBVIOUS
<1>3. S \in SUBSET Container /\ c \in S
  BY <1>2, ChainContainers, ChainSelf
<1>4. Closed(up, S)
  BY <1>1, <1>2, ChainClosed DEF Closed
<1>5. QED BY <1>2, <1>3, <1>4, ChainLeast

\* Of two containers around c, one is around the other.
LEMMA ChainOrder ==
    ASSUME NEW up, NEW c \in Container, NEW d \in Chain(up, c), NEW e \in Chain(up, c)
    PROVE  d \in Chain(up, e) \/ e \in Chain(up, d)
<1>1. PICK S : S = {x \in Container : x \in Chain(up, e) \/ e \in Chain(up, x)}
  OBVIOUS
<1>2. S \in SUBSET Container /\ c \in S
  BY <1>1
<1>3. ASSUME NEW x \in S, up[x] \in Container PROVE up[x] \in S
  <2>1. e \in Container /\ x \in Container
    BY <1>1, ChainContainers
  <2>2. x \in Chain(up, e) => up[x] \in Chain(up, e)
    BY <1>3, ChainClosed DEF Closed
  <2>3. e \in Chain(up, x) /\ x # e => e \in Chain(up, up[x])
    BY <2>1, ChainStep
  <2>4. e \in Chain(up, e)
    BY <2>1, ChainSelf
  <2>5. QED BY <1>1, <1>3, <2>2, <2>3, <2>4
<1>4. Closed(up, S)
  BY <1>3 DEF Closed
<1>5. d \in S
  BY <1>2, <1>4, ChainLeast
<1>6. QED BY <1>1, <1>5

\* Nothing is inside itself.
Acyclic(up) == \A d \in Container : up[d] \in Container => d \notin Chain(up, up[d])

\* So a container around c holds one of the others only.
LEMMA ChainPath ==
    ASSUME NEW up, Acyclic(up), NEW c \in Container, NEW d \in Chain(up, c), NEW e \in Chain(up, c),
           up[d] = up[e], up[d] \in Container
    PROVE  d = e
<1>1. d \in Container /\ e \in Container
  BY ChainContainers
<1>2. d \in Chain(up, e) /\ d # e => d \in Chain(up, up[e])
  BY <1>1, ChainStep
<1>3. e \in Chain(up, d) /\ d # e => e \in Chain(up, up[d])
  BY <1>1, ChainStep
<1>4. QED BY <1>1, <1>2, <1>3, ChainOrder DEF Acyclic

\* ... and c none of them.
LEMMA ChainInnermost ==
    ASSUME NEW up, Acyclic(up), NEW c \in Container, NEW d \in Chain(up, c)
    PROVE  up[d] # c
BY ChainContainers DEF Acyclic

\* A chain depends on the parents in it only.
LEMMA ChainSame ==
    ASSUME NEW up, NEW vp, NEW c \in Container, \A d \in Chain(up, c) : vp[d] = up[d]
    PROVE  Chain(vp, c) = Chain(up, c)
<1>1. Chain(up, c) \in SUBSET Container /\ Chain(vp, c) \in SUBSET Container
  BY ChainContainers
<1>2. c \in Chain(up, c) /\ c \in Chain(vp, c)
  BY ChainSelf
<1>3. Closed(up, Chain(up, c)) /\ Closed(vp, Chain(vp, c))
  BY ChainClosed
<1>4. Chain(vp, c) \subseteq Chain(up, c)
  <2>1. Closed(vp, Chain(up, c))
    BY <1>3 DEF Closed
  <2>2. QED BY <1>1, <1>2, <2>1, ChainLeast
<1>5. Chain(up, c) \subseteq Chain(vp, c)
  <2>1. Closed(up, Chain(vp, c))
    BY <1>3, <1>4 DEF Closed
  <2>2. QED BY <1>1, <1>2, <2>1, ChainLeast
<1>6. QED BY <1>4, <1>5

\* A parent that is taken away makes chains shorter, so there is no cycle,
LEMMA Detached ==
    ASSUME NEW up, NEW vp, Acyclic(up), \A d \in Container : vp[d] \in Container => vp[d] = up[d]
    PROVE  Acyclic(vp)
<1>1. ASSUME NEW c \in Container PROVE Chain(vp, c) \subseteq Chain(up, c)
  <2>1. Chain(up, c) \in SUBSET Container /\ c \in Chain(up, c) /\ Closed(up, Chain(up, c))
    BY ChainContainers, ChainSelf, ChainClosed
  <2>2. Closed(vp, Chain(up, c))
    BY <2>1 DEF Closed
  <2>3. QED BY <2>1, <2>2, ChainLeast
<1>2. QED BY <1>1 DEF Acyclic

\* and a container that is put into one that is not inside of it makes none.
LEMMA Attached ==
    ASSUME NEW up, NEW vp, Acyclic(up), NEW c \in Container, NEW x \in Container,
           x \notin Chain(up, c), vp[x] = c, \A d \in Container : d # x => vp[d] = up[d]
    PROVE  Acyclic(vp)
<1>1. ASSUME NEW d \in Container, vp[d] \in Container, d \in Chain(vp, vp[d]) PROVE FALSE
  <2>1. ASSUME NEW e \in Container, x \notin Chain(up, e) PROVE Chain(vp, e) = Chain(up, e)
    <3>1. \A z \in Chain(up, e) : vp[z] = up[z]
      BY <2>1, ChainContainers
    <3>2. QED BY <3>1, ChainSame
  <2>2. CASE d = x
    BY <1>1, <2>1, <2>2
  <2>3. CASE d # x
    <3>1. PICK p \in Container : p = up[d] /\ p = vp[d]
      BY <1>1, <2>3
    <3>2. d \notin Chain(up, p)
      BY <3>1 DEF Acyclic
    <3>3. PICK S : S = Chain(up, p) \cup Chain(up, c)
      OBVIOUS
    <3>4. S \in SUBSET Container /\ p \in S /\ c \in S
      BY <3>3, ChainContainers, ChainSelf
    <3>5. Closed(vp, S)
      <4>1. Closed(up, Chain(up, p)) /\ Closed(up, Chain(up, c))
        BY ChainClosed
      <4>2. ASSUME NEW z \in S, vp[z] \in Container PROVE vp[z] \in S
        <5>1. z = x => vp[z] \in S
          BY <3>4
        <5>2. z # x => vp[z] = up[z]
          BY <3>4
        <5>3. QED BY <3>3, <4>1, <4>2, <5>1, <5>2 DEF Closed
      <4>3. QED BY <4>2 DEF Closed
    <3>6. d \in Chain(up, c)
      <4>1. d \in Chain(vp, p)
        BY <1>1, <3>1
      <4>2. Chain(vp, p) \subseteq S
        BY <3>4, <3>5, ChainLeast
      <4>3. QED BY <3>2, <3>3, <4>1, <4>2
    <3>7. p \in Chain(up, c)
      BY <3>1, <3>6, ChainClosed DEF Closed
    <3>8. x \notin Chain(up, p)
      BY <3>7, ChainAbove
    <3>9. Chain(vp, p) = Chain(up, p)
      BY <3>8, <2>1
    <3>10. QED BY <1>1, <3>1, <3>2, <3>9
  <2>4. QED BY <2>2, <2>3
<1>2. QED BY <1>1 DEF Acyclic

-----------------------------------------------------------------------------
(***************************************************************************)
(* Trees of containers.                                                    *)
(***************************************************************************)
Elsewhere == {Virtual, Gone, World}
Item == Stack \cup Bag
Trees == [list   : [Container -> Seq(Item)],
          up     : [Container -> Container \cup Elsewhere],
          weight : [Container -> Nat]]

\* The places of b in a list.
At(s, b) == {j \in DOMAIN s : s[j] = b}

Once(s, b) == \E j \in DOMAIN s : At(s, b) = {j}

\* A bag is in the list of its parent, once, and in no other.
Hung(t) ==
    \A b \in Bag, c \in Container :
        IF t.up[b] = c THEN Once(t.list[c], b) ELSE At(t.list[c], b) = {}

Rooted(up) == \A c \in Outer : up[c] = World

Load(t, s) == [j \in DOMAIN s |-> Weight(t, s[j])]

Weighed(t) == \A c \in Container : t.weight[c] = Total(Load(t, t.list[c]))

Sound(t) == t \in Trees /\ Hung(t) /\ Acyclic(t.up) /\ Rooted(t.up) /\ Weighed(t)

LEMMA Kinds ==
    /\ \A x \in Item : IsStack(x) => x \in Stack /\ x.count \in Nat \ {0} /\ x.kind \in Kind
    /\ \A x \in Item : ~IsStack(x) => x \in Bag
    /\ \A x \in Stack : IsStack(x) /\ x \notin Bag /\ x \in Item
    /\ \A x \in Bag : ~IsStack(x) /\ x \in Container /\ x \in Item
BY SizeAssumption DEF IsStack, Item, Stack, Container

LEMMA ListType ==
    ASSUME NEW s \in Seq(Item)
    PROVE  /\ Len(s) \in Nat /\ DOMAIN s = 1 .. Len(s) /\ IsFiniteSet(DOMAIN s)
           /\ \A j \in DOMAIN s : s[j] \in Item
<1>1. Len(s) \in Nat /\ DOMAIN s = 1 .. Len(s) /\ \A j \in DOMAIN s : s[j] \in Item
  BY LenProperties, ElementOfSeq
<1>2. IsFiniteSet(1 .. Len(s))
  BY <1>1, FS_Interval
<1>3. QED BY <1>1, <1>2

LEMMA LoadType ==
    ASSUME NEW t, t.weight \in [Container -> Nat], NEW s \in Seq(Item)
    PROVE  /\ Load(t, s) \in [DOMAIN s -> Nat] /\ Total(Load(t, s)) \in Nat
           /\ \A j \in DOMAIN s : Load(t, s)[j] = Weight(t, s[j])
<1>1. ASSUME NEW j \in DOMAIN s PROVE Weight(t, s[j]) \in Nat
  BY ListType, Kinds DEF Weight
<1>2. Load(t, s) \in [DOMAIN s -> Nat] /\ \A j \in DOMAIN s : Load(t, s)[j] = Weight(t, s[j])
  BY <1>1 DEF Load
<1>3. QED BY <1>2, ListType, TotalFinite

LEMMA PartOfTotal ==
    ASSUME NEW D, IsFiniteSet(D), NEW f \in [D -> Nat], NEW i \in D
    PROVE  f[i] <= Total(f)
<1>1. PICK R : R = D \ {i}
  OBVIOUS
<1>2. PICK a : a = [j \in R |-> f[j]]
  OBVIOUS
<1>3. a \in [R -> Nat] /\ \A j \in R : a[j] = f[j]
  BY <1>1, <1>2
<1>4. Total(a) \in Nat /\ Total(f) = f[i] + Total(a)
  BY <1>1, <1>3, TotalOne
<1>5. f[i] \in Nat
  OBVIOUS
<1>6. QED BY <1>4, <1>5

LEMMA TreeParts ==
    ASSUME NEW t \in Trees
    PROVE  /\ t.list \in [Container -> Seq(Item)]
           /\ t.up \in [Container -> Container \cup Elsewhere]
           /\ t.weight \in [Container -> Nat]
           /\ \A c \in Container : t.list[c] \in Seq(Item) /\ t.weight[c] \in Nat
BY DEF Trees

\* A container weighs what is in it, and more than any item there.
LEMMA ItemWeight ==
    ASSUME NEW t, Sound(t), NEW c \in Container, NEW j \in DOMAIN t.list[c]
    PROVE  Weight(t, t.list[c][j]) \in Nat /\ Weight(t, t.list[c][j]) <= t.weight[c]
<1>1. PICK s : s = t.list[c]
  OBVIOUS
<1>2. s \in Seq(Item) /\ t.weight \in [Container -> Nat]
  BY <1>1, TreeParts DEF Sound
<1>3. PICK f : f = Load(t, s)
  OBVIOUS
<1>4. f \in [DOMAIN s -> Nat] /\ f[j] = Weight(t, s[j])
  BY <1>1, <1>2, <1>3, LoadType
<1>5. IsFiniteSet(DOMAIN s) /\ j \in DOMAIN s
  BY <1>1, <1>2, ListType
<1>6. f[j] <= Total(f) /\ f[j] \in Nat
  BY <1>4, <1>5, PartOfTotal
<1>7. t.weight[c] = Total(f)
  BY <1>1, <1>3 DEF Sound, Weighed
<1>8. QED BY <1>1, <1>4, <1>6, <1>7

\* A container whose parent is one is a bag, and in the list of its parent.
LEMMA InParent ==
    ASSUME NEW t, Sound(t), NEW e \in Container, t.up[e] \in Container
    PROVE  /\ e \in Bag
           /\ \E i \in DOMAIN t.list[t.up[e]] :
                 /\ t.list[t.up[e]][i] = e
                 /\ \A j \in DOMAIN t.list[t.up[e]] : t.list[t.up[e]][j] = e => j = i
<1>1. e \in Bag
  BY SizeAssumption DEF Sound, Rooted, Container
<1>2. Once(t.list[t.up[e]], e)
  BY <1>1 DEF Sound, Hung
<1>3. QED BY <1>1, <1>2 DEF Once, At

\* The bags in a list have its container as their parent.
LEMMA ParentOf ==
    ASSUME NEW t, Sound(t), NEW c \in Container, NEW j \in DOMAIN t.list[c], t.list[c][j] \in Bag
    PROVE  t.up[t.list[c][j]] = c
<1>1. j \in At(t.list[c], t.list[c][j])
  BY DEF At
<1>2. QED BY <1>1 DEF Sound, Hung

LEMMA HeavierAbove ==
    ASSUME NEW t, Sound(t), NEW c \in Container, NEW d \in Chain(t.up, c)
    PROVE  t.weight[c] <= t.weight[d]
<1>1. \A e \in Container : t.weight[e] \in Nat
  BY TreeParts DEF Sound
<1>2. PICK S : S = {e \in Container : t.weight[c] <= t.weight[e]}
  OBVIOUS
<1>3. S \in SUBSET Container /\ c \in S
  BY <1>1, <1>2
<1>4. ASSUME NEW e \in S, t.up[e] \in Container PROVE t.up[e] \in S
  <2>1. PICK p \in Container : p = t.up[e]
    BY <1>4
  <2>2. e \in Container /\ t.weight[c] <= t.weight[e]
    BY <1>2
  <2>3. e \in Bag
    BY <1>4, <2>2, InParent
  <2>4. PICK i \in DOMAIN t.list[p] : t.list[p][i] = e
    BY <1>4, <2>1, <2>2, InParent
  <2>5. Weight(t, t.list[p][i]) = 1 + t.weight[e]
    BY <2>3, <2>4, Kinds DEF Weight
  <2>6. 1 + t.weight[e] <= t.weight[p]
    BY <2>5, ItemWeight
  <2>7. t.weight[c] \in Nat /\ t.weight[e] \in Nat /\ t.weight[p] \in Nat
    BY <1>1, <2>2
  <2>8. t.weight[c] <= t.weight[p]
    BY <2>2, <2>6, <2>7
  <2>9. QED BY <1>2, <2>1, <2>8
<1>5. Closed(t.up, S)
  BY <1>4 DEF Closed
<1>6. d \in S
  BY <1>3, <1>5, ChainLeast
<1>7. QED BY <1>2, <1>6

-----------------------------------------------------------------------------
(***************************************************************************)
(* One list changed: s in place of the list of c, v in place of the        *)
(* parents, and w more weight in c and all around it.                      *)
(***************************************************************************)
Changed(t, r, c, s, v, w) ==
    /\ r = [list   |-> [t.list EXCEPT ![c] = s],
            up     |-> v,
            weight |-> [d \in Container |->
                           IF d \in Chain(t.up, c) THEN t.weight[d] + w ELSE t.weight[d]]]

\* The change is one of c, and of what it keeps about its items.
Fits(t, c, s, v, w) ==
    /\ s \in Seq(Item) /\ v \in [Container -> Container \cup Elsewhere] /\ w \in Int
    /\ Acyclic(v) /\ Rooted(v)
    /\ \A b \in Bag : v[b] # t.up[b] => {v[b], t.up[b]} \cap Container \subseteq {c}
    /\ \A b \in Bag : IF v[b] = c THEN Once(s, b) ELSE At(s, b) = {}
    /\ \A b \in Bag : b \in Chain(t.up, c) => At(s, b) = {}
    /\ Total(Load(t, s)) = t.weight[c] + w

LEMMA ChangedParts ==
    ASSUME NEW t \in Trees, NEW r, NEW c \in Container, NEW s, NEW v, NEW w, Changed(t, r, c, s, v, w)
    PROVE  /\ r.up = v /\ r.list[c] = s
           /\ \A d \in Container : d # c => r.list[d] = t.list[d]
           /\ \A d \in Container :
                 r.weight[d] = IF d \in Chain(t.up, c) THEN t.weight[d] + w ELSE t.weight[d]
<1>1. t.list \in [Container -> Seq(Item)]
  BY TreeParts
<1>2. QED BY <1>1 DEF Changed

LEMMA ChangedTypes ==
    ASSUME NEW t, Sound(t), NEW r, NEW c \in Container, NEW s, NEW v, NEW w,
           Changed(t, r, c, s, v, w), Fits(t, c, s, v, w)
    PROVE  r \in Trees
<1>1. /\ t.list \in [Container -> Seq(Item)] /\ t.weight \in [Container -> Nat]
      /\ \A d \in Container : t.weight[d] \in Nat
  BY TreeParts DEF Sound
<1>2. [t.list EXCEPT ![c] = s] \in [Container -> Seq(Item)]
  BY <1>1 DEF Fits
<1>3. ASSUME NEW d \in Chain(t.up, c) PROVE t.weight[d] + w \in Nat
  <2>1. t.weight[c] + w \in Nat /\ w \in Int
    <3>1. s \in Seq(Item) /\ w \in Int /\ Total(Load(t, s)) = t.weight[c] + w
      BY DEF Fits
    <3>2. Total(Load(t, s)) \in Nat
      BY <1>1, <3>1, LoadType
    <3>3. QED BY <3>1, <3>2
  <2>2. t.weight[c] <= t.weight[d]
    BY HeavierAbove
  <2>3. d \in Container
    BY ChainContainers
  <2>4. QED BY <1>1, <2>1, <2>2, <2>3
<1>4. [d \in Container |-> IF d \in Chain(t.up, c) THEN t.weight[d] + w ELSE t.weight[d]]
          \in [Container -> Nat]
  BY <1>1, <1>3
<1>5. QED BY <1>2, <1>4 DEF Changed, Fits, Trees

LEMMA ChangedHung ==
    ASSUME NEW t, Sound(t), NEW r, NEW c \in Container, NEW s, NEW v, NEW w,
           Changed(t, r, c, s, v, w), Fits(t, c, s, v, w)
    PROVE  Hung(r)
<1>1. /\ r.up = v /\ r.list[c] = s
      /\ \A d \in Container : d # c => r.list[d] = t.list[d]
  BY ChangedParts DEF Sound
<1>2. ASSUME NEW b \in Bag, NEW d \in Container
      PROVE  IF v[b] = d THEN Once(r.list[d], b) ELSE At(r.list[d], b) = {}
  <2>1. CASE d = c
    BY <1>1, <2>1 DEF Fits
  <2>2. CASE d # c
    <3>1. v[b] = d <=> t.up[b] = d
      BY <2>2 DEF Fits
    <3>2. r.list[d] = t.list[d]
      BY <1>1, <2>2
    <3>3. QED BY <3>1, <3>2 DEF Sound, Hung
  <2>3. QED BY <2>1, <2>2
<1>3. QED BY <1>1, <1>2 DEF Hung

\* A container around c weighs more by what c gained, and no other does.
LEMMA ChangedAround ==
    ASSUME NEW t, Sound(t), NEW r \in Trees, NEW c \in Container, NEW s, NEW v, NEW w \in Int,
           Changed(t, r, c, s, v, w), NEW d \in Container, d # c
    PROVE  r.weight[d] = Total(Load(r, r.list[d]))
<1>1. PICK q : q = t.list[d]
  OBVIOUS
<1>2. q \in Seq(Item) /\ r.list[d] = q
  BY <1>1, TreeParts, ChangedParts DEF Sound
<1>3. t.weight \in [Container -> Nat] /\ r.weight \in [Container -> Nat]
  BY TreeParts DEF Sound
<1>4. \A e \in Container :
          r.weight[e] = IF e \in Chain(t.up, c) THEN t.weight[e] + w ELSE t.weight[e]
  BY ChangedParts DEF Sound
<1>5. PICK f : f = Load(t, q)
  OBVIOUS
<1>6. PICK g : g = Load(r, q)
  OBVIOUS
<1>7. f \in [DOMAIN q -> Nat] /\ g \in [DOMAIN q -> Nat] /\ IsFiniteSet(DOMAIN q)
  BY <1>2, <1>3, <1>5, <1>6, LoadType, ListType
<1>8. \A j \in DOMAIN q : f[j] = Weight(t, q[j]) /\ g[j] = Weight(r, q[j])
  BY <1>2, <1>3, <1>5, <1>6, LoadType
<1>9. ASSUME NEW j \in DOMAIN q, q[j] \notin Bag \/ q[j] \notin Chain(t.up, c) PROVE g[j] = f[j]
  <2>1. CASE q[j] \notin Bag
    BY <1>8, <2>1 DEF Weight, IsStack
  <2>2. CASE q[j] \in Bag
    <3>1. r.weight[q[j]] = t.weight[q[j]]
      BY <1>4, <1>9, <2>2, Kinds
    <3>2. QED BY <1>8, <3>1 DEF Weight
  <2>3. QED BY <2>1, <2>2
<1>10. t.weight[d] = Total(f)
  BY <1>1, <1>5 DEF Sound, Weighed
<1>11. CASE d \notin Chain(t.up, c)
  <2>1. ASSUME NEW j \in DOMAIN q PROVE g[j] = f[j]
    <3>1. q[j] \in Bag => t.up[q[j]] = d
      BY <1>1, ParentOf
    <3>2. q[j] \in Bag => q[j] \notin Chain(t.up, c)
      BY <3>1, <1>11, ChainClosed DEF Closed
    <3>3. QED BY <3>2, <1>9
  <2>2. f = g
    BY <1>7, <2>1
  <2>3. QED BY <1>2, <1>4, <1>6, <1>10, <1>11, <2>2
<1>12. CASE d \in Chain(t.up, c)
  <2>1. PICK e \in Chain(t.up, c) : t.up[e] = d
    BY <1>12, ChainBelow
  <2>2. e \in Container /\ e \in Bag
    BY <2>1, ChainContainers, InParent
  <2>3. PICK i \in DOMAIN q : q[i] = e /\ \A j \in DOMAIN q : q[j] = e => j = i
    BY <1>1, <2>1, <2>2, InParent
  <2>4. ASSUME NEW j \in DOMAIN q, j # i PROVE g[j] = f[j]
    <3>1. q[j] \in Bag => t.up[q[j]] = d /\ q[j] # e
      BY <1>1, <2>3, <2>4, ParentOf
    <3>2. q[j] \in Bag /\ q[j] \in Chain(t.up, c) => q[j] = e
      BY <2>1, <3>1, ChainPath DEF Sound
    <3>3. QED BY <3>1, <3>2, <1>9
  <2>5. g[i] = f[i] + w
    <3>1. f[i] = 1 + t.weight[e] /\ g[i] = 1 + r.weight[e]
      BY <1>8, <2>2, <2>3, Kinds DEF Weight
    <3>2. r.weight[e] = t.weight[e] + w
      BY <1>4, <2>1, <2>2
    <3>3. t.weight[e] \in Nat
      BY <1>3, <2>2
    <3>4. QED BY <3>1, <3>2, <3>3
  <2>6. Total(g) = Total(f) + g[i] - f[i]
    <3>1. Differs(DOMAIN q, f, g, i)
      BY <1>7, <2>4 DEF Differs
    <3>2. QED BY <3>1, TotalChange
  <2>7. Total(f) \in Nat /\ f[i] \in Nat
    BY <1>7, TotalFinite
  <2>8. Total(g) = Total(f) + w
    BY <2>5, <2>6, <2>7
  <2>9. QED BY <1>2, <1>4, <1>6, <1>10, <1>12, <2>8
<1>13. QED BY <1>11, <1>12

LEMMA ChangedSound ==
    ASSUME NEW t, Sound(t), NEW r, NEW c \in Container, NEW s, NEW v, NEW w,
           Changed(t, r, c, s, v, w), Fits(t, c, s, v, w)
    PROVE  Sound(r)
<1>1. r \in Trees /\ Hung(r)
  BY ChangedTypes, ChangedHung
<1>2. r.up = v /\ r.list[c] = s /\ r.weight[c] = t.weight[c] + w
  BY ChangedParts, ChainSelf DEF Sound
<1>3. \A e \in Container : e \notin Chain(t.up, c) => r.weight[e] = t.weight[e]
  BY ChangedParts DEF Sound
<1>4. Load(r, s) = Load(t, s)
  <2>1. ASSUME NEW j \in DOMAIN s PROVE Weight(r, s[j]) = Weight(t, s[j])
    <3>1. CASE s[j] \in Bag
      <4>1. j \in At(s, s[j])
        BY DEF At
      <4>2. s[j] \notin Chain(t.up, c) /\ s[j] \in Container
        BY <3>1, <4>1, Kinds DEF Fits
      <4>3. QED BY <1>3, <4>2 DEF Weight
    <3>2. CASE s[j] \notin Bag
      BY <3>2 DEF Weight, IsStack
    <3>3. QED BY <3>1, <3>2
  <2>2. QED BY <2>1 DEF Load
<1>5. ASSUME NEW d \in Container PROVE r.weight[d] = Total(Load(r, r.list[d]))
  <2>1. CASE d = c
    BY <1>2, <1>4, <2>1 DEF Fits
  <2>2. CASE d # c
    BY <1>1, <2>2, ChangedAround DEF Fits
  <2>3. QED BY <2>1, <2>2
<1>6. QED BY <1>1, <1>2, <1>5 DEF Sound, Weighed, Fits

-----------------------------------------------------------------------------
(***************************************************************************)
(* Changes of a list, and what becomes of the weight and the units in it.  *)
(***************************************************************************)
InFront(s, z, x) ==
    /\ z \in Seq(Item) /\ Len(z) = Len(s) + 1 /\ z[1] = x
    /\ \A j \in 1 .. Len(s) : z[j + 1] = s[j]

Without(s, z, i) ==
    /\ z \in Seq(Item) /\ Len(z) = Len(s) - 1
    /\ \A j \in 1 .. Len(s) - 1 : z[j] = IF j < i THEN s[j] ELSE s[j + 1]

Replaced(s, z, i, y) ==
    /\ z \in Seq(Item) /\ Len(z) = Len(s) /\ z[i] = y
    /\ \A j \in 1 .. Len(s) : j # i => z[j] = s[j]

LEMMA PutInFront ==
    ASSUME NEW s \in Seq(Item), NEW x \in Item
    PROVE  InFront(s, <<x>> \o s, x)
<1>1. <<x>> \in Seq(Item) /\ Len(<<x>>) = 1 /\ <<x>>[1] = x
  OBVIOUS
<1>2. QED BY <1>1, ConcatProperties, LenProperties DEF InFront

LEMMA TakeOut ==
    ASSUME NEW s \in Seq(Item), NEW i \in DOMAIN s
    PROVE  Without(s, RemoveAt(s, i), i)
<1>1. Len(s) \in Nat /\ i \in 1 .. Len(s)
  BY LenProperties
<1>2. PICK a : a = SubSeq(s, 1, i - 1)
  OBVIOUS
<1>3. PICK b : b = SubSeq(s, i + 1, Len(s))
  OBVIOUS
<1>4. a \in Seq(Item) /\ Len(a) = i - 1 /\ \A j \in 1 .. i - 1 : a[j] = s[j]
  BY <1>1, <1>2
<1>5. b \in Seq(Item) /\ Len(b) = Len(s) - i /\ \A j \in 1 .. Len(s) - i : b[j] = s[i + j]
  BY <1>1, <1>3
<1>6. RemoveAt(s, i) = a \o b
  BY <1>2, <1>3 DEF RemoveAt
<1>10. PICK q : q = a \o b
  OBVIOUS
<1>7. q \in Seq(Item) /\ Len(q) = Len(s) - 1
  BY <1>1, <1>4, <1>5, <1>10
<1>8. ASSUME NEW j \in 1 .. Len(s) - 1 PROVE q[j] = IF j < i THEN s[j] ELSE s[j + 1]
  <2>1. CASE j < i
    BY <1>1, <1>4, <1>5, <1>10, <2>1
  <2>2. CASE j >= i
    <3>1. PICK m \in Nat : m = j - (i - 1)
      BY <1>1, <2>2
    <3>2. q[j] = b[m]
      <4>1. q[j] = IF j <= Len(a) THEN a[j] ELSE b[j - Len(a)]
        BY <1>1, <1>4, <1>5, <1>10, ConcatProperties
      <4>2. ~(j <= Len(a)) /\ j - Len(a) = m
        BY <1>1, <1>4, <2>2, <3>1
      <4>3. QED BY <4>1, <4>2
    <3>3. m \in 1 .. Len(s) - i /\ i + m = j + 1
      BY <1>1, <2>2, <3>1
    <3>4. b[m] = s[j + 1]
      BY <1>5, <3>3
    <3>5. ~(j < i)
      BY <1>1, <2>2
    <3>6. QED BY <3>2, <3>4, <3>5
  <2>3. QED BY <1>1, <2>1, <2>2
<1>9. QED BY <1>6, <1>7, <1>8, <1>10 DEF Without

LEMMA PutInPlace ==
    ASSUME NEW s \in Seq(Item), NEW i \in DOMAIN s, NEW y \in Item
    PROVE  Replaced(s, [s EXCEPT ![i] = y], i, y)
BY DEF Replaced

\* The sum of a measure of the items in a list.
Sum(s, m) == Total([j \in DOMAIN s |-> m[s[j]]])

LEMMA SumType ==
    ASSUME NEW s \in Seq(Item), NEW m \in [Item -> Nat]
    PROVE  /\ [j \in DOMAIN s |-> m[s[j]]] \in [1 .. Len(s) -> Nat]
           /\ Len(s) \in Nat /\ IsFiniteSet(1 .. Len(s)) /\ Sum(s, m) \in Nat
<1>1. [j \in DOMAIN s |-> m[s[j]]] \in [DOMAIN s -> Nat]
  BY ListType
<1>2. QED BY <1>1, ListType, TotalFinite DEF Sum

LEMMA SumInFront ==
    ASSUME NEW s \in Seq(Item), NEW z, NEW x, InFront(s, z, x), NEW m \in [Item -> Nat]
    PROVE  Sum(z, m) = Sum(s, m) + m[x]
<1>1. PICK f : f = [j \in DOMAIN s |-> m[s[j]]]
  OBVIOUS
<1>2. PICK g : g = [j \in DOMAIN z |-> m[z[j]]]
  OBVIOUS
<1>3. z \in Seq(Item) /\ Len(z) = Len(s) + 1 /\ z[1] = x /\ \A j \in 1 .. Len(s) : z[j + 1] = s[j]
  BY DEF InFront
<1>4. PICK n \in Nat : n = Len(s)
  BY ListType
<1>5. DOMAIN s = 1 .. n /\ DOMAIN z = 1 .. n + 1
  BY <1>3, <1>4, ListType
<1>6. f \in [1 .. n -> Nat] /\ g \in [1 .. n + 1 -> Nat]
  BY <1>1, <1>2, <1>3, <1>4, SumType
<1>7. \A j \in 1 .. n : g[j + 1] = f[j]
  BY <1>1, <1>2, <1>3, <1>4, <1>5
<1>8. g[1] = m[x]
  BY <1>2, <1>3, <1>5
<1>9. Total(g) = Total(f) + g[1]
  BY <1>6, <1>7, TotalInFront
<1>10. QED BY <1>1, <1>2, <1>8, <1>9 DEF Sum

LEMMA SumWithout ==
    ASSUME NEW s \in Seq(Item), NEW z, NEW i \in DOMAIN s, Without(s, z, i), NEW m \in [Item -> Nat]
    PROVE  Sum(z, m) = Sum(s, m) - m[s[i]]
<1>1. PICK f : f = [j \in DOMAIN s |-> m[s[j]]]
  OBVIOUS
<1>2. PICK g : g = [j \in DOMAIN z |-> m[z[j]]]
  OBVIOUS
<1>3. PICK n \in Nat : n = Len(s)
  BY ListType
<1>4. /\ z \in Seq(Item) /\ Len(z) = n - 1
      /\ \A j \in 1 .. n - 1 : z[j] = IF j < i THEN s[j] ELSE s[j + 1]
  BY <1>3 DEF Without
<1>5. DOMAIN s = 1 .. n /\ DOMAIN z = 1 .. n - 1 /\ i \in 1 .. n
  BY <1>3, <1>4, ListType
<1>6. f \in [1 .. n -> Nat] /\ g \in [1 .. n - 1 -> Nat]
  BY <1>1, <1>2, <1>3, <1>4, SumType
<1>7. \A j \in 1 .. n - 1 : g[j] = IF j < i THEN f[j] ELSE f[j + 1]
  BY <1>1, <1>2, <1>4, <1>5
<1>8. f[i] = m[s[i]]
  BY <1>1
<1>9. Total(g) = Total(f) - f[i]
  BY <1>5, <1>6, <1>7, TotalWithout
<1>10. QED BY <1>1, <1>2, <1>8, <1>9 DEF Sum

LEMMA SumReplaced ==
    ASSUME NEW s \in Seq(Item), NEW z, NEW i \in DOMAIN s, NEW y, Replaced(s, z, i, y),
           NEW m \in [Item -> Nat]
    PROVE  Sum(z, m) = Sum(s, m) + m[y] - m[s[i]]
<1>1. PICK f : f = [j \in DOMAIN s |-> m[s[j]]]
  OBVIOUS
<1>2. PICK g : g = [j \in DOMAIN z |-> m[z[j]]]
  OBVIOUS
<1>3. PICK D : D = DOMAIN s
  OBVIOUS
<1>4. z \in Seq(Item) /\ DOMAIN z = D /\ z[i] = y /\ i \in D /\ \A j \in D : j # i => z[j] = s[j]
  BY <1>3, ListType DEF Replaced
<1>5. f \in [D -> Nat] /\ g \in [D -> Nat] /\ IsFiniteSet(D)
  BY <1>1, <1>2, <1>3, <1>4, ListType
<1>6. \A j \in D : j # i => g[j] = f[j]
  BY <1>1, <1>2, <1>3, <1>4
<1>7. f[i] = m[s[i]] /\ g[i] = m[y]
  BY <1>1, <1>2, <1>3, <1>4
<1>8. Total(g) = Total(f) + g[i] - f[i]
  <2>1. Differs(D, f, g, i)
    BY <1>4, <1>5, <1>6 DEF Differs
  <2>2. QED BY <2>1, TotalChange
<1>9. QED BY <1>1, <1>2, <1>7, <1>8 DEF Sum

\* Weights and units are such measures.
LEMMA LoadIsSum ==
    ASSUME NEW t, t.weight \in [Container -> Nat]
    PROVE  \E m \in [Item -> Nat] :
              /\ \A x \in Item : m[x] = Weight(t, x)
              /\ \A s \in Seq(Item) : Total(Load(t, s)) = Sum(s, m)
<1>1. PICK m : m = [x \in Item |-> Weight(t, x)]
  OBVIOUS
<1>2. ASSUME NEW x \in Item PROVE Weight(t, x) \in Nat
  BY Kinds DEF Weight
<1>3. m \in [Item -> Nat] /\ \A x \in Item : m[x] = Weight(t, x)
  BY <1>1, <1>2
<1>4. ASSUME NEW s \in Seq(Item) PROVE Load(t, s) = [j \in DOMAIN s |-> m[s[j]]]
  BY <1>3, ListType DEF Load
<1>5. QED BY <1>3, <1>4 DEF Sum

LEMMA UnitsIsSum ==
    ASSUME NEW k
    PROVE  \E m \in [Item -> Nat] :
              /\ \A x \in Item : m[x] = Count(x, k)
              /\ \A s \in Seq(Item) : Units(s, k) = Sum(s, m)
<1>1. PICK m : m = [x \in Item |-> Count(x, k)]
  OBVIOUS
<1>2. ASSUME NEW x \in Item PROVE Count(x, k) \in Nat
  BY Kinds DEF Count
<1>3. m \in [Item -> Nat] /\ \A x \in Item : m[x] = Count(x, k)
  BY <1>1, <1>2
<1>4. ASSUME NEW s \in Seq(Item)
      PROVE  [j \in DOMAIN s |-> Count(s[j], k)] = [j \in DOMAIN s |-> m[s[j]]]
  BY <1>3, ListType
<1>5. QED BY <1>3, <1>4 DEF Sum, Units

LEMMA UnitsType ==
    ASSUME NEW s \in Seq(Item), NEW k
    PROVE  Units(s, k) \in Nat
<1>1. PICK m \in [Item -> Nat] : Units(s, k) = Sum(s, m)
  BY UnitsIsSum
<1>2. QED BY <1>1, SumType


-----------------------------------------------------------------------------
(***************************************************************************)
(* The primitives change one list, and what they make of it fits.          *)
(***************************************************************************)

\* The units of a kind in all containers of a tree.
Held(t, k) == Total([d \in Container |-> Units(t.list[d], k)])

LEMMA HeldType ==
    ASSUME NEW t \in Trees, NEW k
    PROVE  /\ Held(t, k) \in Nat
           /\ [d \in Container |-> Units(t.list[d], k)] \in [Container -> Nat]
<1>1. [d \in Container |-> Units(t.list[d], k)] \in [Container -> Nat]
  BY TreeParts, UnitsType
<1>2. IsFiniteSet(Container)
  BY SizeAssumption
<1>3. QED BY <1>1, <1>2, TotalFinite DEF Held

LEMMA TreeIs ==
    ASSUME NEW t \in Trees
    PROVE  t = [list |-> t.list, up |-> t.up, weight |-> t.weight]
BY DEF Trees

LEMMA UpdatedIs ==
    ASSUME NEW l, NEW v, NEW m, NEW c, NEW w
    PROVE  UpdateItemWeight([list |-> l, up |-> v, weight |-> m], c, w)
             = [list |-> l, up |-> v,
                weight |-> [d \in Container |-> IF d \in Chain(v, c) THEN m[d] + w ELSE m[d]]]
BY DEF UpdateItemWeight

\* updateItemWeight completes a change of the list and the parents.
LEMMA UpdateChanges ==
    ASSUME NEW t, NEW c, NEW s, NEW v, NEW w, Chain(v, c) = Chain(t.up, c)
    PROVE  Changed(t, UpdateItemWeight([list |-> [t.list EXCEPT ![c] = s], up |-> v,
                                        weight |-> t.weight], c, w), c, s, v, w)
<1>1. PICK l : l = [t.list EXCEPT ![c] = s]
  OBVIOUS
<1>2. PICK m : m = t.weight
  OBVIOUS
<1>3. UpdateItemWeight([list |-> l, up |-> v, weight |-> m], c, w)
        = [list |-> l, up |-> v,
           weight |-> [d \in Container |-> IF d \in Chain(v, c) THEN m[d] + w ELSE m[d]]]
  BY UpdatedIs
<1>4. [d \in Container |-> IF d \in Chain(v, c) THEN m[d] + w ELSE m[d]]
        = [d \in Container |-> IF d \in Chain(t.up, c) THEN t.weight[d] + w ELSE t.weight[d]]
  BY <1>2
<1>5. QED BY <1>1, <1>2, <1>3, <1>4 DEF Changed

\* A stack has no parent of its own, a container gets one.
UpWith(t, x, p) == IF IsStack(x) THEN t.up ELSE [t.up EXCEPT ![x] = p]

LEMMA UpWithType ==
    ASSUME NEW t \in Trees, NEW x \in Item, NEW p \in Container \cup Elsewhere
    PROVE  /\ UpWith(t, x, p) \in [Container -> Container \cup Elsewhere]
           /\ ~IsStack(x) => UpWith(t, x, p)[x] = p
           /\ \A d \in Container : d # x \/ IsStack(x) => UpWith(t, x, p)[d] = t.up[d]
BY TreeParts, Kinds DEF UpWith

LEMMA AddThingChanges ==
    ASSUME NEW t, Sound(t), NEW c \in Container, NEW x \in Item, NEW index \in Int, index < capacity[c],
           ~IsStack(x) => x \notin Chain(t.up, c)
    PROVE  Changed(t, AddThing(t, c, index, x), c, <<x>> \o t.list[c], UpWith(t, x, c), Weight(t, x))
<1>1. ~(index >= capacity[c])
  BY SizeAssumption
<1>2. AddThing(t, c, index, x)
        = UpdateItemWeight([list |-> [t.list EXCEPT ![c] = <<x>> \o t.list[c]],
                            up |-> UpWith(t, x, c), weight |-> t.weight], c, Weight(t, x))
  BY <1>1 DEF AddThing, Relist, UpWith
<1>3. Chain(UpWith(t, x, c), c) = Chain(t.up, c)
  <2>1. \A d \in Chain(t.up, c) : UpWith(t, x, c)[d] = t.up[d]
    BY UpWithType, ChainContainers DEF Sound
  <2>2. QED BY <2>1, ChainSame
<1>4. QED BY <1>2, <1>3, UpdateChanges

LEMMA AddThingFits ==
    ASSUME NEW t, Sound(t), NEW c \in Container, NEW x \in Item,
           ~IsStack(x) => x \notin Chain(t.up, c) /\ t.up[x] \notin Container
    PROVE  Fits(t, c, <<x>> \o t.list[c], UpWith(t, x, c), Weight(t, x))
<1>1. PICK s : s = t.list[c]
  OBVIOUS
<1>2. PICK z : z = <<x>> \o s
  OBVIOUS
<1>3. s \in Seq(Item) /\ InFront(s, z, x)
  BY <1>1, <1>2, TreeParts, PutInFront DEF Sound
<1>4. PICK v : v = UpWith(t, x, c)
  OBVIOUS
<1>5. /\ v \in [Container -> Container \cup Elsewhere]
      /\ ~IsStack(x) => v[x] = c
      /\ \A d \in Container : d # x \/ IsStack(x) => v[d] = t.up[d]
  BY <1>4, UpWithType DEF Sound
<1>6. Acyclic(v)
  <2>1. CASE IsStack(x)
    BY <1>4, <2>1 DEF UpWith, Sound
  <2>2. CASE ~IsStack(x)
    BY <1>5, <2>2, Kinds, Attached DEF Sound
  <2>3. QED BY <2>1, <2>2
<1>7. Rooted(v)
  BY <1>5, Kinds, SizeAssumption DEF Sound, Rooted, Container
<1>8. \A b \in Bag : v[b] # t.up[b] => {v[b], t.up[b]} \cap Container \subseteq {c}
  BY <1>5, Kinds
<1>9. DOMAIN s = 1 .. Len(s) /\ DOMAIN z = 1 .. Len(s) + 1 /\ Len(s) \in Nat
  BY <1>3, ListType DEF InFront
<1>10. ASSUME NEW b \in Bag PROVE IF v[b] = c THEN Once(z, b) ELSE At(z, b) = {}
  <2>1. CASE b = x
    <3>1. v[b] = c /\ At(s, b) = {}
      BY <1>1, <1>5, <2>1, Kinds DEF Sound, Hung
    <3>2. z[1] = b /\ \A j \in 1 .. Len(s) : z[j + 1] # b
      BY <1>3, <1>9, <2>1, <3>1 DEF InFront, At
    <3>3. ASSUME NEW j \in DOMAIN z, z[j] = b PROVE j = 1
      <4>1. j # 1 => j - 1 \in 1 .. Len(s) /\ z[(j - 1) + 1] # b /\ (j - 1) + 1 = j
        BY <1>9, <3>2
      <4>2. QED BY <3>3, <4>1
    <3>4. At(z, b) = {1} /\ 1 \in DOMAIN z
      BY <1>9, <3>2, <3>3 DEF At
    <3>5. QED BY <3>1, <3>4 DEF Once
  <2>2. CASE b # x
    <3>1. v[b] = t.up[b]
      BY <1>5, <2>2, Kinds
    <3>2. ASSUME NEW j \in DOMAIN z PROVE z[j] = b <=> j - 1 \in At(s, b)
      <4>1. j = 1 => z[j] # b
        BY <1>3, <2>2 DEF InFront
      <4>2. j # 1 => j - 1 \in 1 .. Len(s) /\ z[(j - 1) + 1] = s[j - 1] /\ (j - 1) + 1 = j
        BY <1>3, <1>9 DEF InFront
      <4>3. j = 1 => j - 1 \notin DOMAIN s
        BY <1>9
      <4>4. QED BY <1>9, <4>1, <4>2, <4>3 DEF At
    <3>3. IF v[b] = c THEN Once(s, b) ELSE At(s, b) = {}
      BY <1>1, <3>1 DEF Sound, Hung
    <3>4. CASE v[b] = c
      <4>1. PICK i \in DOMAIN s : At(s, b) = {i}
        BY <3>3, <3>4 DEF Once
      <4>2. i + 1 \in DOMAIN z /\ (i + 1) - 1 = i
        BY <1>9
      <4>3. \A j \in DOMAIN z : j - 1 = i => j = i + 1
        BY <1>9
      <4>4. At(z, b) = {i + 1}
        BY <3>2, <4>1, <4>2, <4>3 DEF At
      <4>5. QED BY <3>4, <4>2, <4>4 DEF Once
    <3>5. CASE v[b] # c
      BY <3>2, <3>3, <3>5 DEF At
    <3>6. QED BY <3>4, <3>5
  <2>3. QED BY <2>1, <2>2
<1>11. ASSUME NEW b \in Bag, b \in Chain(t.up, c) PROVE At(z, b) = {}
  <2>1. b # x /\ t.up[b] # c
    BY <1>11, Kinds, ChainInnermost DEF Sound
  <2>2. v[b] # c
    BY <1>5, <2>1, Kinds
  <2>3. QED BY <1>10, <2>2
<1>12. Weight(t, x) \in Int /\ Total(Load(t, z)) = t.weight[c] + Weight(t, x)
  <2>1. t.weight \in [Container -> Nat] /\ t.weight[c] = Total(Load(t, s))
    BY <1>1, TreeParts DEF Sound, Weighed
  <2>2. PICK m \in [Item -> Nat] : /\ \A y \in Item : m[y] = Weight(t, y)
                                   /\ \A q \in Seq(Item) : Total(Load(t, q)) = Sum(q, m)
    BY <2>1, LoadIsSum
  <2>3. z \in Seq(Item)
    BY <1>3 DEF InFront
  <2>4. Sum(z, m) = Sum(s, m) + m[x]
    BY <1>3, SumInFront
  <2>5. QED BY <1>3, <2>1, <2>2, <2>3, <2>4
<1>13. z \in Seq(Item)
  BY <1>3 DEF InFront
<1>14. Fits(t, c, z, v, Weight(t, x))
  BY <1>5, <1>6, <1>7, <1>8, <1>10, <1>11, <1>12, <1>13 DEF Fits
<1>15. QED BY <1>1, <1>2, <1>4, <1>14

\* A list in which only stacks changed.
SameBags(s, z) ==
    /\ DOMAIN z = DOMAIN s
    /\ \A j \in DOMAIN s : s[j] \in Bag \/ z[j] \in Bag => z[j] = s[j]

LEMMA SameBagsFits ==
    ASSUME NEW t, Sound(t), NEW c \in Container, NEW z \in Seq(Item), SameBags(t.list[c], z),
           NEW w \in Int, Total(Load(t, z)) = t.weight[c] + w
    PROVE  Fits(t, c, z, t.up, w)
<1>1. ASSUME NEW b \in Bag PROVE At(z, b) = At(t.list[c], b)
  BY DEF At, SameBags
<1>2. t.up \in [Container -> Container \cup Elsewhere]
  BY TreeParts DEF Sound
<1>3. ASSUME NEW b \in Bag
      PROVE  /\ IF t.up[b] = c THEN Once(z, b) ELSE At(z, b) = {}
             /\ b \in Chain(t.up, c) => At(z, b) = {}
  <2>1. IF t.up[b] = c THEN Once(t.list[c], b) ELSE At(t.list[c], b) = {}
    BY DEF Sound, Hung
  <2>2. DOMAIN z = DOMAIN t.list[c]
    BY DEF SameBags
  <2>3. IF t.up[b] = c THEN Once(z, b) ELSE At(z, b) = {}
    BY <1>1, <2>1, <2>2 DEF Once
  <2>4. b \in Chain(t.up, c) => t.up[b] # c
    BY ChainInnermost DEF Sound
  <2>5. QED BY <2>3, <2>4
<1>4. QED BY <1>2, <1>3 DEF Fits, Sound

\* Container::updateThing with a stack
LEMMA UpdateThingChanges ==
    ASSUME NEW t, Sound(t), NEW c \in Container, NEW j \in DOMAIN t.list[c], NEW n
    PROVE  Changed(t, UpdateThing(t, c, j, n), c,
                   [t.list[c] EXCEPT ![j] = [t.list[c][j] EXCEPT !.count = n]],
                   t.up, n - t.list[c][j].count)
<1>1. t = [list |-> t.list, up |-> t.up, weight |-> t.weight]
  BY TreeIs DEF Sound
<1>2. [t EXCEPT !.list[c][j].count = n]
        = [list |-> [t.list EXCEPT ![c] = [t.list[c] EXCEPT ![j] = [t.list[c][j] EXCEPT !.count = n]]],
           up |-> t.up, weight |-> t.weight]
  BY <1>1
<1>3. UpdateThing(t, c, j, n)
        = UpdateItemWeight([list |-> [t.list EXCEPT ![c] =
                                          [t.list[c] EXCEPT ![j] = [t.list[c][j] EXCEPT !.count = n]]],
                            up |-> t.up, weight |-> t.weight], c, n - t.list[c][j].count)
  BY <1>2 DEF UpdateThing
<1>4. QED BY <1>3, UpdateChanges

LEMMA StackWith ==
    ASSUME NEW x \in Stack, NEW n \in 1 .. StackSize
    PROVE  /\ [x EXCEPT !.count = n] \in Stack
           /\ [x EXCEPT !.count = n].count = n /\ [x EXCEPT !.count = n].kind = x.kind
BY DEF Stack

LEMMA UpdateThingFits ==
    ASSUME NEW t, Sound(t), NEW c \in Container, NEW j \in DOMAIN t.list[c], t.list[c][j] \in Stack,
           NEW n \in 1 .. StackSize
    PROVE  Fits(t, c, [t.list[c] EXCEPT ![j] = [t.list[c][j] EXCEPT !.count = n]],
                t.up, n - t.list[c][j].count)
<1>1. PICK s : s = t.list[c]
  OBVIOUS
<1>2. PICK x \in Stack : x = s[j]
  BY <1>1
<1>3. PICK y : y = [x EXCEPT !.count = n]
  OBVIOUS
<1>4. y \in Stack /\ y.count = n
  BY <1>3, StackWith
<1>5. PICK z : z = [s EXCEPT ![j] = y]
  OBVIOUS
<1>6. s \in Seq(Item) /\ Replaced(s, z, j, y)
  BY <1>1, <1>4, <1>5, Kinds, TreeParts, PutInPlace DEF Sound
<1>7. z \in Seq(Item) /\ SameBags(s, z)
  BY <1>1, <1>2, <1>4, <1>6, ListType, Kinds DEF Replaced, SameBags
<1>8. Total(Load(t, z)) = t.weight[c] + (n - x.count)
  <2>1. t.weight \in [Container -> Nat] /\ t.weight[c] = Total(Load(t, s)) /\ t.weight[c] \in Nat
    BY <1>1, TreeParts DEF Sound, Weighed
  <2>2. PICK m \in [Item -> Nat] : /\ \A q \in Item : m[q] = Weight(t, q)
                                   /\ \A q \in Seq(Item) : Total(Load(t, q)) = Sum(q, m)
    BY <2>1, LoadIsSum
  <2>3. Sum(z, m) = Sum(s, m) + m[y] - m[x]
    BY <1>1, <1>2, <1>6, SumReplaced
  <2>4. m[y] = n /\ m[x] = x.count
    BY <1>2, <1>4, <2>2, Kinds DEF Weight
  <2>5. n \in Int /\ x.count \in Int
    BY Kinds
  <2>6. QED BY <1>6, <1>7, <2>1, <2>2, <2>3, <2>4, <2>5
<1>9. n - x.count \in Int
  BY Kinds
<1>10. Fits(t, c, z, t.up, n - x.count)
  BY <1>1, <1>7, <1>8, <1>9, SameBagsFits
<1>11. QED BY <1>1, <1>2, <1>3, <1>5, <1>10

\* Container::removeThing of a whole item
Taken(t, c, j) ==
    Relist(UpdateItemWeight(t, c, 0 - Weight(t, t.list[c][j])), c,
           RemoveAt(t.list[c], j), t.list[c][j], Gone)

LEMMA TakenChanges ==
    ASSUME NEW t, Sound(t), NEW c \in Container, NEW j \in DOMAIN t.list[c]
    PROVE  Changed(t, Taken(t, c, j), c, RemoveAt(t.list[c], j),
                   UpWith(t, t.list[c][j], Gone), 0 - Weight(t, t.list[c][j]))
<1>1. PICK w : w = 0 - Weight(t, t.list[c][j])
  OBVIOUS
<1>2. PICK z : z = RemoveAt(t.list[c], j)
  OBVIOUS
<1>3. PICK x : x = t.list[c][j]
  OBVIOUS
<1>4. PICK l : l = t.list
  OBVIOUS
<1>5. PICK m : m = t.weight
  OBVIOUS
<1>6. PICK u : u = t.up
  OBVIOUS
<1>7. t = [list |-> l, up |-> u, weight |-> m]
  BY <1>4, <1>5, <1>6, TreeIs DEF Sound
<1>8. UpdateItemWeight(t, c, w)
        = [list |-> l, up |-> u,
           weight |-> [d \in Container |-> IF d \in Chain(u, c) THEN m[d] + w ELSE m[d]]]
  BY <1>7, UpdatedIs
<1>9. Taken(t, c, j) = Relist(UpdateItemWeight(t, c, w), c, z, x, Gone)
  BY <1>1, <1>2, <1>3 DEF Taken
<1>10. Relist(UpdateItemWeight(t, c, w), c, z, x, Gone)
         = [list |-> [l EXCEPT ![c] = z],
            up |-> IF IsStack(x) THEN u ELSE [u EXCEPT ![x] = Gone],
            weight |-> [d \in Container |-> IF d \in Chain(u, c) THEN m[d] + w ELSE m[d]]]
  BY <1>8 DEF Relist
<1>11. QED BY <1>1, <1>2, <1>3, <1>4, <1>5, <1>6, <1>9, <1>10 DEF Changed, UpWith

LEMMA TakenFits ==
    ASSUME NEW t, Sound(t), NEW c \in Container, NEW j \in DOMAIN t.list[c]
    PROVE  Fits(t, c, RemoveAt(t.list[c], j), UpWith(t, t.list[c][j], Gone),
                0 - Weight(t, t.list[c][j]))
<1>1. PICK s : s = t.list[c]
  OBVIOUS
<1>2. PICK z : z = RemoveAt(s, j)
  OBVIOUS
<1>3. PICK x : x = s[j]
  OBVIOUS
<1>4. s \in Seq(Item) /\ Without(s, z, j) /\ x \in Item
  BY <1>1, <1>2, <1>3, TreeParts, TakeOut, ListType DEF Sound
<1>5. PICK v : v = UpWith(t, x, Gone)
  OBVIOUS
<1>6. Gone \in Elsewhere /\ Gone \notin Container
  BY SizeAssumption DEF Elsewhere
<1>7. /\ v \in [Container -> Container \cup Elsewhere]
      /\ ~IsStack(x) => v[x] = Gone
      /\ \A d \in Container : d # x \/ IsStack(x) => v[d] = t.up[d]
  BY <1>4, <1>5, <1>6, UpWithType DEF Sound
<1>8. Acyclic(v)
  <2>1. \A d \in Container : v[d] \in Container => v[d] = t.up[d]
    BY <1>6, <1>7
  <2>2. QED BY <2>1, Detached DEF Sound
<1>9. ~IsStack(x) => x \in Bag /\ x \in Container /\ t.up[x] = c
  BY <1>1, <1>3, <1>4, Kinds, ParentOf
<1>10. Rooted(v)
  BY <1>7, <1>9, SizeAssumption DEF Sound, Rooted, Container
<1>11. \A b \in Bag : v[b] # t.up[b] => {v[b], t.up[b]} \cap Container \subseteq {c}
  BY <1>6, <1>7, <1>9, Kinds
<1>12. DOMAIN s = 1 .. Len(s) /\ DOMAIN z = 1 .. Len(s) - 1 /\ Len(s) \in Nat /\ j \in 1 .. Len(s)
  BY <1>1, <1>4, ListType DEF Without
<1>13. ASSUME NEW b \in Bag PROVE IF v[b] = c THEN Once(z, b) ELSE At(z, b) = {}
  <2>1. IF t.up[b] = c THEN Once(s, b) ELSE At(s, b) = {}
    BY <1>1 DEF Sound, Hung
  <2>2. ASSUME NEW i \in DOMAIN z
        PROVE  z[i] = b <=> (i < j /\ i \in At(s, b)) \/ (i >= j /\ i + 1 \in At(s, b))
    <3>1. z[i] = IF i < j THEN s[i] ELSE s[i + 1]
      BY <1>4, <1>12 DEF Without
    <3>2. i \in DOMAIN s /\ i + 1 \in DOMAIN s /\ (i >= j <=> ~(i < j))
      BY <1>12
    <3>3. QED BY <3>1, <3>2 DEF At
  <2>3. CASE b = x
    <3>1. v[b] # c /\ t.up[b] = c
      BY <1>6, <1>7, <1>9, <2>3, Kinds
    <3>2. At(s, b) = {j}
      <4>1. j \in At(s, b)
        BY <1>1, <1>3, <2>3 DEF At
      <4>2. QED BY <2>1, <3>1, <4>1 DEF Once
    <3>3. \A i \in DOMAIN z : (i < j => i # j) /\ (i >= j => i + 1 # j)
      BY <1>12
    <3>4. QED BY <2>2, <3>1, <3>2, <3>3 DEF At
  <2>4. CASE b # x
    <3>1. v[b] = t.up[b]
      BY <1>7, <2>4, Kinds
    <3>2. CASE v[b] = c
      <4>1. PICK i \in DOMAIN s : At(s, b) = {i}
        BY <2>1, <3>1, <3>2 DEF Once
      <4>2. i # j
        BY <1>3, <2>4, <4>1 DEF At
      <4>3. PICK k : k = IF i < j THEN i ELSE i - 1
        OBVIOUS
      <4>4. k \in DOMAIN z /\ ((k < j /\ k = i) \/ (k >= j /\ k + 1 = i))
        BY <1>12, <4>2, <4>3
      <4>5. \A h \in DOMAIN z : (h < j /\ h = i) \/ (h >= j /\ h + 1 = i) => h = k
        BY <1>12, <4>2, <4>3
      <4>6. At(z, b) = {k}
        BY <2>2, <4>1, <4>4, <4>5 DEF At
      <4>7. QED BY <3>2, <4>4, <4>6 DEF Once
    <3>3. CASE v[b] # c
      BY <2>1, <2>2, <3>1, <3>3 DEF At
    <3>4. QED BY <3>2, <3>3
  <2>5. QED BY <2>3, <2>4
<1>14. ASSUME NEW b \in Bag, b \in Chain(t.up, c) PROVE At(z, b) = {}
  <2>1. t.up[b] # c
    BY <1>14, ChainInnermost DEF Sound
  <2>2. v[b] # c
    BY <1>6, <1>7, <2>1, Kinds
  <2>3. QED BY <1>13, <2>2
<1>15. z \in Seq(Item)
  BY <1>4 DEF Without
<1>16. 0 - Weight(t, x) \in Int /\ Total(Load(t, z)) = t.weight[c] + (0 - Weight(t, x))
  <2>1. t.weight \in [Container -> Nat] /\ t.weight[c] = Total(Load(t, s)) /\ t.weight[c] \in Nat
    BY <1>1, TreeParts DEF Sound, Weighed
  <2>2. PICK m \in [Item -> Nat] : /\ \A y \in Item : m[y] = Weight(t, y)
                                   /\ \A q \in Seq(Item) : Total(Load(t, q)) = Sum(q, m)
    BY <2>1, LoadIsSum
  <2>3. Sum(z, m) = Sum(s, m) - m[x]
    BY <1>1, <1>3, <1>4, SumWithout
  <2>4. m[x] = Weight(t, x) /\ m[x] \in Nat
    BY <1>4, <2>2
  <2>5. QED BY <1>4, <1>15, <2>1, <2>2, <2>3, <2>4
<1>17. Fits(t, c, z, v, 0 - Weight(t, x))
  BY <1>7, <1>8, <1>10, <1>11, <1>13, <1>14, <1>15, <1>16 DEF Fits
<1>18. QED BY <1>1, <1>2, <1>3, <1>5, <1>17

-----------------------------------------------------------------------------
(***************************************************************************)
(* What the primitives do: the tree stays sound, one list is another one,  *)
(* and the units held change by those that come or go.                     *)
(***************************************************************************)
Only(t, r, c) == \A d \in Container : d # c => r.list[d] = t.list[d]

LEMMA HeldByOne ==
    ASSUME NEW t \in Trees, NEW r \in Trees, NEW c \in Container, Only(t, r, c), NEW k
    PROVE  Held(r, k) = Held(t, k) + Units(r.list[c], k) - Units(t.list[c], k)
<1>1. PICK f : f = [d \in Container |-> Units(t.list[d], k)]
  OBVIOUS
<1>2. PICK g : g = [d \in Container |-> Units(r.list[d], k)]
  OBVIOUS
<1>3. f \in [Container -> Nat] /\ g \in [Container -> Nat]
  BY <1>1, <1>2, HeldType
<1>4. Differs(Container, f, g, c)
  BY <1>1, <1>2, <1>3, SizeAssumption DEF Differs, Only
<1>5. Total(g) = Total(f) + g[c] - f[c]
  BY <1>4, TotalChange
<1>6. QED BY <1>1, <1>2, <1>5 DEF Held

LEMMA AddThingStores ==
    ASSUME NEW t, Sound(t), NEW c \in Container, NEW x \in Item, NEW index \in Int, index < capacity[c],
           ~IsStack(x) => x \notin Chain(t.up, c) /\ t.up[x] \notin Container,
           NEW r, r = AddThing(t, c, index, x)
    PROVE  /\ Sound(r) /\ Only(t, r, c) /\ r.up = UpWith(t, x, c)
           /\ Len(r.list[c]) = Len(t.list[c]) + 1
           /\ \A k : Held(r, k) = Held(t, k) + Count(x, k)
<1>1. PICK s : s = t.list[c]
  OBVIOUS
<1>2. PICK z : z = <<x>> \o s
  OBVIOUS
<1>3. /\ Changed(t, r, c, z, UpWith(t, x, c), Weight(t, x))
      /\ Fits(t, c, z, UpWith(t, x, c), Weight(t, x))
  BY <1>1, <1>2, AddThingChanges, AddThingFits
<1>4. Sound(r)
  BY <1>3, ChangedSound
<1>5. r.list[c] = z /\ r.up = UpWith(t, x, c) /\ Only(t, r, c)
  BY <1>3, ChangedParts DEF Sound, Only
<1>6. s \in Seq(Item) /\ InFront(s, z, x)
  BY <1>1, <1>2, TreeParts, PutInFront DEF Sound
<1>7. Len(r.list[c]) = Len(t.list[c]) + 1
  BY <1>1, <1>5, <1>6 DEF InFront
<1>8. ASSUME NEW k PROVE Held(r, k) = Held(t, k) + Count(x, k)
  <2>1. PICK m \in [Item -> Nat] : /\ \A y \in Item : m[y] = Count(y, k)
                                   /\ \A q \in Seq(Item) : Units(q, k) = Sum(q, m)
    BY UnitsIsSum
  <2>2. Sum(z, m) = Sum(s, m) + m[x]
    BY <1>6, SumInFront
  <2>3. z \in Seq(Item)
    BY <1>6 DEF InFront
  <2>4. Units(z, k) = Units(s, k) + Count(x, k) /\ Units(s, k) \in Nat /\ Count(x, k) \in Nat
    BY <1>6, <2>1, <2>2, <2>3, SumType
  <2>5. Held(r, k) = Held(t, k) + Units(z, k) - Units(s, k)
    BY <1>1, <1>4, <1>5, HeldByOne DEF Sound
  <2>6. Held(t, k) \in Nat
    BY HeldType DEF Sound
  <2>7. QED BY <2>4, <2>5, <2>6
<1>9. QED BY <1>4, <1>5, <1>7, <1>8

LEMMA AddThingDrops ==
    ASSUME NEW t, NEW c \in Container, NEW x, NEW index \in Int, ~(index < capacity[c])
    PROVE  AddThing(t, c, index, x) = t
<1>1. index >= capacity[c]
  BY SizeAssumption
<1>2. QED BY <1>1 DEF AddThing

\* What m units of x are of kind k.
Share(x, k, m) == IF IsStack(x) /\ x.kind = k THEN m ELSE 0

Recount(x, n) == [x EXCEPT !.count = n]

LEMMA UpdateThingRecounts ==
    ASSUME NEW t, Sound(t), NEW c \in Container, NEW j \in DOMAIN t.list[c],
           NEW x \in Stack, x = t.list[c][j], NEW n \in 1 .. StackSize,
           NEW w, w = n - x.count, NEW r, r = UpdateThing(t, c, j, n)
    PROVE  /\ Sound(r) /\ Only(t, r, c) /\ r.up = t.up
           /\ Replaced(t.list[c], r.list[c], j, Recount(x, n))
           /\ Len(r.list[c]) = Len(t.list[c])
           /\ \A k : Held(r, k) = Held(t, k) + Share(x, k, w)
<1>1. PICK s : s = t.list[c]
  OBVIOUS
<1>2. PICK y : y = [x EXCEPT !.count = n]
  OBVIOUS
<1>3. PICK z : z = [s EXCEPT ![j] = y]
  OBVIOUS
<1>4. Changed(t, r, c, z, t.up, n - x.count) /\ Fits(t, c, z, t.up, n - x.count)
  BY <1>1, <1>2, <1>3, UpdateThingChanges, UpdateThingFits
<1>5. Sound(r)
  BY <1>4, ChangedSound
<1>6. r.list[c] = z /\ r.up = t.up /\ Only(t, r, c)
  BY <1>4, ChangedParts DEF Sound, Only
<1>7. y \in Stack /\ y.count = n /\ y.kind = x.kind /\ y \in Item /\ x \in Item
  BY <1>2, StackWith, Kinds
<1>8. s \in Seq(Item) /\ Replaced(s, z, j, y)
  BY <1>1, <1>3, <1>7, TreeParts, PutInPlace DEF Sound
<1>9. ASSUME NEW k PROVE Held(r, k) = Held(t, k) + Share(x, k, w)
  <2>1. PICK m \in [Item -> Nat] : /\ \A q \in Item : m[q] = Count(q, k)
                                   /\ \A q \in Seq(Item) : Units(q, k) = Sum(q, m)
    BY UnitsIsSum
  <2>2. Sum(z, m) = Sum(s, m) + m[y] - m[x]
    BY <1>1, <1>8, SumReplaced
  <2>3. z \in Seq(Item)
    BY <1>8 DEF Replaced
  <2>4. Units(z, k) = Units(s, k) + Count(y, k) - Count(x, k) /\ Units(s, k) \in Nat
    BY <1>7, <1>8, <2>1, <2>2, <2>3, SumType
  <2>5. Held(r, k) = Held(t, k) + Units(z, k) - Units(s, k)
    BY <1>1, <1>5, <1>6, HeldByOne DEF Sound
  <2>6. Held(t, k) \in Nat
    BY HeldType DEF Sound
  <2>7. Count(y, k) = (IF x.kind = k THEN n ELSE 0) /\ Count(x, k) = IF x.kind = k THEN x.count ELSE 0
    BY <1>7, Kinds DEF Count
  <2>8. x.count \in Nat /\ n \in Nat
    BY Kinds
  <2>9. IsStack(x)
    BY Kinds
  <2>10. QED BY <2>4, <2>5, <2>6, <2>7, <2>8, <2>9 DEF Share
<1>10. QED BY <1>1, <1>2, <1>5, <1>6, <1>8, <1>9 DEF Replaced, Recount

LEMMA TakenRemoves ==
    ASSUME NEW t, Sound(t), NEW c \in Container, NEW j \in DOMAIN t.list[c],
           NEW x, x = t.list[c][j], NEW r, r = Taken(t, c, j)
    PROVE  /\ Sound(r) /\ Only(t, r, c) /\ r.up = UpWith(t, x, Gone)
           /\ Without(t.list[c], r.list[c], j)
           /\ Len(r.list[c]) = Len(t.list[c]) - 1
           /\ \A k : Held(r, k) = Held(t, k) - Count(x, k)
<1>1. PICK s : s = t.list[c]
  OBVIOUS
<1>2. PICK z : z = RemoveAt(s, j)
  OBVIOUS
<1>9. PICK v : v = UpWith(t, x, Gone)
  OBVIOUS
<1>10. PICK w : w = 0 - Weight(t, x)
  OBVIOUS
<1>3. Changed(t, r, c, z, v, w) /\ Fits(t, c, z, v, w)
  BY <1>1, <1>2, <1>9, <1>10, TakenChanges, TakenFits
<1>4. Sound(r)
  BY <1>3, ChangedSound
<1>5. r.list[c] = z /\ r.up = UpWith(t, x, Gone) /\ Only(t, r, c)
  BY <1>3, <1>9, ChangedParts DEF Sound, Only
<1>6. s \in Seq(Item) /\ Without(s, z, j) /\ x \in Item
  BY <1>1, <1>2, TreeParts, TakeOut, ListType DEF Sound
<1>7. ASSUME NEW k PROVE Held(r, k) = Held(t, k) - Count(x, k)
  <2>1. PICK m \in [Item -> Nat] : /\ \A q \in Item : m[q] = Count(q, k)
                                   /\ \A q \in Seq(Item) : Units(q, k) = Sum(q, m)
    BY UnitsIsSum
  <2>2. Sum(z, m) = Sum(s, m) - m[x]
    BY <1>1, <1>6, SumWithout
  <2>3. z \in Seq(Item)
    BY <1>6 DEF Without
  <2>4. Units(z, k) = Units(s, k) - Count(x, k) /\ Units(s, k) \in Nat /\ Count(x, k) \in Nat
    BY <1>6, <2>1, <2>2, <2>3, SumType
  <2>5. Held(r, k) = Held(t, k) + Units(z, k) - Units(s, k)
    BY <1>1, <1>4, <1>5, HeldByOne DEF Sound
  <2>6. Held(t, k) \in Nat
    BY HeldType DEF Sound
  <2>7. QED BY <2>4, <2>5, <2>6
<1>8. QED BY <1>1, <1>4, <1>5, <1>6, <1>7 DEF Without

\* Container::removeThing: the whole item is taken, or some of a stack.
Whole(x, m) == ~IsStack(x) \/ m = x.count

\* Where an item is that was at position i, when the one at j was removed.
NewPlace(i, j, x, m) == IF Whole(x, m) /\ j < i THEN i - 1 ELSE i

\* The places of the container that become free.
Places(x, m) == IF Whole(x, m) THEN 1 ELSE 0

LEMMA RemoveThingTakes ==
    ASSUME NEW t, Sound(t), NEW c \in Container, NEW j \in DOMAIN t.list[c],
           NEW x, x = t.list[c][j], NEW m, IsStack(x) => m \in 1 .. x.count,
           NEW r, r = RemoveThing(t, c, j, m)
    PROVE  /\ Sound(r) /\ Only(t, r, c) /\ r.up = UpWith(t, x, Gone)
           /\ Len(r.list[c]) = Len(t.list[c]) - Places(x, m)
           /\ \A i \in DOMAIN t.list[c] : i # j =>
                 /\ NewPlace(i, j, x, m) \in DOMAIN r.list[c]
                 /\ r.list[c][NewPlace(i, j, x, m)] = t.list[c][i]
           /\ \A k : Held(r, k) = Held(t, k) - Share(x, k, m)
<1>1. PICK s : s = t.list[c]
  OBVIOUS
<1>2. s \in Seq(Item) /\ DOMAIN s = 1 .. Len(s) /\ Len(s) \in Nat /\ x \in Item
  BY <1>1, TreeParts, ListType DEF Sound
<1>3. CASE Whole(x, m)
  <2>1. r = Taken(t, c, j)
    BY <1>3 DEF RemoveThing, Taken, Whole
  <2>2. /\ Sound(r) /\ Only(t, r, c) /\ r.up = UpWith(t, x, Gone)
        /\ Without(s, r.list[c], j) /\ Len(r.list[c]) = Len(s) - 1
        /\ \A k : Held(r, k) = Held(t, k) - Count(x, k)
    BY <1>1, <2>1, TakenRemoves
  <2>3. ASSUME NEW k PROVE Held(r, k) = Held(t, k) - Share(x, k, m)
    BY <1>3, <2>2 DEF Count, Whole, Share
  <2>4. ASSUME NEW i \in DOMAIN s, i # j
        PROVE  /\ NewPlace(i, j, x, m) \in DOMAIN r.list[c]
               /\ r.list[c][NewPlace(i, j, x, m)] = s[i]
    <3>1. PICK q : q = r.list[c]
      OBVIOUS
    <3>2. /\ DOMAIN q = 1 .. Len(s) - 1
          /\ \A h \in 1 .. Len(s) - 1 : q[h] = IF h < j THEN s[h] ELSE s[h + 1]
      BY <1>2, <2>2, <3>1, ListType DEF Without
    <3>3. j \in 1 .. Len(s) /\ i \in 1 .. Len(s)
      BY <1>1, <1>2
    <3>4. CASE j < i
      <4>1. i - 1 \in 1 .. Len(s) - 1 /\ ~(i - 1 < j) /\ (i - 1) + 1 = i
        BY <1>2, <3>3, <3>4
      <4>2. q[i - 1] = s[i]
        BY <3>2, <4>1
      <4>3. QED BY <1>3, <3>1, <3>2, <3>4, <4>1, <4>2 DEF NewPlace
    <3>5. CASE i < j
      <4>1. i \in 1 .. Len(s) - 1 /\ ~(j < i)
        BY <1>2, <3>3, <3>5
      <4>2. q[i] = s[i]
        BY <3>2, <3>5, <4>1
      <4>3. QED BY <3>1, <3>2, <4>1, <4>2 DEF NewPlace
    <3>6. QED BY <2>4, <3>3, <3>4, <3>5
  <2>5. QED BY <1>1, <1>3, <2>2, <2>3, <2>4 DEF Places
<1>4. CASE ~Whole(x, m)
  <2>1. IsStack(x) /\ m # x.count /\ x \in Stack /\ m \in 1 .. x.count /\ x.count \in 1 .. StackSize
    BY <1>2, <1>4, Kinds DEF Whole, Stack
  <2>2. PICK n, w : n = x.count - m /\ w = n - x.count
    OBVIOUS
  <2>3. n \in 1 .. StackSize
    BY <2>1, <2>2, SizeAssumption
  <2>4. r = UpdateThing(t, c, j, n)
    BY <2>1, <2>2 DEF RemoveThing
  <2>5. /\ Sound(r) /\ Only(t, r, c) /\ r.up = t.up
        /\ Replaced(s, r.list[c], j, Recount(x, n))
        /\ Len(r.list[c]) = Len(s)
        /\ \A k : Held(r, k) = Held(t, k) + Share(x, k, w)
    BY <1>1, <2>1, <2>2, <2>3, <2>4, UpdateThingRecounts
  <2>6. ASSUME NEW k PROVE Held(r, k) = Held(t, k) - Share(x, k, m)
    <3>1. Held(t, k) \in Nat /\ m \in Int /\ x.count \in Int
      BY <2>1, SizeAssumption, HeldType DEF Sound
    <3>2. w = 0 - m
      BY <2>2, <3>1
    <3>3. QED BY <2>1, <2>5, <3>1, <3>2 DEF Share
  <2>7. ASSUME NEW i \in DOMAIN s, i # j
        PROVE  /\ NewPlace(i, j, x, m) \in DOMAIN r.list[c]
               /\ r.list[c][NewPlace(i, j, x, m)] = s[i]
    BY <1>2, <1>4, <2>5, <2>7, ListType DEF NewPlace, Replaced
  <2>8. UpWith(t, x, Gone) = t.up
    BY <2>1 DEF UpWith
  <2>9. QED BY <1>1, <1>2, <1>4, <2>5, <2>6, <2>7, <2>8 DEF Places
<1>5. QED BY <1>3, <1>4

-----------------------------------------------------------------------------
(***************************************************************************)
(* Where an item goes.  From here on the tree is the one of the state.     *)
(***************************************************************************)
LEMMA StateTree ==
    ASSUME Sound(tree)
    PROVE  /\ tree \in Trees /\ tree.list = itemlist /\ tree.up = parent /\ tree.weight = totalWeight
           /\ parent \in [Container -> Container \cup Elsewhere]
           /\ totalWeight \in [Container -> Nat] /\ itemlist \in [Container -> Seq(Item)]
           /\ \A c \in Container :
                 /\ itemlist[c] \in Seq(Item) /\ Len(itemlist[c]) \in Nat
                 /\ DOMAIN itemlist[c] = 1 .. Len(itemlist[c]) /\ capacity[c] \in 1 .. 253
                 /\ \A j \in DOMAIN itemlist[c] : j \in Nat \ {0} /\ itemlist[c][j] \in Item
<1>1. tree \in Trees /\ tree.list = itemlist /\ tree.up = parent /\ tree.weight = totalWeight
  BY DEF tree, Sound
<1>2. /\ itemlist \in [Container -> Seq(Item)] /\ totalWeight \in [Container -> Nat]
      /\ parent \in [Container -> Container \cup Elsewhere]
  BY <1>1, TreeParts
<1>3. ASSUME NEW c \in Container
      PROVE  /\ itemlist[c] \in Seq(Item) /\ Len(itemlist[c]) \in Nat
             /\ DOMAIN itemlist[c] = 1 .. Len(itemlist[c]) /\ capacity[c] \in 1 .. 253
             /\ \A j \in DOMAIN itemlist[c] : j \in Nat \ {0} /\ itemlist[c][j] \in Item
  <2>1. PICK s \in Seq(Item) : s = itemlist[c]
    BY <1>2
  <2>2. Len(s) \in Nat /\ DOMAIN s = 1 .. Len(s) /\ \A j \in DOMAIN s : s[j] \in Item
    BY ListType
  <2>3. capacity[c] \in 1 .. 253
    BY SizeAssumption
  <2>4. QED BY <2>1, <2>2, <2>3
<1>4. QED BY <1>1, <1>2, <1>3

LEMMA MergeableAre ==
    ASSUME NEW c, NEW x, NEW own, NEW j \in Mergeable(c, x, own)
    PROVE  /\ j \in DOMAIN itemlist[c] /\ j # own /\ IsStack(x) /\ IsStack(itemlist[c][j])
           /\ itemlist[c][j].kind = x.kind /\ itemlist[c][j].count < StackSize
BY DEF Mergeable, Partial

(***************************************************************************)
(* Container::queryDestination answers with a place of the container, or   *)
(* with one of its stacks.  An index past the capacity is that of a stack  *)
(* to merge with; an item from elsewhere is merged when it can be.         *)
(***************************************************************************)
Destined(d, x, own) ==
    /\ d.to \in Container /\ d.index \in Int /\ d.toItem \in Int
    /\ IF d.toItem = 0 THEN d.index + 1 \notin DOMAIN itemlist[d.to]
       ELSE /\ d.toItem \in DOMAIN itemlist[d.to] /\ d.toItem = d.index + 1
            /\ itemlist[d.to][d.toItem] \in Stack
    /\ d.index < capacity[d.to] \/ (own = 0 /\ d.toItem \in Mergeable(d.to, x, 0))
    /\ own = 0 => Mergeable(d.to, x, 0) = {} \/ d.toItem \in Mergeable(d.to, x, 0)

LEMMA Settles ==
    ASSUME Sound(tree), NEW c \in Container, NEW x, NEW own, NEW index \in Int, index < capacity[c],
           NEW dest \in Int,
           IF dest = 0 THEN index + 1 \notin DOMAIN itemlist[c]
           ELSE dest = index + 1 /\ dest \in DOMAIN itemlist[c] /\ itemlist[c][dest] \in Stack,
           NEW d, d = Settle(c, x, own, index, dest)
    PROVE  Destined(d, x, own) /\ d.to = c
<1>1. PICK into : into = Mergeable(c, x, 0)
  OBVIOUS
<1>2. CASE own = 0 /\ into # {} /\ dest \notin into
  <2>1. into \in SUBSET Nat
    BY <1>1, StateTree, MergeableAre
  <2>2. PICK i : i = Min(into)
    OBVIOUS
  <2>3. i \in into
    BY <1>2, <2>1, <2>2, Least
  <2>4. d = [to |-> c, index |-> i - 1, toItem |-> i]
    BY <1>1, <1>2, <2>2 DEF Settle
  <2>5. i \in DOMAIN itemlist[c] /\ i \in Nat \ {0} /\ itemlist[c][i] \in Stack
    BY <1>1, <2>3, MergeableAre, StateTree, Kinds
  <2>6. QED BY <1>1, <1>2, <2>3, <2>4, <2>5 DEF Destined
<1>3. CASE ~(own = 0 /\ into # {} /\ dest \notin into)
  <2>1. d = [to |-> c, index |-> index, toItem |-> dest]
    BY <1>1, <1>3 DEF Settle
  <2>2. QED BY <1>1, <1>3, <2>1 DEF Destined
<1>4. QED BY <1>2, <1>3

LEMMA DestinationFound ==
    ASSUME Sound(tree), NEW at \in Container, NEW j \in DOMAIN itemlist[at], NEW c \in Container,
           NEW index \in Int, NEW d, d = QueryDestination(at, j, c, index)
    PROVE  Destined(d, itemlist[at][j], Own(at, j, d.to))
<1>1. PICK x : x = itemlist[at][j]
  OBVIOUS
<1>8. \A e \in Container : capacity[e] \in Nat /\ capacity[e] > 0
  BY SizeAssumption
<1>9. \A e \in Container : \A i \in DOMAIN itemlist[e] : i \in Nat \ {0} /\ itemlist[e][i] \in Item
  BY StateTree
<1>2. \A e \in Container : Wherever \in Int /\ Wherever < capacity[e] /\ Wherever + 1 \notin DOMAIN itemlist[e]
  BY <1>8, <1>9 DEF Wherever
<1>3. ASSUME NEW e \in Container, d = Settle(e, x, Own(at, j, e), Wherever, 0)
      PROVE  Destined(d, x, Own(at, j, d.to))
  BY <1>2, <1>3, Settles
<1>4. CASE index = MoveUp
  <2>1. PICK e : e = IF parent[c] \in Container THEN parent[c] ELSE c
    OBVIOUS
  <2>2. e \in Container /\ d = Settle(e, x, Own(at, j, e), Wherever, 0)
    BY <1>1, <1>4, <2>1 DEF QueryDestination
  <2>3. QED BY <1>1, <1>3, <2>2
<1>5. CASE index # MoveUp /\ (index >= capacity[c] \/ index + 1 \notin DOMAIN itemlist[c])
  <2>1. PICK i : i = IF index >= capacity[c] THEN Wherever ELSE index
    OBVIOUS
  <2>2. i \in Int /\ i < capacity[c] /\ i + 1 \notin DOMAIN itemlist[c]
    BY <1>2, <1>5, <1>8, <2>1
  <2>3. d = Settle(c, x, Own(at, j, c), i, 0)
    BY <1>1, <1>5, <2>1 DEF QueryDestination
  <2>4. QED BY <1>1, <2>2, <2>3, Settles
<1>6. CASE index # MoveUp /\ index < capacity[c] /\ index + 1 \in DOMAIN itemlist[c]
  <2>1. PICK y : y = itemlist[c][index + 1]
    OBVIOUS
  <2>2. ~(index >= capacity[c]) /\ y \in Item
    BY <1>6, <1>8, <1>9, <2>1
  <2>3. CASE IsStack(y)
    <3>1. d = Settle(c, x, Own(at, j, c), index, index + 1)
      BY <1>1, <1>6, <2>1, <2>2, <2>3 DEF QueryDestination
    <3>2. index + 1 \in Int /\ index + 1 # 0 /\ y \in Stack
      BY <1>6, <2>2, <2>3, Kinds, StateTree
    <3>3. QED BY <1>1, <1>6, <2>1, <3>1, <3>2, Settles
  <2>4. CASE ~IsStack(y)
    <3>1. d = Settle(y, x, Own(at, j, y), Wherever, 0)
      BY <1>1, <1>6, <2>1, <2>2, <2>4 DEF QueryDestination
    <3>2. y \in Container
      BY <2>2, <2>4, Kinds
    <3>3. QED BY <1>1, <1>3, <3>1, <3>2
  <2>5. QED BY <2>3, <2>4
<1>7. QED BY <1>4, <1>5, <1>6, <1>8

-----------------------------------------------------------------------------
(***************************************************************************)
(* Game::internalMoveItem, once nothing refuses.                           *)
(***************************************************************************)
Moves(at, j, x, d, m) ==
    /\ at \in Container /\ j \in DOMAIN itemlist[at] /\ x = itemlist[at][j]
    /\ Destined(d, x, Own(at, j, d.to)) /\ ~(d.to = at /\ d.toItem = j)
    /\ IsStack(x) => m \in 1 .. x.count
    /\ ~IsStack(x) => x \notin Chain(parent, d.to)

\* What toItem takes of the m units that move.
Joined(x, d, m) ==
    IF IsStack(x) /\ d.toItem > 0 /\ IsStack(itemlist[d.to][d.toItem])
       /\ itemlist[d.to][d.toItem].kind = x.kind
    THEN Min({StackSize - itemlist[d.to][d.toItem].count, m}) ELSE 0

\* No part of the item is dropped for an index past the capacity.
Stored(x, d, m) == d.index < capacity[d.to] \/ (IsStack(x) /\ m <= Joined(x, d, m))

\* What the move is for the state: the forest stays sound, nothing but the two
\* containers changes, no unit is doubled, and none is lost when all is stored.
MoveDone(at, x, d, m, r) ==
    /\ Sound(r)
    /\ \A c \in Container : c # at /\ c # d.to => r.list[c] = itemlist[c]
    /\ r.up = UpWith(tree, x, d.to)
    /\ at # d.to => Len(r.list[at]) <= Len(itemlist[at])
    /\ at # d.to => Len(r.list[d.to]) <= Len(itemlist[d.to]) + 1
    /\ at # d.to /\ IsStack(x) /\ m <= Joined(x, d, m) => Len(r.list[d.to]) = Len(itemlist[d.to])
    /\ \A k : Held(r, k) <= Held(tree, k)
    /\ Stored(x, d, m) => \A k : Held(r, k) = Held(tree, k)

LEMMA MovedBag ==
    ASSUME Sound(tree), NEW at, NEW j, NEW x, NEW d, NEW m, Moves(at, j, x, d, m), ~IsStack(x),
           NEW r, r = Moved(at, j, d, m)
    PROVE  MoveDone(at, x, d, m, r)
<1>1. /\ at \in Container /\ j \in DOMAIN itemlist[at] /\ x = itemlist[at][j] /\ x \in Bag
      /\ d.to \in Container /\ d.index \in Int /\ x \notin Chain(parent, d.to)
      /\ x \in Item /\ x \in Container
  BY StateTree, Kinds DEF Moves, Destined
<1>2. d.index < capacity[d.to]
  BY MergeableAre DEF Moves, Destined
<1>3. PICK t : t = RemoveThing(tree, at, j, m)
  OBVIOUS
<1>4. tree.list = itemlist /\ tree.up = parent /\ tree \in Trees
  BY StateTree
<1>5. /\ Sound(t) /\ Only(tree, t, at) /\ t.up = UpWith(tree, x, Gone)
      /\ Len(t.list[at]) = Len(itemlist[at]) - 1
      /\ \A k : Held(t, k) = Held(tree, k) - 0
  <2>1. /\ Sound(t) /\ Only(tree, t, at) /\ t.up = UpWith(tree, x, Gone)
        /\ Len(t.list[at]) = Len(itemlist[at]) - Places(x, m)
        /\ \A k : Held(t, k) = Held(tree, k) - Share(x, k, m)
    <3>1. PICK w : w = tree
      OBVIOUS
    <3>2. Sound(w) /\ j \in DOMAIN w.list[at] /\ x = w.list[at][j] /\ t = RemoveThing(w, at, j, m)
      BY <1>1, <1>3, <1>4, <3>1
    <3>3. /\ Sound(t) /\ Only(w, t, at) /\ t.up = UpWith(w, x, Gone)
          /\ Len(t.list[at]) = Len(w.list[at]) - Places(x, m)
          /\ \A k : Held(t, k) = Held(w, k) - Share(x, k, m)
      BY <1>1, <3>2, RemoveThingTakes
    <3>4. QED BY <1>4, <3>1, <3>3
  <2>2. Whole(x, m)
    BY DEF Whole
  <2>3. QED BY <2>1, <2>2 DEF Places, Share
<1>6. r = AddThing(t, d.to, d.index, x)
  BY <1>1, <1>3 DEF Moved
<1>7. /\ t.up[x] = Gone /\ t.up[x] \notin Container
      /\ \A e \in Container : e # x => t.up[e] = parent[e]
  BY <1>1, <1>4, <1>5, UpWithType, SizeAssumption DEF Elsewhere
<1>8. x \notin Chain(t.up, d.to)
  <2>1. \A e \in Chain(parent, d.to) : t.up[e] = parent[e]
    BY <1>1, <1>7, ChainContainers
  <2>2. QED BY <1>1, <2>1, ChainSame
<1>9. /\ Sound(r) /\ Only(t, r, d.to) /\ r.up = UpWith(t, x, d.to)
      /\ Len(r.list[d.to]) = Len(t.list[d.to]) + 1
      /\ \A k : Held(r, k) = Held(t, k) + Count(x, k)
  BY <1>1, <1>2, <1>5, <1>6, <1>7, <1>8, AddThingStores
<1>10. ASSUME NEW k PROVE Held(r, k) = Held(tree, k) /\ Held(r, k) \in Nat
  <2>1. Count(x, k) = 0 /\ Held(tree, k) \in Nat
    BY <1>4, HeldType DEF Count
  <2>2. QED BY <1>5, <1>9, <2>1
<1>11. r.up = UpWith(tree, x, d.to)
  BY <1>5, <1>9 DEF UpWith
<1>12. \A c \in Container : c # at /\ c # d.to => r.list[c] = itemlist[c]
  BY <1>4, <1>5, <1>9 DEF Only
<1>13. ASSUME at # d.to
       PROVE  Len(r.list[at]) <= Len(itemlist[at]) /\ Len(r.list[d.to]) = Len(itemlist[d.to]) + 1
  <2>1. r.list[at] = t.list[at] /\ t.list[d.to] = itemlist[d.to] /\ Len(itemlist[at]) \in Nat
    BY <1>1, <1>4, <1>5, <1>9, <1>13, StateTree DEF Only
  <2>2. QED BY <1>5, <1>9, <2>1
<1>14. Len(itemlist[d.to]) \in Nat
  BY <1>1, StateTree
<1>15. QED BY <1>9, <1>10, <1>11, <1>12, <1>13, <1>14 DEF MoveDone

LEMMA MovedStack ==
    ASSUME Sound(tree), NEW at, NEW j, NEW x, NEW d, NEW m, Moves(at, j, x, d, m), IsStack(x),
           NEW r, r = Moved(at, j, d, m)
    PROVE  MoveDone(at, x, d, m, r)
<1>1. /\ at \in Container /\ j \in DOMAIN itemlist[at] /\ x = itemlist[at][j] /\ x \in Stack
      /\ d.to \in Container /\ d.index \in Int /\ d.toItem \in Int /\ j \in Nat \ {0}
      /\ x \in Item /\ m \in 1 .. x.count /\ x.count \in 1 .. StackSize /\ ~(d.to = at /\ d.toItem = j)
      /\ d.toItem # 0 => d.toItem \in DOMAIN itemlist[d.to] /\ itemlist[d.to][d.toItem] \in Stack
  BY StateTree, Kinds DEF Moves, Destined, Stack
<1>2. PICK t : t = RemoveThing(tree, at, j, m)
  OBVIOUS
<1>3. tree.list = itemlist /\ tree.up = parent /\ tree \in Trees
  BY StateTree
<1>4. /\ Sound(t) /\ Only(tree, t, at) /\ t.up = UpWith(tree, x, Gone)
      /\ Len(t.list[at]) = Len(itemlist[at]) - Places(x, m)
      /\ \A i \in DOMAIN itemlist[at] : i # j =>
            /\ NewPlace(i, j, x, m) \in DOMAIN t.list[at]
            /\ t.list[at][NewPlace(i, j, x, m)] = itemlist[at][i]
      /\ \A k : Held(t, k) = Held(tree, k) - Share(x, k, m)
  <2>1. PICK w : w = tree
    OBVIOUS
  <2>2. Sound(w) /\ j \in DOMAIN w.list[at] /\ x = w.list[at][j] /\ t = RemoveThing(w, at, j, m)
    BY <1>1, <1>2, <1>3, <2>1
  <2>3. /\ Sound(t) /\ Only(w, t, at) /\ t.up = UpWith(w, x, Gone)
        /\ Len(t.list[at]) = Len(w.list[at]) - Places(x, m)
        /\ \A i \in DOMAIN w.list[at] : i # j =>
              /\ NewPlace(i, j, x, m) \in DOMAIN t.list[at]
              /\ t.list[at][NewPlace(i, j, x, m)] = w.list[at][i]
        /\ \A k : Held(t, k) = Held(w, k) - Share(x, k, m)
    BY <1>1, <2>2, RemoveThingTakes
  <2>4. QED BY <1>3, <2>1, <2>3
<1>21. Len(t.list[at]) <= Len(itemlist[at])
  <2>1. Len(itemlist[at]) \in Nat
    BY <1>1, StateTree
  <2>2. CASE Whole(x, m)
    BY <1>4, <2>1, <2>2 DEF Places
  <2>3. CASE ~Whole(x, m)
    BY <1>4, <2>1, <2>3 DEF Places
  <2>4. QED BY <2>2, <2>3
<1>5. t.up = parent
  BY <1>3, <1>4 DEF UpWith
<1>6. PICK n : n = Joined(x, d, m)
  OBVIOUS
<1>7. PICK y : y = itemlist[d.to][d.toItem]
  OBVIOUS
<1>8. StackSize \in Nat /\ m \in Nat \ {0}
  BY <1>1, SizeAssumption
<1>9. /\ n \in Nat /\ n <= m
      /\ n > 0 => d.toItem > 0 /\ y.kind = x.kind /\ y \in Stack /\ y.count + n \in 1 .. StackSize
                  /\ y.count \in Nat
  <2>1. CASE d.toItem > 0 /\ IsStack(y) /\ y.kind = x.kind
    <3>1. y \in Stack /\ y.count \in 1 .. StackSize
      BY <1>1, <1>7, <2>1 DEF Stack
    <3>2. n = Min({StackSize - y.count, m})
      BY <1>6, <1>7, <2>1 DEF Joined
    <3>3. n = IF StackSize - y.count <= m THEN StackSize - y.count ELSE m
      BY <1>8, <3>1, <3>2, MinOfTwo
    <3>4. QED BY <1>8, <2>1, <3>1, <3>3
  <2>2. CASE ~(d.toItem > 0 /\ IsStack(y) /\ y.kind = x.kind)
    <3>1. n = 0
      BY <1>6, <1>7, <2>2 DEF Joined
    <3>2. QED BY <1>8, <3>1
  <2>3. QED BY <2>1, <2>2
<1>10. PICK dest : dest = d.toItem - IF at = d.to /\ j < d.toItem /\ IsStack(x) /\ m = x.count THEN 1 ELSE 0
  OBVIOUS
<1>11. PICK u : u = IF n > 0 THEN UpdateThing(t, d.to, dest, t.list[d.to][dest].count + n) ELSE t
  OBVIOUS
<1>12. PICK z : z = [x EXCEPT !.count = m - n]
  OBVIOUS
<1>13. r = IF m > n THEN AddThing(u, d.to, d.index, z) ELSE u
  BY <1>1, <1>2, <1>6, <1>10, <1>11, <1>12 DEF Moved, Joined
<1>14. ASSUME n > 0 PROVE dest \in DOMAIN t.list[d.to] /\ t.list[d.to][dest] = y
  <2>1. d.toItem \in DOMAIN itemlist[d.to]
    BY <1>1, <1>9, <1>14
  <2>2. CASE at = d.to
    <3>1. dest = NewPlace(d.toItem, j, x, m)
      BY <1>1, <1>10, <2>2 DEF NewPlace, Whole
    <3>2. QED BY <1>1, <1>4, <1>7, <2>1, <2>2, <3>1
  <2>3. CASE at # d.to
    <3>1. dest = d.toItem /\ t.list[d.to] = itemlist[d.to]
      BY <1>1, <1>3, <1>4, <1>10, <2>3 DEF Only
    <3>2. QED BY <1>7, <2>1, <3>1
  <2>4. QED BY <2>2, <2>3
<1>15. /\ Sound(u) /\ Only(t, u, d.to) /\ u.up = t.up /\ Len(u.list[d.to]) = Len(t.list[d.to])
       /\ \A k : Held(u, k) = Held(t, k) + IF x.kind = k THEN n ELSE 0
  <2>1. CASE n > 0
    <3>1. PICK q, w : q = y.count + n /\ w = q - y.count
      OBVIOUS
    <3>2. u = UpdateThing(t, d.to, dest, q) /\ q \in 1 .. StackSize
      BY <1>9, <1>11, <1>14, <2>1, <3>1
    <3>3. /\ Sound(u) /\ Only(t, u, d.to) /\ u.up = t.up /\ Len(u.list[d.to]) = Len(t.list[d.to])
          /\ \A k : Held(u, k) = Held(t, k) + Share(y, k, w)
      <4>1. PICK c \in Container : c = d.to
        BY <1>1
      <4>2. /\ Sound(t) /\ dest \in DOMAIN t.list[c] /\ y \in Stack /\ y = t.list[c][dest]
            /\ u = UpdateThing(t, c, dest, q) /\ w = q - y.count /\ q \in 1 .. StackSize
        BY <1>4, <1>9, <1>14, <2>1, <3>1, <3>2, <4>1
      <4>3. /\ Sound(u) /\ Only(t, u, c) /\ u.up = t.up /\ Len(u.list[c]) = Len(t.list[c])
            /\ \A k : Held(u, k) = Held(t, k) + Share(y, k, w)
        BY <4>2, UpdateThingRecounts
      <4>4. QED BY <4>1, <4>3
    <3>4. w = n /\ y.kind = x.kind /\ IsStack(y)
      BY <1>9, <2>1, <3>1, Kinds
    <3>5. QED BY <3>3, <3>4 DEF Share
  <2>2. CASE ~(n > 0)
    <3>1. u = t /\ n = 0
      BY <1>9, <1>11, <2>2
    <3>2. \A k : Held(t, k) \in Nat
      BY <1>4, HeldType DEF Sound
    <3>3. QED BY <1>4, <3>1, <3>2 DEF Only
  <2>3. QED BY <2>1, <2>2
<1>16. \A k : Held(tree, k) \in Nat /\ Held(t, k) \in Nat /\ Held(u, k) \in Nat
  BY <1>3, <1>4, <1>15, HeldType DEF Sound
<1>17. m > n => z \in Stack /\ z.count = m - n /\ z.kind = x.kind /\ z \in Item /\ IsStack(z)
  <2>1. ASSUME m > n PROVE m - n \in 1 .. StackSize
    BY <1>1, <1>8, <1>9, <2>1
  <2>2. QED BY <1>1, <1>12, <2>1, StackWith, Kinds
<1>18. CASE m > n /\ d.index < capacity[d.to]
  <2>1. /\ Sound(r) /\ Only(u, r, d.to) /\ r.up = UpWith(u, z, d.to)
        /\ Len(r.list[d.to]) = Len(u.list[d.to]) + 1
        /\ \A k : Held(r, k) = Held(u, k) + Count(z, k)
    <3>1. PICK c \in Container, i \in Int : c = d.to /\ i = d.index
      BY <1>1
    <3>2. Sound(u) /\ z \in Item /\ IsStack(z) /\ i < capacity[c] /\ r = AddThing(u, c, i, z)
      BY <1>13, <1>15, <1>17, <1>18, <3>1
    <3>3. /\ Sound(r) /\ Only(u, r, c) /\ r.up = UpWith(u, z, c)
          /\ Len(r.list[c]) = Len(u.list[c]) + 1
          /\ \A k : Held(r, k) = Held(u, k) + Count(z, k)
      BY <3>2, AddThingStores
    <3>4. QED BY <3>1, <3>3
  <2>2. r.up = UpWith(tree, x, d.to)
    BY <1>3, <1>5, <1>15, <1>17, <1>18, <2>1 DEF UpWith
  <2>3. ASSUME NEW k PROVE Held(r, k) = Held(tree, k)
    <3>1. Count(z, k) = IF x.kind = k THEN m - n ELSE 0
      BY <1>17, <1>18 DEF Count
    <3>2. Held(r, k) = Held(tree, k) - (IF x.kind = k THEN m ELSE 0) + (IF x.kind = k THEN n ELSE 0)
                         + IF x.kind = k THEN m - n ELSE 0
      BY <1>4, <1>15, <2>1, <3>1 DEF Share
    <3>3. QED BY <1>8, <1>9, <1>16, <3>2
  <2>4. \A c \in Container : c # at /\ c # d.to => r.list[c] = itemlist[c]
    BY <1>3, <1>4, <1>15, <2>1 DEF Only
  <2>5. ASSUME at # d.to
        PROVE  Len(r.list[at]) <= Len(itemlist[at]) /\ Len(r.list[d.to]) = Len(itemlist[d.to]) + 1
    <3>1. r.list[at] = t.list[at] /\ t.list[d.to] = itemlist[d.to]
      BY <1>1, <1>3, <1>4, <1>15, <2>1, <2>5 DEF Only
    <3>2. Len(itemlist[at]) \in Nat
      BY <1>1, StateTree
    <3>3. QED BY <1>15, <1>21, <2>1, <3>1, <3>2
  <2>6. Len(itemlist[d.to]) \in Nat /\ ~(m <= Joined(x, d, m))
    BY <1>1, <1>6, <1>8, <1>9, <1>18, StateTree
  <2>7. QED BY <1>16, <2>1, <2>2, <2>3, <2>4, <2>5, <2>6 DEF MoveDone
<1>19. CASE ~(m > n /\ d.index < capacity[d.to])
  <2>1. r = u
    BY <1>1, <1>13, <1>19, AddThingDrops
  <2>2. r.up = UpWith(tree, x, d.to)
    BY <1>3, <1>5, <1>15, <2>1 DEF UpWith
  <2>3. \A c \in Container : c # at /\ c # d.to => r.list[c] = itemlist[c]
    BY <1>3, <1>4, <1>15, <2>1 DEF Only
  <2>4. ASSUME at # d.to
        PROVE  Len(r.list[at]) <= Len(itemlist[at]) /\ Len(r.list[d.to]) = Len(itemlist[d.to])
    <3>1. r.list[at] = t.list[at] /\ t.list[d.to] = itemlist[d.to]
      BY <1>1, <1>3, <1>4, <1>15, <2>1, <2>4 DEF Only
    <3>2. Len(itemlist[at]) \in Nat
      BY <1>1, StateTree
    <3>3. QED BY <1>15, <1>21, <2>1, <3>1, <3>2
  <2>5. ASSUME NEW k
        PROVE  Held(r, k) <= Held(tree, k) /\ (Stored(x, d, m) => Held(r, k) = Held(tree, k))
    <3>1. Held(r, k) = Held(tree, k) - (IF x.kind = k THEN m ELSE 0) + (IF x.kind = k THEN n ELSE 0)
      BY <1>4, <1>15, <2>1 DEF Share
    <3>2. Stored(x, d, m) => m = n
      BY <1>6, <1>8, <1>9, <1>19 DEF Stored
    <3>3. QED BY <1>8, <1>9, <1>16, <3>1, <3>2
  <2>6. Len(itemlist[d.to]) \in Nat
    BY <1>1, StateTree
  <2>7. QED BY <1>15, <2>1, <2>2, <2>3, <2>4, <2>5, <2>6 DEF MoveDone
<1>20. QED BY <1>18, <1>19

-----------------------------------------------------------------------------
(***************************************************************************)
(* What Container::queryMaxCount allows.                                   *)
(***************************************************************************)
LEMMA RoomType ==
    ASSUME Sound(tree), NEW c \in Container, NEW x, NEW own, NEW S \in SUBSET Mergeable(c, x, own)
    PROVE  /\ IsFiniteSet(S) /\ Room(c, S) \in Nat
           /\ [j \in S |-> StackSize - itemlist[c][j].count] \in [S -> Nat]
<1>1. \A j \in S : j \in DOMAIN itemlist[c] /\ itemlist[c][j] \in Stack /\ itemlist[c][j].count < StackSize
  BY MergeableAre, StateTree, Kinds
<1>2. \A j \in S : StackSize - itemlist[c][j].count \in Nat
  BY <1>1, SizeAssumption DEF Stack
<1>3. IsFiniteSet(S)
  <2>1. IsFiniteSet(DOMAIN itemlist[c])
    BY StateTree, ListType
  <2>2. S \subseteq DOMAIN itemlist[c]
    BY <1>1
  <2>3. QED BY <2>1, <2>2, FS_Subset
<1>4. PICK f : f = [j \in S |-> StackSize - itemlist[c][j].count]
  OBVIOUS
<1>5. f \in [S -> Nat]
  BY <1>2, <1>4
<1>6. Total(f) \in Nat
  BY <1>3, <1>5, TotalFinite
<1>7. QED BY <1>3, <1>4, <1>5, <1>6 DEF Room

LEMMA RoomOne ==
    ASSUME Sound(tree), NEW c \in Container, NEW x, NEW own, NEW i \in Mergeable(c, x, own)
    PROVE  Room(c, {i}) = StackSize - itemlist[c][i].count
<1>1. PICK S : S = {i}
  OBVIOUS
<1>2. PICK f : f = [j \in S |-> StackSize - itemlist[c][j].count]
  OBVIOUS
<1>6. S \in SUBSET Mergeable(c, x, own)
  BY <1>1
<1>3. f \in [S -> Nat]
  BY <1>2, <1>6, RoomType
<1>4. DOMAIN f = {i} /\ f[i] = StackSize - itemlist[c][i].count /\ f[i] \in Nat
  BY <1>1, <1>2, <1>3
<1>5. QED BY <1>1, <1>2, <1>4, TotalSingle DEF Room

LEMMA RoomNone ==
    ASSUME NEW c
    PROVE  Room(c, {}) = 0
<1>1. PICK f : f = [j \in {} |-> StackSize - itemlist[c][j].count]
  OBVIOUS
<1>2. \A i \in DOMAIN f : f[i] = 0
  BY <1>1
<1>3. QED BY <1>1, <1>2, TotalZero DEF Room

LEMMA FreeSlots ==
    ASSUME Sound(tree), NEW c \in Container, NEW x, NEW own \in Nat, NEW count,
           NEW free, free = GetFreeSlotsFor(c, x, own, count)
    PROVE  /\ free \in Nat
           /\ own = 0 => free = IF Len(itemlist[c]) < capacity[c] THEN capacity[c] - Len(itemlist[c]) ELSE 0
<1>1. capacity[c] \in Nat /\ Len(itemlist[c]) \in Nat
  <2>1. capacity[c] \in Nat
    BY SizeAssumption
  <2>2. Len(itemlist[c]) \in Nat
    BY StateTree
  <2>3. QED BY <2>1, <2>2
<1>2. PICK a : a = capacity[c] - Len(itemlist[c])
  OBVIOUS
<1>3. a \in Int
  BY <1>1, <1>2
<1>4. Max({0, a}) = IF 0 >= a THEN 0 ELSE a
  BY <1>3, MaxOfTwo
<1>5. free = Max({0, a}) + IF own > 0 /\ (~IsStack(x) \/ count >= x.count) THEN 1 ELSE 0
  BY <1>2 DEF GetFreeSlotsFor
<1>6. CASE own > 0 /\ (~IsStack(x) \/ count >= x.count)
  BY <1>3, <1>4, <1>5, <1>6
<1>7. CASE ~(own > 0 /\ (~IsStack(x) \/ count >= x.count))
  BY <1>1, <1>2, <1>3, <1>4, <1>5, <1>7
<1>8. QED BY <1>6, <1>7

LEMMA MaxCountType ==
    ASSUME Sound(tree), NEW c \in Container, NEW x, NEW own \in Nat, NEW index, NEW count \in Nat
    PROVE  QueryMaxCount(c, x, own, index, count) \in Int
<1>1. PICK free, into : /\ free = GetFreeSlotsFor(c, x, own, count)
                        /\ into = IF index = Wherever THEN Mergeable(c, x, own)
                                  ELSE {index + 1} \cap Mergeable(c, x, own)
  OBVIOUS
<1>2. free \in Nat /\ StackSize \in Nat
  BY <1>1, FreeSlots, SizeAssumption
<1>3. Room(c, into) \in Nat
  BY <1>1, RoomType
<1>4. free * StackSize + Room(c, into) \in Int
  BY <1>2, <1>3
<1>5. Max({1, count}) \in Int
  BY MaxOfTwo
<1>6. QED BY <1>1, <1>2, <1>4, <1>5 DEF QueryMaxCount

(***************************************************************************)
(* A full container takes of an item from elsewhere no more than the stack *)
(* it is merged with has room for.                                         *)
(***************************************************************************)
LEMMA FullTakesWhatMerges ==
    ASSUME Sound(tree), NEW d, NEW x, Destined(d, x, 0), NEW count, d.to \notin Unlimited,
           ~(Len(itemlist[d.to]) < capacity[d.to]),
           NEW max, max = QueryMaxCount(d.to, x, 0, d.index, count), max > 0
    PROVE  /\ IsStack(x) /\ d.toItem \in Mergeable(d.to, x, 0)
           /\ max = StackSize - itemlist[d.to][d.toItem].count
<1>1. PICK c \in Container, i \in Int, j \in Int : c = d.to /\ i = d.index /\ j = d.toItem
  BY DEF Destined
<1>2. PICK free : free = GetFreeSlotsFor(c, x, 0, count)
  OBVIOUS
<1>3. free = 0
  BY <1>1, <1>2, FreeSlots
<1>4. PICK into : into = IF i = Wherever THEN Mergeable(c, x, 0) ELSE {i + 1} \cap Mergeable(c, x, 0)
  OBVIOUS
<1>5. max = IF IsStack(x) THEN free * StackSize + Room(c, into) ELSE free
  BY <1>1, <1>2, <1>4 DEF QueryMaxCount
<1>6. StackSize \in Nat /\ Room(c, into) \in Nat
  BY <1>4, SizeAssumption, RoomType
<1>7. IsStack(x) /\ max = Room(c, into)
  BY <1>3, <1>5, <1>6
<1>8. into # {}
  <2>1. ASSUME into = {} PROVE Room(c, into) = 0
    BY <2>1, RoomNone
  <2>2. QED BY <1>6, <1>7, <2>1
<1>9. /\ IF j = 0 THEN i + 1 \notin DOMAIN itemlist[c] ELSE j = i + 1
      /\ Mergeable(c, x, 0) = {} \/ j \in Mergeable(c, x, 0)
  BY <1>1 DEF Destined
<1>10. j \in Mergeable(c, x, 0) /\ j # 0 /\ i # Wherever
  <2>1. j \in Mergeable(c, x, 0)
    BY <1>4, <1>8, <1>9
  <2>2. j # 0
    BY <2>1, MergeableAre
  <2>3. QED BY <1>9, <2>1, <2>2 DEF Wherever
<1>11. into = {j}
  BY <1>4, <1>9, <1>10
<1>12. QED BY <1>1, <1>7, <1>10, <1>11, RoomOne

(***************************************************************************)
(* Game::internalMoveItem as a whole.                                      *)
(***************************************************************************)
LEMMA MoveItemMoves ==
    ASSUME Sound(tree), NEW at \in Container, NEW c \in Container, NEW j \in DOMAIN itemlist[at],
           NEW index \in Indexes(c), NEW count \in Counts(itemlist[at][j]),
           MoveItem(at, j, c, index, count)
    PROVE  \E x, d, m, r :
              /\ Moves(at, j, x, d, m) /\ MoveDone(at, x, d, m, r)
              /\ tree' = r /\ ledger' = ledger
              /\ at # d.to /\ d.to \notin Unlimited /\ ~(Len(itemlist[d.to]) < capacity[d.to])
                    => IsStack(x) /\ m <= Joined(x, d, m)
<1>1. PICK x, d : x = itemlist[at][j] /\ d = QueryDestination(at, j, c, index)
  OBVIOUS
<1>2. PICK own : own = Own(at, j, d.to)
  OBVIOUS
<1>3. PICK max : max = QueryMaxCount(d.to, x, own, d.index, count)
  OBVIOUS
<1>4. PICK m : m = IF IsStack(x) THEN Min({count, max}) ELSE max
  OBVIOUS
<1>5. PICK r : r = Moved(at, j, d, m)
  OBVIOUS
<1>6. /\ ~(d.to = at /\ d.toItem = j) /\ QueryAdd(d.to, x, own, d.index, count)
      /\ max > 0 /\ (IsStack(x) => m <= x.count) /\ Become(r) /\ ledger' = ledger
  BY <1>1, <1>2, <1>3, <1>4, <1>5 DEF MoveItem
<1>7. index \in Int
  BY DEF Indexes, Wherever, MoveUp
<1>8. Destined(d, x, own)
  BY <1>1, <1>2, <1>7, DestinationFound
<1>9. /\ x \in Item /\ j \in Nat \ {0} /\ own \in Nat /\ d.to \in Container
      /\ own = (IF at = d.to THEN j ELSE 0)
  BY <1>1, <1>2, <1>8, StateTree DEF Destined, Own
<1>10. count \in Nat \ {0}
  BY <1>1, SizeAssumption DEF Counts
<1>11. max \in Int
  BY <1>3, <1>9, <1>10, MaxCountType
<1>12. IsStack(x) => m = IF count <= max THEN count ELSE max
  BY <1>4, <1>10, <1>11, MinOfTwo
<1>13. IsStack(x) => m \in 1 .. x.count
  BY <1>6, <1>9, <1>10, <1>11, <1>12, Kinds
<1>14. Moves(at, j, x, d, m)
  BY <1>1, <1>2, <1>6, <1>8, <1>13 DEF Moves, QueryAdd
<1>15. MoveDone(at, x, d, m, r)
  BY <1>5, <1>14, MovedBag, MovedStack
<1>16. tree' = r
  <2>1. itemlist' = r.list /\ parent' = r.up /\ totalWeight' = r.weight
    BY <1>6 DEF Become
  <2>2. r \in Trees
    BY <1>15 DEF MoveDone, Sound
  <2>3. QED BY <2>1, <2>2, TreeIs DEF tree
<1>17. ASSUME at # d.to, d.to \notin Unlimited, ~(Len(itemlist[d.to]) < capacity[d.to])
       PROVE  IsStack(x) /\ m <= Joined(x, d, m)
  <2>1. own = 0
    BY <1>9, <1>17
  <2>2. PICK y : y = itemlist[d.to][d.toItem]
    OBVIOUS
  <2>3. IsStack(x) /\ d.toItem \in Mergeable(d.to, x, 0) /\ max = StackSize - y.count
    BY <1>3, <1>6, <1>8, <1>17, <2>1, <2>2, FullTakesWhatMerges
  <2>4. d.toItem > 0 /\ IsStack(y) /\ y.kind = x.kind
    BY <1>9, <2>2, <2>3, MergeableAre, StateTree
  <2>5. Joined(x, d, m) = Min({max, m})
    BY <2>2, <2>3, <2>4 DEF Joined
  <2>6. m \in Int /\ m <= max
    BY <1>10, <1>11, <1>12, <2>3
  <2>7. QED BY <1>11, <2>3, <2>5, <2>6, MinOfTwo
<1>18. QED BY <1>6, <1>14, <1>15, <1>16, <1>17

-----------------------------------------------------------------------------
(***************************************************************************)
(* Stacks that are filled in order.                                        *)
(***************************************************************************)
\* The sum of the first q values.
Prefix(f, q) == Total([i \in 1 .. q |-> f[i]])

LEMMA PrefixStep ==
    ASSUME NEW n \in Nat, NEW f \in [1 .. n -> Nat]
    PROVE  /\ Prefix(f, 0) = 0 /\ Prefix(f, n) = Total(f)
           /\ \A q \in 0 .. n : Prefix(f, q) \in Nat
           /\ \A q \in 1 .. n : Prefix(f, q) = Prefix(f, q - 1) + f[q]
<1>1. Prefix(f, 0) = 0
  <2>1. PICK g : g = [i \in 1 .. 0 |-> f[i]]
    OBVIOUS
  <2>2. \A i \in DOMAIN g : g[i] = 0
    BY <2>1
  <2>3. QED BY <2>1, <2>2, TotalZero DEF Prefix
<1>2. Prefix(f, n) = Total(f)
  <2>1. f = [i \in 1 .. n |-> f[i]]
    OBVIOUS
  <2>2. QED BY <2>1 DEF Prefix
<1>3. ASSUME NEW q \in 0 .. n PROVE Prefix(f, q) \in Nat
  <2>1. PICK D : D = 1 .. q
    OBVIOUS
  <2>2. PICK g : g = [i \in D |-> f[i]]
    OBVIOUS
  <2>3. IsFiniteSet(D) /\ g \in [D -> Nat]
    <3>1. IsFiniteSet(D)
      BY <2>1, FS_Interval
    <3>2. g \in [D -> Nat]
      BY <2>1, <2>2
    <3>3. QED BY <3>1, <3>2
  <2>4. Total(g) \in Nat
    BY <2>3, TotalFinite
  <2>5. QED BY <2>1, <2>2, <2>4 DEF Prefix
<1>4. ASSUME NEW q \in 1 .. n PROVE Prefix(f, q) = Prefix(f, q - 1) + f[q]
  <2>1. PICK D, R : D = 1 .. q /\ R = 1 .. q - 1
    OBVIOUS
  <2>2. PICK g, b : g = [i \in D |-> f[i]] /\ b = [i \in R |-> f[i]]
    OBVIOUS
  <2>3. IsFiniteSet(D) /\ g \in [D -> Nat] /\ q \in D
    <3>1. IsFiniteSet(D)
      BY <2>1, FS_Interval
    <3>2. g \in [D -> Nat] /\ q \in D
      BY <2>1, <2>2
    <3>3. QED BY <3>1, <3>2
  <2>4. R = D \ {q}
    BY <2>1
  <2>5. b \in [R -> Nat] /\ \A i \in R : b[i] = g[i]
    BY <2>1, <2>2
  <2>6. Total(b) \in Nat /\ Total(g) = g[q] + Total(b)
    <3>1. PICK i : i = q
      OBVIOUS
    <3>2. IsFiniteSet(D) /\ g \in [D -> Nat] /\ i \in D /\ R = D \ {i}
      BY <2>3, <2>4, <3>1
    <3>3. Total(b) \in Nat /\ Total(g) = g[i] + Total(b)
      <4>1. b \in [R -> Nat]
        BY <2>5
      <4>2. \A k \in R : b[k] = g[k]
        BY <2>5
      <4>3. Splits(D, g, i, R, b)
        BY <3>2, <4>1, <4>2 DEF Splits
      <4>4. QED BY <4>3, TotalSplit
    <3>4. QED BY <3>1, <3>3
  <2>7. Total(g) = Prefix(f, q) /\ Total(b) = Prefix(f, q - 1)
    BY <2>1, <2>2 DEF Prefix
  <2>8. g[q] = f[q] /\ f[q] \in Nat
    BY <2>1, <2>2
  <2>9. QED BY <2>6, <2>7, <2>8
<1>5. QED BY <1>1, <1>2, <1>3, <1>4

Lesser(a, b) == IF a <= b THEN a ELSE b

\* What a place with room for a takes of n units when p are taken before.
Fill(a, n, p) == IF n <= p THEN 0 ELSE Lesser(a, n - p)

LEMMA FillNext ==
    ASSUME NEW n \in Nat, NEW p \in Nat, NEW a \in Nat
    PROVE  /\ Lesser(n, p) + Fill(a, n, p) = Lesser(n, p + a)
           /\ Lesser(n, p) \in Nat /\ Fill(a, n, p) \in Nat
BY DEF Fill, Lesser

FilledTo(f, g, a, n, q) == Prefix(g, q) = Prefix(f, q) + Lesser(n, Prefix(a, q))

LEMMA TotalFilled ==
    ASSUME NEW h \in Nat, NEW n \in Nat, NEW a \in [1 .. h -> Nat],
           NEW f \in [1 .. h -> Nat], NEW g \in [1 .. h -> Nat],
           \A j \in 1 .. h : g[j] = f[j] + Fill(a[j], n, Prefix(a, j - 1))
    PROVE  Total(a) \in Nat /\ Total(g) = Total(f) + Lesser(n, Total(a))
<1>1. PICK bad : bad = {q \in 0 .. h : ~FilledTo(f, g, a, n, q)}
  OBVIOUS
<1>2. /\ Prefix(f, 0) = 0 /\ Prefix(g, 0) = 0 /\ Prefix(a, 0) = 0
      /\ Prefix(f, h) = Total(f) /\ Prefix(g, h) = Total(g) /\ Prefix(a, h) = Total(a)
  BY PrefixStep
<1>3. \A q \in 0 .. h : Prefix(f, q) \in Nat /\ Prefix(g, q) \in Nat /\ Prefix(a, q) \in Nat
  BY PrefixStep
<1>4. CASE bad # {}
  <2>1. PICK q : q = Min(bad)
    OBVIOUS
  <2>2. q \in bad /\ \A p \in bad : q <= p
    <3>1. bad \in SUBSET Nat
      BY <1>1
    <3>2. QED BY <1>4, <2>1, <3>1, Least
  <2>3. q \in 0 .. h /\ ~FilledTo(f, g, a, n, q)
    BY <1>1, <2>2
  <2>4. q # 0
    <3>1. FilledTo(f, g, a, n, 0)
      BY <1>2 DEF FilledTo, Lesser
    <3>2. QED BY <2>3, <3>1
  <2>5. PICK p : p = q - 1
    OBVIOUS
  <2>6. p \in 0 .. h /\ q \in 1 .. h /\ p \notin bad
    BY <2>2, <2>3, <2>4, <2>5
  <2>7. Prefix(g, p) = Prefix(f, p) + Lesser(n, Prefix(a, p))
    BY <1>1, <2>6 DEF FilledTo
  <2>8. /\ Prefix(g, q) = Prefix(g, p) + g[q] /\ Prefix(f, q) = Prefix(f, p) + f[q]
        /\ Prefix(a, q) = Prefix(a, p) + a[q]
    BY <2>5, <2>6, PrefixStep
  <2>9. Prefix(g, p) \in Nat /\ Prefix(f, p) \in Nat /\ Prefix(a, p) \in Nat
    BY <1>3, <2>6
  <2>10. g[q] = f[q] + Fill(a[q], n, Prefix(a, p)) /\ f[q] \in Nat /\ a[q] \in Nat
    BY <2>5, <2>6
  <2>11. Prefix(g, q) = Prefix(f, q) + Lesser(n, Prefix(a, q))
    <3>1. PICK b, c \in Nat : b = a[q] /\ c = Prefix(a, p)
      BY <2>9, <2>10
    <3>2. PICK l, i : l = Lesser(n, c) /\ i = Fill(b, n, c)
      OBVIOUS
    <3>3. l + i = Lesser(n, c + b) /\ l \in Nat /\ i \in Nat
      BY <3>2, FillNext
    <3>4. Prefix(g, q) = Prefix(f, p) + l + f[q] + i /\ Prefix(f, q) = Prefix(f, p) + f[q]
      BY <2>7, <2>8, <2>9, <2>10, <3>1, <3>2, <3>3
    <3>5. Prefix(g, q) = Prefix(f, q) + (l + i)
      BY <2>9, <2>10, <3>3, <3>4
    <3>6. QED BY <2>8, <3>1, <3>3, <3>5
  <2>12. QED BY <2>3, <2>11 DEF FilledTo
<1>5. CASE bad = {}
  <2>1. FilledTo(f, g, a, n, h)
    <3>1. h \in 0 .. h
      OBVIOUS
    <3>2. QED BY <1>1, <1>5, <3>1
  <2>2. Prefix(a, h) \in Nat
    BY <1>3
  <2>3. QED BY <1>2, <2>1, <2>2 DEF FilledTo
<1>6. QED BY <1>4, <1>5

\* As sums of what the items of two lists count for.
Equally(s, z, h, m) ==
    /\ s \in Seq(Item) /\ z \in Seq(Item) /\ Len(s) = h /\ Len(z) = h /\ m \in [Item -> Nat]

FillsUp(s, z, h, m, n, a) ==
    /\ Equally(s, z, h, m) /\ n \in Nat /\ a \in [1 .. h -> Nat]
    /\ \A j \in 1 .. h : m[z[j]] = m[s[j]] + Fill(a[j], n, Prefix(a, j - 1))

LEMMA SumFilled ==
    ASSUME NEW s, NEW z, NEW h, NEW m, NEW n, NEW a, FillsUp(s, z, h, m, n, a)
    PROVE  Sum(z, m) = Sum(s, m) + Lesser(n, Total(a))
<1> USE DEF Equally, FillsUp
<1>1. PICK f, g : f = [j \in DOMAIN s |-> m[s[j]]] /\ g = [j \in DOMAIN z |-> m[z[j]]]
  OBVIOUS
<1>3. DOMAIN s = 1 .. h /\ DOMAIN z = 1 .. h /\ h \in Nat
  BY ListType
<1>4. f \in [1 .. h -> Nat] /\ g \in [1 .. h -> Nat]
  BY <1>1, SumType
<1>5. \A j \in 1 .. h : g[j] = f[j] + Fill(a[j], n, Prefix(a, j - 1))
  BY <1>1, <1>3
<1>6. Total(g) = Total(f) + Lesser(n, Total(a))
  BY <1>3, <1>4, <1>5, TotalFilled
<1>7. QED BY <1>1, <1>6 DEF Sum

LEMMA SumSame ==
    ASSUME NEW s, NEW z, NEW h, NEW m, Equally(s, z, h, m), \A j \in 1 .. h : m[z[j]] = m[s[j]]
    PROVE  Sum(z, m) = Sum(s, m)
<1> USE DEF Equally
<1>1. DOMAIN s = 1 .. h /\ DOMAIN z = 1 .. h
  BY ListType
<1>2. [j \in DOMAIN z |-> m[z[j]]] = [j \in DOMAIN s |-> m[s[j]]]
  BY <1>1
<1>3. QED BY <1>2 DEF Sum

\* The room that each place of c has for x.
Space(c, x) ==
    [j \in 1 .. Len(itemlist[c]) |->
        IF j \in Mergeable(c, x, 0) THEN StackSize - itemlist[c][j].count ELSE 0]

LEMMA SpaceType ==
    ASSUME Sound(tree), NEW c \in Container, NEW x
    PROVE  Space(c, x) \in [1 .. Len(itemlist[c]) -> Nat]
<1>1. ASSUME NEW j \in Mergeable(c, x, 0) PROVE StackSize - itemlist[c][j].count \in Nat
  <2>1. itemlist[c][j] \in Stack
    BY MergeableAre, StateTree, Kinds
  <2>2. QED BY <2>1, SizeAssumption DEF Stack
<1>2. QED BY <1>1 DEF Space

\* The room of the stacks up to a place is the sum of what these have.
LEMMA SpaceIsRoom ==
    ASSUME Sound(tree), NEW c \in Container, NEW x, NEW q \in 0 .. Len(itemlist[c]),
           NEW S, S = {i \in Mergeable(c, x, 0) : i <= q}
    PROVE  Room(c, S) = Prefix(Space(c, x), q)
<1>1. PICK a, h : a = Space(c, x) /\ h = Len(itemlist[c])
  OBVIOUS
<1>2. a \in [1 .. h -> Nat] /\ h \in Nat /\ DOMAIN itemlist[c] = 1 .. h
  BY <1>1, SpaceType, StateTree
<1>3. PICK D : D = 1 .. q
  OBVIOUS
<1>4. PICK R : R = D \ S
  OBVIOUS
<1>5. S \subseteq D
  BY <1>2, <1>3, MergeableAre
<1>6. PICK f : f = [i \in D |-> a[i]]
  OBVIOUS
<1>7. f \in [D -> Nat] /\ IsFiniteSet(D) /\ Total(f) = Prefix(a, q)
  <2>1. f \in [D -> Nat]
    BY <1>1, <1>2, <1>3, <1>6
  <2>2. IsFiniteSet(D)
    BY <1>1, <1>2, <1>3, FS_Interval
  <2>3. QED BY <1>3, <1>6, <2>1, <2>2 DEF Prefix
<1>8. PICK f1, f2 : f1 = [i \in S |-> f[i]] /\ f2 = [i \in R |-> f[i]]
  OBVIOUS
<1>9. S \cup R = D /\ S \cap R = {}
  BY <1>4, <1>5
<1>10. Total(f) = Total(f1) + Total(f2)
  BY <1>7, <1>8, <1>9, TotalParts
<1>11. \A i \in D : i \in S => a[i] = StackSize - itemlist[c][i].count
  BY <1>1, <1>2, <1>3 DEF Space
<1>12. \A i \in D : i \notin S => a[i] = 0
  BY <1>1, <1>2, <1>3 DEF Space
<1>13. f1 = [i \in S |-> StackSize - itemlist[c][i].count]
  BY <1>5, <1>6, <1>8, <1>11
<1>14. Total(f2) = 0
  <2>1. \A i \in DOMAIN f2 : f2[i] = 0
    BY <1>4, <1>6, <1>8, <1>12
  <2>2. QED BY <2>1, TotalZero
<1>15. Total(f1) = Room(c, S) /\ Room(c, S) \in Nat
  BY <1>13, RoomType DEF Room
<1>16. QED BY <1>1, <1>7, <1>10, <1>14, <1>15

-----------------------------------------------------------------------------
(***************************************************************************)
(* Game::internalAddItem: every stack of the kind takes what it has room   *)
(* for of what the stacks before it left.                                  *)
(***************************************************************************)
Filled(c, x) ==
    [j \in DOMAIN itemlist[c] |->
        IF j \in Mergeable(c, x, 0)
        THEN [itemlist[c][j] EXCEPT !.count = Min({StackSize, @ + Reaches(c, x, j)})]
        ELSE itemlist[c][j]]

Gain(c, x, j) == Fill(Space(c, x)[j], x.count, Prefix(Space(c, x), j - 1))

LEMMA FilledPlace ==
    ASSUME Sound(tree), NEW c \in Container, NEW x \in Stack, NEW j \in DOMAIN itemlist[c]
    PROVE  /\ Gain(c, x, j) \in Nat
           /\ j \in Mergeable(c, x, 0) =>
                 /\ itemlist[c][j] \in Stack /\ itemlist[c][j].kind = x.kind
                 /\ itemlist[c][j].count + Gain(c, x, j) \in 1 .. StackSize
                 /\ Filled(c, x)[j] = Recount(itemlist[c][j], itemlist[c][j].count + Gain(c, x, j))
           /\ j \notin Mergeable(c, x, 0) => Gain(c, x, j) = 0 /\ Filled(c, x)[j] = itemlist[c][j]
<1>1. PICK a, h, y, n : /\ a = Space(c, x) /\ h = Len(itemlist[c]) /\ y = itemlist[c][j]
                        /\ n = x.count
  OBVIOUS
<1>2. /\ a \in [1 .. h -> Nat] /\ h \in Nat /\ j \in 1 .. h /\ n \in Nat /\ y \in Item
      /\ StackSize \in Nat
  BY <1>1, SpaceType, StateTree, Kinds, SizeAssumption
<1>3. PICK p : p = Prefix(a, j - 1)
  OBVIOUS
<1>4. PICK b : b = a[j]
  OBVIOUS
<1>5. p \in Nat /\ b \in Nat
  BY <1>2, <1>3, <1>4, PrefixStep
<1>6. PICK g : g = Fill(b, n, p)
  OBVIOUS
<1>7. g = Gain(c, x, j) /\ g \in Nat
  BY <1>1, <1>3, <1>4, <1>5, <1>6, <1>2, FillNext DEF Gain
<1>8. CASE j \in Mergeable(c, x, 0)
  <2>1. y \in Stack /\ y.kind = x.kind /\ y.count \in 1 .. StackSize /\ y.count < StackSize
    BY <1>1, <1>2, <1>8, MergeableAre, Kinds DEF Stack
  <2>2. b = StackSize - y.count
    BY <1>1, <1>2, <1>4, <1>8 DEF Space
  <2>3. PICK S : S = {i \in Mergeable(c, x, 0) : i < j}
    OBVIOUS
  <2>4. S = {i \in Mergeable(c, x, 0) : i <= j - 1}
    BY <1>1, <1>2, <2>3, MergeableAre, StateTree
  <2>5. j - 1 \in 0 .. h
    BY <1>2
  <2>6. Room(c, S) = p
    BY <1>1, <1>3, <2>4, <2>5, SpaceIsRoom
  <2>7. PICK q : q = Reaches(c, x, j)
    OBVIOUS
  <2>8. q = Max({0, n - p})
    BY <1>1, <2>3, <2>6, <2>7 DEF Reaches
  <2>9. q = IF n <= p THEN 0 ELSE n - p
    BY <1>2, <1>5, <2>8, MaxOfTwo
  <2>10. PICK e : e = y.count + q
    OBVIOUS
  <2>11. e \in Int
    BY <1>2, <1>5, <2>1, <2>9, <2>10
  <2>12. Min({StackSize, e}) = IF StackSize <= e THEN StackSize ELSE e
    BY <1>2, <2>11, MinOfTwo
  <2>13. Min({StackSize, e}) = y.count + g /\ y.count + g \in 1 .. StackSize
    <3>1. y.count \in Nat
      BY <2>1
    <3>2. CASE n <= p
      BY <1>2, <1>5, <1>6, <2>1, <2>9, <2>10, <2>12, <3>1, <3>2 DEF Fill
    <3>3. CASE ~(n <= p) /\ b <= n - p
      BY <1>2, <1>5, <1>6, <2>1, <2>2, <2>9, <2>10, <2>12, <3>1, <3>3 DEF Fill, Lesser
    <3>4. CASE ~(n <= p) /\ ~(b <= n - p)
      BY <1>2, <1>5, <1>6, <2>1, <2>2, <2>9, <2>10, <2>12, <3>1, <3>4 DEF Fill, Lesser
    <3>5. QED BY <3>2, <3>3, <3>4
  <2>14. Filled(c, x)[j] = [y EXCEPT !.count = Min({StackSize, y.count + q})]
    BY <1>1, <1>8, <2>1, <2>7 DEF Filled, Stack
  <2>15. Filled(c, x)[j] = Recount(y, y.count + g)
    BY <2>10, <2>13, <2>14 DEF Recount
  <2>16. QED BY <1>1, <1>7, <1>8, <2>1, <2>13, <2>15
<1>9. CASE j \notin Mergeable(c, x, 0)
  <2>1. b = 0
    BY <1>1, <1>2, <1>4, <1>9 DEF Space
  <2>2. g = 0
    BY <1>2, <1>5, <1>6, <2>1 DEF Fill, Lesser
  <2>3. QED BY <1>7, <1>9, <2>2 DEF Filled
<1>10. QED BY <1>8, <1>9

LEMMA FilledItems ==
    ASSUME Sound(tree), NEW c \in Container, NEW x \in Stack, NEW j \in DOMAIN itemlist[c],
           NEW z, z = Filled(c, x), NEW y, y = itemlist[c][j]
    PROVE  /\ z[j] \in Item /\ Gain(c, x, j) \in Nat
           /\ y \in Bag \/ z[j] \in Bag => z[j] = y
           /\ Weight(tree, z[j]) = Weight(tree, y) + Gain(c, x, j)
           /\ Count(z[j], x.kind) = Count(y, x.kind) + Gain(c, x, j)
           /\ \A k : k # x.kind => Count(z[j], k) = Count(y, k)
<1>1. PICK g : g = Gain(c, x, j)
  OBVIOUS
<1>2. /\ g \in Nat /\ y \in Item
      /\ j \in Mergeable(c, x, 0) =>
            /\ y \in Stack /\ y.kind = x.kind /\ y.count + g \in 1 .. StackSize
            /\ z[j] = Recount(y, y.count + g)
      /\ j \notin Mergeable(c, x, 0) => g = 0 /\ z[j] = y
  BY <1>1, FilledPlace, StateTree
<1>3. CASE j \in Mergeable(c, x, 0)
  <2>1. PICK q : q = y.count + g
    OBVIOUS
  <2>2. PICK u : u = z[j]
    OBVIOUS
  <2>3. u \in Stack /\ u.count = q /\ u.kind = x.kind
    <3>1. q \in 1 .. StackSize /\ u = [y EXCEPT !.count = q] /\ y \in Stack /\ y.kind = x.kind
      BY <1>2, <1>3, <2>1, <2>2 DEF Recount
    <3>2. QED BY <3>1, StackWith
  <2>4. IsStack(u) /\ u \in Item /\ u \notin Bag /\ IsStack(y) /\ y \notin Bag
    BY <1>2, <1>3, <2>3, Kinds
  <2>5. QED BY <1>1, <1>2, <1>3, <2>1, <2>2, <2>3, <2>4 DEF Weight, Count
<1>4. CASE j \notin Mergeable(c, x, 0)
  <2>1. Weight(tree, y) \in Nat /\ Count(y, x.kind) \in Nat
    <3>1. Weight(tree, y) \in Nat
      BY <1>2, StateTree, Kinds DEF Weight
    <3>2. Count(y, x.kind) \in Nat
      BY <1>2, Kinds DEF Count
    <3>3. QED BY <3>1, <3>2
  <2>2. QED BY <1>1, <1>2, <1>4, <2>1
<1>5. QED BY <1>3, <1>4

LEMMA FilledList ==
    ASSUME Sound(tree), NEW c \in Container, NEW x \in Stack, NEW z, z = Filled(c, x),
           NEW w, w = Lesser(x.count, Total(Space(c, x)))
    PROVE  /\ z \in Seq(Item) /\ Len(z) = Len(itemlist[c]) /\ SameBags(itemlist[c], z)
           /\ w \in Int /\ Total(Space(c, x)) \in Nat
           /\ Total(Load(tree, z)) = totalWeight[c] + w
           /\ \A k : Units(z, k) = Units(itemlist[c], k) + Share(x, k, w)
<1>1. PICK s, h, a, n : s = itemlist[c] /\ h = Len(s) /\ a = Space(c, x) /\ n = x.count
  OBVIOUS
<1>2. /\ s \in Seq(Item) /\ DOMAIN s = 1 .. h /\ h \in Nat /\ a \in [1 .. h -> Nat]
      /\ n \in Nat /\ IsStack(x)
  BY <1>1, StateTree, SpaceType, Kinds
<1>3. DOMAIN z = 1 .. h
  BY <1>1, <1>2 DEF Filled
<1>4. ASSUME NEW j \in 1 .. h
      PROVE  /\ z[j] \in Item
             /\ s[j] \in Bag \/ z[j] \in Bag => z[j] = s[j]
             /\ Weight(tree, z[j]) = Weight(tree, s[j]) + Fill(a[j], n, Prefix(a, j - 1))
             /\ Count(z[j], x.kind) = Count(s[j], x.kind) + Fill(a[j], n, Prefix(a, j - 1))
             /\ \A k : k # x.kind => Count(z[j], k) = Count(s[j], k)
  <2>1. PICK y, g : y = s[j] /\ g = Gain(c, x, j)
    OBVIOUS
  <2>2. j \in DOMAIN itemlist[c] /\ y = itemlist[c][j]
    BY <1>1, <1>2, <2>1
  <2>3. /\ z[j] \in Item
        /\ y \in Bag \/ z[j] \in Bag => z[j] = y
        /\ Weight(tree, z[j]) = Weight(tree, y) + g
        /\ Count(z[j], x.kind) = Count(y, x.kind) + g
        /\ \A k : k # x.kind => Count(z[j], k) = Count(y, k)
    BY <2>1, <2>2, FilledItems
  <2>4. g = Fill(a[j], n, Prefix(a, j - 1))
    BY <1>1, <2>1 DEF Gain
  <2>5. QED BY <2>1, <2>3, <2>4
<1>5. z \in Seq(Item) /\ Len(z) = h
  <2>1. z \in [1 .. h -> Item]
    BY <1>3, <1>4 DEF Filled
  <2>2. QED BY <1>2, <2>1
<1>6. SameBags(s, z)
  BY <1>2, <1>3, <1>4 DEF SameBags
<1>7. Total(a) \in Nat
  BY <1>2, PrefixStep
<1>8. w \in Nat /\ w = Lesser(n, Total(a))
  BY <1>1, <1>2, <1>7 DEF Lesser
<1>9. Total(Load(tree, z)) = totalWeight[c] + w
  <2>1. PICK m \in [Item -> Nat] : /\ \A q \in Item : m[q] = Weight(tree, q)
                                   /\ \A q \in Seq(Item) : Total(Load(tree, q)) = Sum(q, m)
    BY StateTree, LoadIsSum
  <2>2. \A j \in 1 .. h : m[z[j]] = m[s[j]] + Fill(a[j], n, Prefix(a, j - 1))
    BY <1>2, <1>4, <2>1, ListType
  <2>6. Equally(s, z, h, m)
    BY <1>1, <1>2, <1>5 DEF Equally
  <2>3. Sum(z, m) = Sum(s, m) + w
    <3>1. FillsUp(s, z, h, m, n, a)
      BY <1>2, <2>2, <2>6 DEF FillsUp
    <3>2. QED BY <1>8, <3>1, SumFilled
  <2>4. Total(Load(tree, s)) = totalWeight[c]
    BY <1>1, StateTree DEF Sound, Weighed
  <2>5. QED BY <1>2, <1>5, <2>1, <2>3, <2>4
<1>10. ASSUME NEW k PROVE Units(z, k) = Units(s, k) + Share(x, k, w)
  <2>1. PICK m \in [Item -> Nat] : /\ \A q \in Item : m[q] = Count(q, k)
                                   /\ \A q \in Seq(Item) : Units(q, k) = Sum(q, m)
    BY UnitsIsSum
  <2>2. CASE k = x.kind
    <3>1. \A j \in 1 .. h : m[z[j]] = m[s[j]] + Fill(a[j], n, Prefix(a, j - 1))
      BY <1>2, <1>4, <2>1, <2>2, ListType
    <3>4. Equally(s, z, h, m)
      BY <1>1, <1>2, <1>5 DEF Equally
    <3>2. Sum(z, m) = Sum(s, m) + w
      <4>1. FillsUp(s, z, h, m, n, a)
        BY <1>2, <3>1, <3>4 DEF FillsUp
      <4>2. QED BY <1>8, <4>1, SumFilled
    <3>3. QED BY <1>2, <1>5, <2>1, <2>2, <3>2 DEF Share
  <2>3. CASE k # x.kind
    <3>1. \A j \in 1 .. h : m[z[j]] = m[s[j]]
      BY <1>2, <1>4, <2>1, <2>3, ListType
    <3>4. Equally(s, z, h, m)
      BY <1>1, <1>2, <1>5 DEF Equally
    <3>2. Sum(z, m) = Sum(s, m) /\ Sum(s, m) \in Nat
      BY <1>2, <3>1, <3>4, SumSame, SumType
    <3>3. QED BY <1>2, <1>5, <2>1, <2>3, <3>2 DEF Share
  <2>4. QED BY <2>2, <2>3
<1>11. QED BY <1>1, <1>5, <1>6, <1>7, <1>8, <1>9, <1>10

LEMMA AddedDone ==
    ASSUME Sound(tree), NEW c \in Container, NEW x \in Stack, NEW r, r = Added(c, x)
    PROVE  /\ Sound(r) /\ Only(tree, r, c) /\ r.up = parent
           /\ \A k : Held(r, k) = Held(tree, k) + Share(x, k, x.count)
           /\ Len(r.list[c]) <= Len(itemlist[c]) + 1
           /\ x.count <= Room(c, Mergeable(c, x, 0)) => Len(r.list[c]) = Len(itemlist[c])
<1>1. PICK n, into, R, z, w, h : /\ n = x.count /\ into = Mergeable(c, x, 0) /\ R = Room(c, into)
                                 /\ z = Filled(c, x) /\ w = Lesser(n, R) /\ h = Len(itemlist[c])
  OBVIOUS
<1>2. n \in 1 .. StackSize /\ StackSize \in Nat /\ h \in Nat /\ IsStack(x) /\ x \in Item
  BY <1>1, SizeAssumption, StateTree, Kinds DEF Stack
<1>3. R = Total(Space(c, x)) /\ R \in Nat
  <2>1. PICK a : a = Space(c, x)
    OBVIOUS
  <2>2. a \in [1 .. h -> Nat]
    BY <1>1, <2>1, SpaceType
  <2>3. h \in 0 .. Len(itemlist[c])
    BY <1>1, <1>2
  <2>4. into = {i \in Mergeable(c, x, 0) : i <= h}
    BY <1>1, <1>2, MergeableAre, StateTree
  <2>5. R = Prefix(a, h)
    BY <1>1, <2>1, <2>3, <2>4, SpaceIsRoom
  <2>6. Prefix(a, h) = Total(a) /\ Total(a) \in Nat
    <3>1. Prefix(a, h) = Total(a) /\ \A q \in 0 .. h : Prefix(a, q) \in Nat
      BY <1>2, <2>2, PrefixStep
    <3>2. h \in 0 .. h
      BY <1>2
    <3>3. QED BY <3>1, <3>2
  <2>7. QED BY <2>1, <2>5, <2>6
<1>4. /\ z \in Seq(Item) /\ Len(z) = h /\ SameBags(itemlist[c], z) /\ w \in Int
      /\ Total(Load(tree, z)) = totalWeight[c] + w
      /\ \A k : Units(z, k) = Units(itemlist[c], k) + Share(x, k, w)
  BY <1>1, <1>3, FilledList
<1>5. PICK rest : rest = Max({0, n - R})
  OBVIOUS
<1>6. rest = (IF n <= R THEN 0 ELSE n - R) /\ n - rest = w
  <2>1. n - R \in Int
    BY <1>2, <1>3
  <2>2. rest = IF 0 >= n - R THEN 0 ELSE n - R
    BY <1>5, <2>1, MaxOfTwo
  <2>3. QED BY <1>1, <1>2, <1>3, <2>2 DEF Lesser
<1>7. PICK t : t = UpdateItemWeight([tree EXCEPT !.list[c] = z], c, w)
  OBVIOUS
<1>8. PICK y : y = [x EXCEPT !.count = rest]
  OBVIOUS
<1>9. r = IF rest > 0 THEN AddThing(t, c, Wherever, y) ELSE t
  BY <1>1, <1>5, <1>6, <1>7, <1>8 DEF Added, Filled
<1>10. Sound(t) /\ t.list[c] = z /\ Only(tree, t, c) /\ t.up = parent
  <2>1. PICK q : q = tree
    OBVIOUS
  <2>2. [tree EXCEPT !.list[c] = z] = [list |-> [q.list EXCEPT ![c] = z], up |-> q.up, weight |-> q.weight]
    BY <2>1 DEF tree
  <2>3. Changed(q, t, c, z, q.up, w)
    BY <1>7, <2>2, UpdateChanges
  <2>4. Sound(q) /\ SameBags(q.list[c], z) /\ Total(Load(q, z)) = q.weight[c] + w /\ q \in Trees
    BY <1>4, <2>1, StateTree
  <2>5. Fits(q, c, z, q.up, w)
    BY <1>4, <2>4, SameBagsFits
  <2>6. Sound(t)
    BY <2>3, <2>4, <2>5, ChangedSound
  <2>7. t.up = q.up /\ t.list[c] = z /\ Only(q, t, c)
    BY <2>3, <2>4, ChangedParts DEF Only
  <2>8. QED BY <2>1, <2>6, <2>7, StateTree
<1>11. ASSUME NEW k PROVE Held(t, k) = Held(tree, k) + Share(x, k, w) /\ Held(tree, k) \in Nat
  <2>1. PICK q, s : q = tree /\ s = itemlist[c]
    OBVIOUS
  <2>2. Held(t, k) = Held(q, k) + Units(t.list[c], k) - Units(q.list[c], k)
    <3>1. q \in Trees /\ t \in Trees /\ Only(q, t, c)
      BY <1>10, <2>1, StateTree DEF Sound
    <3>2. QED BY <3>1, HeldByOne
  <2>3. q.list[c] = s /\ s \in Seq(Item)
    BY <2>1, StateTree
  <2>4. Units(s, k) \in Nat /\ Held(q, k) \in Nat
    BY <2>1, <2>3, UnitsType, HeldType, StateTree
  <2>5. Units(z, k) = Units(s, k) + Share(x, k, w)
    BY <1>4, <2>1
  <2>6. Share(x, k, w) \in Int
    BY <1>4 DEF Share
  <2>7. QED BY <1>10, <2>1, <2>2, <2>3, <2>4, <2>5, <2>6
<1>12. CASE n <= R
  <2>1. r = t /\ w = n
    BY <1>1, <1>2, <1>3, <1>6, <1>9, <1>12 DEF Lesser
  <2>2. QED BY <1>1, <1>2, <1>4, <1>10, <1>11, <2>1
<1>13. CASE ~(n <= R)
  <2>1. rest \in 1 .. StackSize /\ rest > 0 /\ rest \in Nat /\ w = n - rest
    BY <1>2, <1>3, <1>6, <1>13
  <2>2. y \in Stack /\ y.count = rest /\ y.kind = x.kind /\ y \in Item /\ IsStack(y)
    BY <1>8, <2>1, StackWith, Kinds
  <2>3. PICK i \in Int : i = Wherever /\ i < capacity[c]
    BY SizeAssumption DEF Wherever
  <2>4. r = AddThing(t, c, i, y)
    BY <1>9, <2>1, <2>3
  <2>5. /\ Sound(r) /\ Only(t, r, c) /\ r.up = UpWith(t, y, c)
        /\ Len(r.list[c]) = Len(t.list[c]) + 1
        /\ \A k : Held(r, k) = Held(t, k) + Count(y, k)
    BY <1>10, <2>2, <2>3, <2>4, AddThingStores
  <2>6. r.up = parent
    BY <1>10, <2>2, <2>5 DEF UpWith
  <2>7. Only(tree, r, c)
    BY <1>10, <2>5 DEF Only
  <2>8. ASSUME NEW k PROVE Held(r, k) = Held(tree, k) + Share(x, k, n)
    <3>1. CASE x.kind = k
      <4>1. Share(x, k, w) = w /\ Share(x, k, n) = n /\ Count(y, k) = rest
        BY <1>2, <2>2, <3>1 DEF Share, Count
      <4>2. QED BY <1>2, <1>11, <2>1, <2>5, <4>1
    <3>2. CASE x.kind # k
      <4>1. Share(x, k, w) = 0 /\ Share(x, k, n) = 0 /\ Count(y, k) = 0
        BY <2>2, <3>2 DEF Share, Count
      <4>2. QED BY <1>11, <2>5, <4>1
    <3>3. QED BY <3>1, <3>2
  <2>9. Len(r.list[c]) = h + 1
    BY <1>4, <1>10, <2>5
  <2>10. QED BY <1>1, <1>2, <1>13, <2>5, <2>6, <2>7, <2>8, <2>9
<1>14. QED BY <1>12, <1>13

(***************************************************************************)
(* Game::internalAddItem as a whole.  In a full container the new units    *)
(* need no place of their own.                                             *)
(***************************************************************************)
LEMMA AddItemAdds ==
    ASSUME Sound(tree), NEW c \in Container, NEW k \in Kind, NEW n \in 1 .. StackSize, AddItem(c, k, n)
    PROVE  \E r : /\ Sound(r) /\ Only(tree, r, c) /\ r.up = parent /\ tree' = r
                  /\ \A l : Held(r, l) = Held(tree, l) + IF l = k THEN n ELSE 0
                  /\ Len(r.list[c]) <= Len(itemlist[c]) + 1
                  /\ c \notin Unlimited /\ ~(Len(itemlist[c]) < capacity[c])
                        => Len(r.list[c]) = Len(itemlist[c])
                  /\ Total(ledger) + n <= MaxUnits /\ ledger' = [ledger EXCEPT ![k] = @ + n]
<1>1. PICK x : x = [kind |-> k, count |-> n]
  OBVIOUS
<1>2. x \in Stack /\ x.count = n /\ x.kind = k /\ IsStack(x)
  BY <1>1, Kinds DEF Stack
<1>3. PICK r : r = Added(c, x)
  OBVIOUS
<1>4. /\ QueryMaxCount(c, x, 0, Wherever, n) >= n /\ Become(r)
      /\ Total(ledger) + n <= MaxUnits /\ ledger' = [ledger EXCEPT ![k] = @ + n]
  BY <1>1, <1>3 DEF AddItem
<1>5. /\ Sound(r) /\ Only(tree, r, c) /\ r.up = parent
      /\ \A l : Held(r, l) = Held(tree, l) + Share(x, l, n)
      /\ Len(r.list[c]) <= Len(itemlist[c]) + 1
      /\ n <= Room(c, Mergeable(c, x, 0)) => Len(r.list[c]) = Len(itemlist[c])
  BY <1>2, <1>3, AddedDone
<1>6. tree' = r
  <2>1. itemlist' = r.list /\ parent' = r.up /\ totalWeight' = r.weight
    BY <1>4 DEF Become
  <2>2. r \in Trees
    BY <1>5 DEF Sound
  <2>3. QED BY <2>1, <2>2, TreeIs DEF tree
<1>7. ASSUME c \notin Unlimited, ~(Len(itemlist[c]) < capacity[c])
      PROVE  Len(r.list[c]) = Len(itemlist[c])
  <2>1. PICK free : free = GetFreeSlotsFor(c, x, 0, n)
    OBVIOUS
  <2>2. free = 0
    BY <1>7, <2>1, FreeSlots
  <2>3. PICK R : R = Room(c, Mergeable(c, x, 0))
    OBVIOUS
  <2>4. R \in Nat /\ StackSize \in Nat
    BY <2>3, RoomType, SizeAssumption
  <2>5. QueryMaxCount(c, x, 0, Wherever, n) = free * StackSize + R
    BY <1>2, <1>7, <2>1, <2>3 DEF QueryMaxCount
  <2>6. n <= R
    BY <1>4, <2>2, <2>4, <2>5
  <2>7. QED BY <1>5, <2>3, <2>6
<1>8. \A l : Share(x, l, n) = IF l = k THEN n ELSE 0
  BY <1>2 DEF Share
<1>9. \A l : Held(r, l) = Held(tree, l) + IF l = k THEN n ELSE 0
  BY <1>5, <1>8
<1>10. QED BY <1>4, <1>5, <1>6, <1>7, <1>9

\* internalAddItem with a container.
LEMMA AddBagAdds ==
    ASSUME Sound(tree), NEW c \in Container, NEW b \in Bag, AddBag(c, b)
    PROVE  \E r : /\ Sound(r) /\ Only(tree, r, c) /\ tree' = r /\ ledger' = ledger
                  /\ \A k : Held(r, k) = Held(tree, k)
                  /\ Len(r.list[c]) = Len(itemlist[c]) + 1
                  /\ c \notin Unlimited => Len(itemlist[c]) < capacity[c]
<1>1. PICK w, r : w = tree /\ r = AddThing(tree, c, Wherever, b)
  OBVIOUS
<1>2. /\ parent[b] = Virtual /\ b \notin Chain(parent, c) /\ QueryMaxCount(c, b, 0, Wherever, 1) > 0
      /\ Become(r) /\ ledger' = ledger /\ ~IsStack(b) /\ b \in Item
  BY <1>1, Kinds DEF AddBag, QueryAdd
<1>3. PICK i \in Int : i = Wherever /\ i < capacity[c]
  BY SizeAssumption DEF Wherever
<1>4. /\ Sound(w) /\ r = AddThing(w, c, i, b) /\ b \notin Chain(w.up, c) /\ w.up[b] \notin Container
      /\ w.list = itemlist
  BY <1>1, <1>2, <1>3, StateTree, SizeAssumption
<1>5. /\ Sound(r) /\ Only(w, r, c) /\ Len(r.list[c]) = Len(w.list[c]) + 1
      /\ \A k : Held(r, k) = Held(w, k) + Count(b, k)
  BY <1>2, <1>3, <1>4, AddThingStores
<1>6. ASSUME NEW k PROVE Held(r, k) = Held(tree, k)
  <2>1. Count(b, k) = 0 /\ Held(w, k) \in Nat
    BY <1>2, <1>4, HeldType DEF Count, Sound
  <2>2. QED BY <1>1, <1>5, <2>1
<1>7. tree' = r
  <2>1. itemlist' = r.list /\ parent' = r.up /\ totalWeight' = r.weight
    BY <1>2 DEF Become
  <2>2. r \in Trees
    BY <1>5 DEF Sound
  <2>3. QED BY <2>1, <2>2, TreeIs DEF tree
<1>8. ASSUME c \notin Unlimited PROVE Len(itemlist[c]) < capacity[c]
  <2>1. PICK free : free = GetFreeSlotsFor(c, b, 0, 1)
    OBVIOUS
  <2>2. free > 0
    BY <1>2, <1>8, <2>1 DEF QueryMaxCount
  <2>3. QED BY <2>1, <2>2, FreeSlots
<1>9. QED BY <1>1, <1>2, <1>4, <1>5, <1>6, <1>7, <1>8

-----------------------------------------------------------------------------
(***************************************************************************)
(* Game::internalRemoveItem: a container is released with all it holds.    *)
(***************************************************************************)
Within(up, x) == {d \in Container : x \in Chain(up, d)}

\* The tree without the containers of a set.
Emptied(t, inside) ==
    [list   |-> [d \in Container |-> IF d \in inside THEN <<>> ELSE t.list[d]],
     up     |-> [d \in Container |-> IF d \in inside THEN Gone ELSE t.up[d]],
     weight |-> [d \in Container |-> IF d \in inside THEN 0 ELSE t.weight[d]]]

\* What is within x when x has left its container: nothing else reaches into it.
Apart(t, inside) ==
    /\ inside \subseteq Container /\ inside \cap Outer = {}
    /\ \A b \in Bag : b \in inside => t.up[b] \in inside \/ t.up[b] \notin Container
    /\ \A b \in Bag : b \notin inside => t.up[b] \notin inside

LEMMA WithinApart ==
    ASSUME NEW t, Sound(t), NEW x \in Bag, NEW r, r.up = UpWith(t, x, Gone)
    PROVE  Apart(r, Within(t.up, x))
<1>1. PICK inside : inside = Within(t.up, x)
  OBVIOUS
<1>2. /\ t \in Trees /\ x \in Item /\ ~IsStack(x) /\ x \in Container /\ Gone \in Container \cup Elsewhere
      /\ Gone \notin Container /\ World \notin Container
  BY Kinds, SizeAssumption DEF Sound, Elsewhere
<1>3. r.up[x] = Gone /\ \A d \in Container : d # x => r.up[d] = t.up[d]
  BY <1>2, UpWithType
<1>4. x \in inside
  BY <1>1, <1>2, ChainSelf DEF Within
<1>5. ASSUME NEW d \in Container, d # x
      PROVE  d \in inside <=> (t.up[d] \in Container /\ t.up[d] \in inside)
  <2>1. ASSUME d \in inside PROVE t.up[d] \in Container /\ t.up[d] \in inside
    <3>1. x \in Chain(t.up, d)
      BY <1>1, <2>1 DEF Within
    <3>2. t.up[d] \in Container /\ x \in Chain(t.up, t.up[d])
      BY <1>5, <3>1, ChainStep
    <3>3. QED BY <1>1, <3>2 DEF Within
  <2>2. ASSUME t.up[d] \in Container, t.up[d] \in inside PROVE d \in inside
    <3>1. x \in Chain(t.up, t.up[d])
      BY <1>1, <2>2 DEF Within
    <3>2. t.up[d] \in Chain(t.up, d)
      BY <2>2, ChainSelf, ChainClosed DEF Closed
    <3>3. Chain(t.up, t.up[d]) \subseteq Chain(t.up, d)
      BY <3>2, ChainAbove
    <3>4. QED BY <1>1, <3>1, <3>3 DEF Within
  <2>3. QED BY <2>1, <2>2
<1>6. inside \subseteq Container
  BY <1>1 DEF Within
<1>7. inside \cap Outer = {}
  <2>1. SUFFICES ASSUME NEW d \in Outer, d \in inside PROVE FALSE
    OBVIOUS
  <2>2. d \in Container /\ d # x
    BY SizeAssumption DEF Container
  <2>3. t.up[d] \in Container
    BY <1>5, <2>1, <2>2
  <2>4. t.up[d] = World
    BY DEF Sound, Rooted
  <2>5. QED BY <1>2, <2>3, <2>4
<1>8. ASSUME NEW b \in Bag, b \in inside PROVE r.up[b] \in inside \/ r.up[b] \notin Container
  BY <1>2, <1>3, <1>5, <1>8, Kinds
<1>9. ASSUME NEW b \in Bag, b \notin inside PROVE r.up[b] \notin inside
  <2>1. b # x /\ b \in Container
    BY <1>4, <1>9, Kinds
  <2>2. QED BY <1>3, <1>5, <1>6, <1>9, <2>1
<1>10. QED BY <1>1, <1>6, <1>7, <1>8, <1>9 DEF Apart

LEMMA EmptiedIs ==
    ASSUME NEW t, Sound(t), NEW inside, NEW r, r = Emptied(t, inside)
    PROVE  /\ r \in Trees
           /\ \A d \in Container : d \in inside => r.list[d] = <<>> /\ r.up[d] = Gone /\ r.weight[d] = 0
           /\ \A d \in Container : d \notin inside =>
                 r.list[d] = t.list[d] /\ r.up[d] = t.up[d] /\ r.weight[d] = t.weight[d]
<1>1. PICK l, u, w : l = r.list /\ u = r.up /\ w = r.weight
  OBVIOUS
<1>2. /\ l = [d \in Container |-> IF d \in inside THEN <<>> ELSE t.list[d]]
      /\ u = [d \in Container |-> IF d \in inside THEN Gone ELSE t.up[d]]
      /\ w = [d \in Container |-> IF d \in inside THEN 0 ELSE t.weight[d]]
      /\ r = [list |-> l, up |-> u, weight |-> w]
  BY <1>1 DEF Emptied
<1>3. /\ t.list \in [Container -> Seq(Item)] /\ t.weight \in [Container -> Nat]
      /\ t.up \in [Container -> Container \cup Elsewhere]
  BY TreeParts DEF Sound
<1>4. /\ <<>> \in Seq(Item) /\ Gone \in Container \cup Elsewhere
  BY EmptySeq DEF Elsewhere
<1>5. l \in [Container -> Seq(Item)]
  BY <1>2, <1>3, <1>4
<1>6. u \in [Container -> Container \cup Elsewhere]
  BY <1>2, <1>3, <1>4
<1>7. w \in [Container -> Nat]
  BY <1>2, <1>3
<1>8. r \in Trees
  BY <1>2, <1>5, <1>6, <1>7 DEF Trees
<1>9. QED BY <1>1, <1>2, <1>8

LEMMA EmptiedSound ==
    ASSUME NEW t, Sound(t), NEW inside, Apart(t, inside), NEW r, r = Emptied(t, inside)
    PROVE  Sound(r)
<1>1. /\ r \in Trees
      /\ \A d \in Container : d \in inside => r.list[d] = <<>> /\ r.up[d] = Gone /\ r.weight[d] = 0
      /\ \A d \in Container : d \notin inside =>
            r.list[d] = t.list[d] /\ r.up[d] = t.up[d] /\ r.weight[d] = t.weight[d]
  BY EmptiedIs
<1>2. Gone \notin Container
  BY SizeAssumption
<1>3. ASSUME NEW b \in Bag, NEW e \in Container
      PROVE  IF r.up[b] = e THEN Once(r.list[e], b) ELSE At(r.list[e], b) = {}
  <2>1. b \in Container /\ IF t.up[b] = e THEN Once(t.list[e], b) ELSE At(t.list[e], b) = {}
    BY Kinds DEF Sound, Hung
  <2>2. CASE e \in inside
    <3>1. At(r.list[e], b) = {}
      BY <1>1, <2>2 DEF At
    <3>2. r.up[b] # e
      BY <1>1, <1>2, <2>1, <2>2 DEF Apart
    <3>3. QED BY <3>1, <3>2
  <2>3. CASE e \notin inside
    <3>1. CASE b \in inside
      <4>1. t.up[b] # e /\ r.up[b] # e
        BY <1>1, <1>2, <2>1, <2>3, <3>1 DEF Apart
      <4>2. QED BY <1>1, <2>1, <2>3, <4>1
    <3>2. CASE b \notin inside
      BY <1>1, <2>1, <2>3, <3>2
    <3>3. QED BY <3>1, <3>2
  <2>4. QED BY <2>2, <2>3
<1>4. Hung(r)
  BY <1>3 DEF Hung
<1>5. Acyclic(r.up)
  <2>1. Acyclic(t.up)
    BY DEF Sound
  <2>2. PICK up, vp : up = t.up /\ vp = r.up
    OBVIOUS
  <2>3. \A d \in Container : vp[d] \in Container => vp[d] = up[d]
    BY <1>1, <1>2, <2>2
  <2>4. QED BY <2>1, <2>2, <2>3, Detached
<1>6. Rooted(r.up)
  BY <1>1 DEF Sound, Rooted, Apart, Container
<1>7. ASSUME NEW c \in Container PROVE r.weight[c] = Total(Load(r, r.list[c]))
  <2>1. CASE c \in inside
    <3>1. PICK f : f = Load(r, r.list[c])
      OBVIOUS
    <3>2. \A i \in DOMAIN f : f[i] = 0
      BY <1>1, <2>1, <3>1 DEF Load
    <3>3. QED BY <1>1, <2>1, <3>1, <3>2, TotalZero
  <2>2. CASE c \notin inside
    <3>1. PICK s : s = t.list[c]
      OBVIOUS
    <3>2. ASSUME NEW j \in DOMAIN s PROVE Weight(r, s[j]) = Weight(t, s[j])
      <4>1. s[j] \in Item
        BY <3>1, TreeParts, ListType DEF Sound
      <4>2. CASE IsStack(s[j])
        BY <4>2 DEF Weight
      <4>3. CASE ~IsStack(s[j])
        <5>1. s[j] \in Bag /\ s[j] \in Container
          BY <4>1, <4>3, Kinds
        <5>2. t.up[s[j]] = c
          BY <3>1, <5>1, ParentOf
        <5>3. s[j] \notin inside
          BY <2>2, <5>1, <5>2 DEF Apart
        <5>4. QED BY <1>1, <4>3, <5>1, <5>3 DEF Weight
      <4>4. QED BY <4>2, <4>3
    <3>3. Load(r, s) = Load(t, s)
      BY <3>2 DEF Load
    <3>4. QED BY <1>1, <2>2, <3>1, <3>3 DEF Sound, Weighed
  <2>3. QED BY <2>1, <2>2
<1>8. QED BY <1>1, <1>4, <1>5, <1>6, <1>7 DEF Sound, Weighed

LEMMA EmptiedHeld ==
    ASSUME NEW t, Sound(t), NEW inside \in SUBSET Container, NEW r, r = Emptied(t, inside), NEW k,
           NEW p, p = [d \in inside |-> Units(t.list[d], k)]
    PROVE  Total(p) \in Nat /\ Held(r, k) = Held(t, k) - Total(p)
<1>1. /\ r \in Trees /\ t \in Trees
      /\ \A d \in Container : d \in inside => r.list[d] = <<>>
      /\ \A d \in Container : d \notin inside => r.list[d] = t.list[d]
  BY EmptiedIs DEF Sound
<1>2. PICK D, R : D = Container /\ R = Container \ inside
  OBVIOUS
<1>3. PICK f, g : f = [d \in D |-> Units(t.list[d], k)] /\ g = [d \in D |-> Units(r.list[d], k)]
  OBVIOUS
<1>4. f \in [D -> Nat] /\ Total(f) = Held(t, k)
  BY <1>1, <1>2, <1>3, HeldType DEF Held
<1>5. g \in [D -> Nat] /\ Total(g) = Held(r, k)
  BY <1>1, <1>2, <1>3, HeldType DEF Held
<1>6. IsFiniteSet(D) /\ inside \cup R = D /\ inside \cap R = {}
  BY <1>2, SizeAssumption
<1>7. IsFiniteSet(inside) /\ IsFiniteSet(R)
  BY <1>6, FS_Subset
<1>8. PICK f2 : f2 = [d \in R |-> f[d]]
  OBVIOUS
<1>9. PICK g1 : g1 = [d \in inside |-> g[d]]
  OBVIOUS
<1>10. p = [d \in inside |-> f[d]]
  BY <1>2, <1>3
<1>11. f2 = [d \in R |-> g[d]]
  <2>1. \A d \in R : f[d] = g[d]
    BY <1>1, <1>2, <1>3
  <2>2. QED BY <1>8, <2>1
<1>12. Total(f) = Total(p) + Total(f2)
  BY <1>4, <1>6, <1>8, <1>10, TotalParts
<1>13. Total(g) = Total(g1) + Total(f2)
  BY <1>5, <1>6, <1>9, <1>11, TotalParts
<1>14. Total(g1) = 0
  <2>1. Units(<<>>, k) = 0
    <3>1. PICK e : e = [j \in DOMAIN <<>> |-> Count(<<>>[j], k)]
      OBVIOUS
    <3>2. \A j \in DOMAIN e : e[j] = 0
      BY <3>1
    <3>3. QED BY <3>1, <3>2, TotalZero DEF Units
  <2>2. \A d \in inside : g1[d] = 0
    BY <1>1, <1>2, <1>3, <1>9, <2>1
  <2>3. DOMAIN g1 = inside
    BY <1>9
  <2>4. QED BY <2>2, <2>3, TotalZero
<1>15. Total(p) \in Nat
  <2>1. p \in [inside -> Nat]
    BY <1>4, <1>6, <1>10
  <2>2. QED BY <1>7, <2>1, TotalFinite
<1>16. Total(f2) \in Nat
  <2>1. f2 \in [R -> Nat]
    BY <1>4, <1>6, <1>8
  <2>2. QED BY <1>7, <2>1, TotalFinite
<1>17. QED BY <1>4, <1>5, <1>12, <1>13, <1>14, <1>15, <1>16

\* What removing count of the item at position j of c takes off the ledger.
Removed(c, j, count, k) ==
    IF ~IsStack(itemlist[c][j]) THEN UnitsIn(Within(parent, itemlist[c][j]), k)
    ELSE Share(itemlist[c][j], k, count)

LEMMA RemoveItemRemoves ==
    ASSUME Sound(tree), NEW c \in Container, NEW j \in DOMAIN itemlist[c],
           NEW count \in Counts(itemlist[c][j]), RemoveItem(c, j, count)
    PROVE  \E r : /\ Sound(r) /\ tree' = r
                  /\ \A k : /\ Removed(c, j, count, k) \in Nat
                            /\ Held(r, k) = Held(tree, k) - Removed(c, j, count, k)
                  /\ \A d \in Container : Len(r.list[d]) <= Len(itemlist[d])
                  /\ ledger' = [k \in Kind |-> ledger[k] - Removed(c, j, count, k)]
<1>1. PICK x, t, w : x = itemlist[c][j] /\ t = RemoveThing(tree, c, j, count) /\ w = tree
  OBVIOUS
<1>2. PICK inside : inside = IF IsStack(x) THEN {} ELSE Within(parent, x)
  OBVIOUS
<1>3. PICK r : r = Emptied(t, inside)
  OBVIOUS
<1>4. /\ IsStack(x) => count <= x.count
      /\ Become(r)
      /\ ledger' = [k \in Kind |->
            ledger[k] - IF ~IsStack(x) THEN UnitsIn(inside, k) ELSE Count([x EXCEPT !.count = count], k)]
  BY <1>1, <1>2, <1>3 DEF RemoveItem, Emptied, Within
<1>5. /\ w.list = itemlist /\ w.up = parent /\ w \in Trees /\ Sound(w) /\ x \in Item
      /\ j \in DOMAIN w.list[c] /\ x = w.list[c][j] /\ t = RemoveThing(w, c, j, count)
      /\ \A d \in Container : Len(itemlist[d]) \in Nat
  BY <1>1, StateTree
<1>6. IsStack(x) => count \in 1 .. x.count
  BY <1>1, <1>4, <1>5, Kinds, SizeAssumption DEF Counts
<1>7. /\ Sound(t) /\ Only(w, t, c) /\ t.up = UpWith(w, x, Gone)
      /\ Len(t.list[c]) = Len(w.list[c]) - Places(x, count)
      /\ \A k : Held(t, k) = Held(w, k) - Share(x, k, count)
  BY <1>5, <1>6, RemoveThingTakes
<1>8. \A d \in Container : Len(t.list[d]) <= Len(itemlist[d])
  <2>1. Places(x, count) \in Nat
    BY DEF Places
  <2>2. Len(t.list[c]) <= Len(itemlist[c])
    BY <1>5, <1>7, <2>1
  <2>3. \A d \in Container : d # c => t.list[d] = itemlist[d]
    BY <1>5, <1>7 DEF Only
  <2>4. QED BY <1>5, <2>2, <2>3
<1>9. Apart(t, inside) /\ inside \in SUBSET Container
  <2>1. CASE IsStack(x)
    BY <1>2, <2>1 DEF Apart
  <2>2. CASE ~IsStack(x)
    <3>1. x \in Bag /\ inside = Within(w.up, x)
      BY <1>2, <1>5, <2>2, Kinds
    <3>2. Apart(t, inside)
      BY <1>5, <1>7, <3>1, WithinApart
    <3>3. QED BY <3>1, <3>2 DEF Within
  <2>3. QED BY <2>1, <2>2
<1>10. Sound(r)
  BY <1>3, <1>7, <1>9, EmptiedSound
<1>11. tree' = r
  <2>1. itemlist' = r.list /\ parent' = r.up /\ totalWeight' = r.weight
    BY <1>4 DEF Become
  <2>2. r \in Trees
    BY <1>10 DEF Sound
  <2>3. QED BY <2>1, <2>2, TreeIs DEF tree
<1>12. \A d \in Container : Len(r.list[d]) <= Len(itemlist[d])
  <2>1. \A d \in Container : r.list[d] = <<>> \/ r.list[d] = t.list[d]
    BY <1>3, <1>7, EmptiedIs
  <2>2. Len(<<>>) = 0
    BY EmptySeq
  <2>3. QED BY <1>5, <1>8, <2>1, <2>2
<1>13. ASSUME NEW k
       PROVE  /\ Removed(c, j, count, k) \in Nat
              /\ Held(r, k) = Held(tree, k) - Removed(c, j, count, k)
              /\ Removed(c, j, count, k)
                   = IF ~IsStack(x) THEN UnitsIn(inside, k) ELSE Count([x EXCEPT !.count = count], k)
  <2>1. PICK p : p = [d \in inside |-> Units(t.list[d], k)]
    OBVIOUS
  <2>2. Total(p) \in Nat /\ Held(r, k) = Held(t, k) - Total(p)
    BY <1>3, <1>7, <1>9, <2>1, EmptiedHeld
  <2>3. Held(w, k) \in Nat
    BY <1>5, HeldType
  <2>4. CASE IsStack(x)
    <3>1. \A i \in DOMAIN p : p[i] = 0
      BY <1>2, <2>1, <2>4
    <3>2. Total(p) = 0
      BY <3>1, TotalZero
    <3>3. x \in Stack /\ count \in 1 .. StackSize
      BY <1>1, <1>5, <2>4, Kinds DEF Counts
    <3>4. PICK y : y = [x EXCEPT !.count = count]
      OBVIOUS
    <3>5. y \in Stack /\ y.count = count /\ y.kind = x.kind /\ IsStack(y)
      BY <3>3, <3>4, StackWith, Kinds
    <3>6. Count(y, k) = Share(x, k, count) /\ Share(x, k, count) \in Nat
      BY <2>4, <3>3, <3>5, SizeAssumption DEF Count, Share
    <3>7. Removed(c, j, count, k) = Share(x, k, count)
      BY <1>1, <2>4 DEF Removed
    <3>8. Held(r, k) = Held(w, k) - Share(x, k, count)
      BY <1>7, <2>2, <2>3, <3>2, <3>6
    <3>9. QED BY <1>1, <2>4, <3>4, <3>6, <3>7, <3>8
  <2>5. CASE ~IsStack(x)
    <3>1. x \in Bag /\ x \in Container /\ parent[x] = c
      BY <1>5, <2>5, Kinds, ParentOf
    <3>2. c \notin inside
      BY <1>2, <1>5, <2>5, <3>1 DEF Within, Sound, Acyclic
    <3>3. \A d \in inside : t.list[d] = itemlist[d]
      BY <1>5, <1>7, <1>9, <3>2 DEF Only
    <3>4. Total(p) = UnitsIn(inside, k)
      <4>1. p = [d \in inside |-> Units(itemlist[d], k)]
        BY <2>1, <3>3
      <4>2. QED BY <4>1 DEF UnitsIn
    <3>5. Removed(c, j, count, k) = UnitsIn(inside, k)
      BY <1>1, <1>2, <2>5 DEF Removed
    <3>6. Share(x, k, count) = 0
      BY <2>5 DEF Share
    <3>7. QED BY <1>1, <1>7, <2>2, <2>3, <2>5, <3>4, <3>5, <3>6
  <2>6. QED BY <2>4, <2>5
<1>14. ledger' = [k \in Kind |-> ledger[k] - Removed(c, j, count, k)]
  BY <1>4, <1>13
<1>15. QED BY <1>10, <1>11, <1>12, <1>13, <1>14

-----------------------------------------------------------------------------
(***************************************************************************)
(* The inductive invariant: the containers form a sound forest, and they   *)
(* hold no unit that the ledger does not know of.  Without the second part *)
(* a removal could take more off the ledger than is in it.                 *)
(***************************************************************************)
NoneDoubled == \A k \in Kind : UnitsIn(Container, k) <= ledger[k]

IInv == Sound(tree) /\ ledger \in [Kind -> 0 .. MaxUnits] /\ NoneDoubled

\* The containers without a capacity limit hold no more than their capacity.
Shallow == \A c \in Unlimited : Len(itemlist[c]) <= capacity[c]

LEMMA HeldInState ==
    ASSUME NEW k
    PROVE  UnitsIn(Container, k) = Held(tree, k)
BY DEF UnitsIn, Held, tree

\* What a step does to the forest, to the ledger and to what is held.
StepKeeps(r, l) ==
    /\ Sound(r) /\ l \in [Kind -> 0 .. MaxUnits]
    /\ \A k \in Kind : Held(r, k) <= l[k]
    /\ Shallow => \A k \in Kind : l[k] - Held(r, k) = ledger[k] - Held(tree, k)

LEMMA InvariantParts ==
    ASSUME IInv
    PROVE  /\ Sound(tree) /\ IsFiniteSet(Kind) /\ ledger \in [Kind -> Nat] /\ MaxUnits \in Nat
           /\ \A k \in Kind : /\ ledger[k] \in 0 .. MaxUnits /\ Held(tree, k) \in Nat
                              /\ Held(tree, k) <= ledger[k]
<1>1. Sound(tree) /\ IsFiniteSet(Kind) /\ ledger \in [Kind -> 0 .. MaxUnits] /\ MaxUnits \in Nat
  BY SizeAssumption DEF IInv
<1>2. \A k : Held(tree, k) \in Nat
  BY <1>1, StateTree, HeldType
<1>3. \A k \in Kind : Held(tree, k) <= ledger[k]
  BY HeldInState DEF IInv, NoneDoubled
<1>4. QED BY <1>1, <1>2, <1>3

LEMMA AddItemKeeps ==
    ASSUME IInv, NEW c \in Container, NEW k \in Kind, NEW n \in 1 .. StackSize, AddItem(c, k, n)
    PROVE  StepKeeps(tree', ledger')
<1>1. PICK r : /\ Sound(r) /\ tree' = r
               /\ \A l : Held(r, l) = Held(tree, l) + IF l = k THEN n ELSE 0
               /\ Total(ledger) + n <= MaxUnits /\ ledger' = [ledger EXCEPT ![k] = @ + n]
  BY AddItemAdds DEF IInv
<1>2. PICK l : l = ledger'
  OBVIOUS
<1>3. n \in Nat /\ MaxUnits \in Nat
  BY SizeAssumption
<1>4. ledger[k] <= Total(ledger) /\ Total(ledger) \in Nat
  BY InvariantParts, PartOfTotal, TotalFinite
<1>5. ASSUME NEW q \in Kind
      PROVE  l[q] \in 0 .. MaxUnits /\ Held(r, q) <= l[q] /\ l[q] - Held(r, q) = ledger[q] - Held(tree, q)
  <2>1. ledger[q] \in 0 .. MaxUnits /\ Held(tree, q) \in Nat /\ Held(tree, q) <= ledger[q]
    BY InvariantParts
  <2>2. CASE q = k
    <3>1. l[q] = ledger[q] + n /\ Held(r, q) = Held(tree, q) + n
      BY <1>1, <1>2, <2>2, InvariantParts
    <3>2. QED BY <1>1, <1>3, <1>4, <2>1, <2>2, <3>1
  <2>3. CASE q # k
    <3>1. l[q] = ledger[q] /\ Held(r, q) = Held(tree, q) + 0
      BY <1>1, <1>2, <2>3, InvariantParts
    <3>2. QED BY <2>1, <3>1
  <2>4. QED BY <2>2, <2>3
<1>6. l \in [Kind -> 0 .. MaxUnits]
  <2>1. DOMAIN l = Kind /\ l = [q \in Kind |-> l[q]]
    BY <1>1, <1>2, InvariantParts
  <2>2. QED BY <1>5, <2>1
<1>7. QED BY <1>1, <1>2, <1>5, <1>6 DEF StepKeeps

LEMMA AddBagKeeps ==
    ASSUME IInv, NEW c \in Container, NEW b \in Bag, AddBag(c, b)
    PROVE  StepKeeps(tree', ledger')
<1>1. PICK r : Sound(r) /\ tree' = r /\ ledger' = ledger /\ \A k : Held(r, k) = Held(tree, k)
  BY AddBagAdds DEF IInv
<1>2. QED BY <1>1, InvariantParts DEF StepKeeps, IInv

LEMMA MoveItemKeeps ==
    ASSUME IInv, NEW at \in Container, NEW c \in Container, NEW j \in DOMAIN itemlist[at],
           NEW index \in Indexes(c), NEW count \in Counts(itemlist[at][j]),
           MoveItem(at, j, c, index, count)
    PROVE  StepKeeps(tree', ledger')
<1>1. PICK x, d, m, r :
         /\ Moves(at, j, x, d, m) /\ MoveDone(at, x, d, m, r)
         /\ tree' = r /\ ledger' = ledger
         /\ at # d.to /\ d.to \notin Unlimited /\ ~(Len(itemlist[d.to]) < capacity[d.to])
               => IsStack(x) /\ m <= Joined(x, d, m)
  BY MoveItemMoves DEF IInv
<1>2. /\ Sound(r) /\ \A k : Held(r, k) <= Held(tree, k)
      /\ Stored(x, d, m) => \A k : Held(r, k) = Held(tree, k)
  BY <1>1 DEF MoveDone
<1>3. ASSUME Shallow PROVE Stored(x, d, m)
  <2>1. PICK e \in Container, i \in Int : e = d.to /\ i = d.index
    BY <1>1 DEF Moves, Destined
  <2>2. capacity[e] \in Nat /\ Len(itemlist[e]) \in Nat /\ DOMAIN itemlist[e] = 1 .. Len(itemlist[e])
        /\ j \in Nat \ {0}
    <3>1. Sound(tree)
      BY DEF IInv
    <3>2. capacity[e] \in Nat
      BY SizeAssumption
    <3>3. /\ Len(itemlist[e]) \in Nat /\ DOMAIN itemlist[e] = 1 .. Len(itemlist[e])
          /\ j \in Nat \ {0}
      BY <3>1, StateTree
    <3>4. QED BY <3>2, <3>3
  <2>3. CASE i < capacity[e]
    BY <2>1, <2>3 DEF Stored
  <2>4. CASE ~(i < capacity[e])
    <3>1. /\ Own(at, j, e) = 0 /\ d.toItem \in Mergeable(e, x, 0)
          /\ d.toItem = 0 \/ (d.toItem = i + 1 /\ d.toItem \in DOMAIN itemlist[e])
      BY <1>1, <2>1, <2>4 DEF Moves, Destined
    <3>2. at # e
      BY <2>2, <3>1 DEF Own
    <3>3. d.toItem # 0
      BY <2>2, <3>1, MergeableAre
    <3>4. i + 1 <= Len(itemlist[e])
      BY <2>2, <3>1, <3>3
    <3>5. ~(Len(itemlist[e]) <= capacity[e])
      BY <2>2, <2>4, <3>4
    <3>6. e \notin Unlimited
      BY <1>3, <3>5 DEF Shallow
    <3>7. ~(Len(itemlist[e]) < capacity[e])
      BY <2>2, <3>5
    <3>8. IsStack(x) /\ m <= Joined(x, d, m)
      BY <1>1, <2>1, <3>2, <3>6, <3>7
    <3>9. QED BY <3>8 DEF Stored
  <2>5. QED BY <2>3, <2>4
<1>4. \A k : Held(r, k) \in Nat
  BY <1>2, HeldType DEF Sound
<1>5. ASSUME NEW k \in Kind PROVE Held(r, k) <= ledger[k]
  BY <1>2, <1>4, InvariantParts
<1>6. ASSUME Shallow PROVE \A k \in Kind : ledger[k] - Held(r, k) = ledger[k] - Held(tree, k)
  BY <1>2, <1>3, <1>6
<1>7. QED BY <1>1, <1>2, <1>5, <1>6 DEF StepKeeps, IInv

LEMMA RemoveItemKeeps ==
    ASSUME IInv, NEW c \in Container, NEW j \in DOMAIN itemlist[c],
           NEW count \in Counts(itemlist[c][j]), RemoveItem(c, j, count)
    PROVE  StepKeeps(tree', ledger')
<1>1. PICK r : /\ Sound(r) /\ tree' = r
               /\ \A k : /\ Removed(c, j, count, k) \in Nat
                         /\ Held(r, k) = Held(tree, k) - Removed(c, j, count, k)
               /\ ledger' = [k \in Kind |-> ledger[k] - Removed(c, j, count, k)]
  BY RemoveItemRemoves DEF IInv
<1>2. PICK l : l = ledger'
  OBVIOUS
<1>3. \A k : Held(r, k) \in Nat
  BY <1>1, HeldType DEF Sound
<1>4. ASSUME NEW k \in Kind
      PROVE  l[k] \in 0 .. MaxUnits /\ Held(r, k) <= l[k] /\ l[k] - Held(r, k) = ledger[k] - Held(tree, k)
  <2>1. ledger[k] \in 0 .. MaxUnits /\ Held(tree, k) \in Nat /\ Held(tree, k) <= ledger[k] /\ MaxUnits \in Nat
    BY InvariantParts
  <2>2. PICK q \in Nat : q = Removed(c, j, count, k)
    BY <1>1
  <2>3. l[k] = ledger[k] - q /\ Held(r, k) = Held(tree, k) - q /\ Held(r, k) \in Nat
    BY <1>1, <1>2, <1>3, <2>2
  <2>4. QED BY <2>1, <2>3
<1>5. l \in [Kind -> 0 .. MaxUnits]
  <2>1. l = [k \in Kind |-> l[k]]
    BY <1>1, <1>2
  <2>2. QED BY <1>4, <2>1
<1>6. QED BY <1>1, <1>2, <1>4, <1>5 DEF StepKeeps

LEMMA NextKeeps ==
    ASSUME IInv, Next
    PROVE  StepKeeps(tree', ledger')
BY AddItemKeeps, AddBagKeeps, MoveItemKeeps, RemoveItemKeeps DEF Next

-----------------------------------------------------------------------------
(***************************************************************************)
(* The invariant holds in every state.                                     *)
(***************************************************************************)
LEMMA InitSound ==
    ASSUME Init
    PROVE  IInv
<1>1. /\ tree.list = [c \in Container |-> <<>>] /\ tree.weight = [c \in Container |-> 0]
      /\ tree.up = [c \in Container |-> IF c \in Outer THEN World ELSE Virtual]
      /\ tree = [list |-> tree.list, up |-> tree.up, weight |-> tree.weight]
  BY DEF Init, tree
<1>2. PICK t : t = tree
  OBVIOUS
<1>3. /\ \A c \in Container : t.list[c] = <<>> /\ t.weight[c] = 0 /\ t.up[c] \in Elsewhere
      /\ \A c \in Outer : t.up[c] = World
      /\ \A c \in Container : t.up[c] \notin Container
  BY <1>1, <1>2, SizeAssumption DEF Elsewhere, Container
<1>4. t \in Trees
  <2>1. PICK e \in Seq(Item) : e = <<>>
    BY EmptySeq
  <2>2. t.list \in [Container -> Seq(Item)] /\ t.weight \in [Container -> Nat]
    <3>1. t.list = [c \in Container |-> e] /\ t.weight = [c \in Container |-> 0]
      BY <1>1, <1>2, <2>1
    <3>2. QED BY <3>1
  <2>3. t.up \in [Container -> Container \cup Elsewhere]
    BY <1>1, <1>2 DEF Elsewhere
  <2>4. t = [list |-> t.list, up |-> t.up, weight |-> t.weight]
    BY <1>1, <1>2
  <2>5. QED BY <2>2, <2>3, <2>4 DEF Trees
<1>5. Hung(t)
  <2>1. ASSUME NEW b \in Bag, NEW c \in Container PROVE t.up[b] # c /\ At(t.list[c], b) = {}
    BY <1>3, Kinds DEF At
  <2>2. QED BY <2>1 DEF Hung
<1>6. Acyclic(t.up) /\ Rooted(t.up)
  BY <1>3 DEF Acyclic, Rooted
<1>7. Weighed(t)
  <2>1. ASSUME NEW c \in Container PROVE t.weight[c] = Total(Load(t, t.list[c]))
    <3>1. PICK f : f = Load(t, t.list[c])
      OBVIOUS
    <3>2. \A i \in DOMAIN f : f[i] = 0
      BY <1>3, <3>1 DEF Load
    <3>3. QED BY <1>3, <3>1, <3>2, TotalZero
  <2>2. QED BY <2>1 DEF Weighed
<1>8. Sound(tree)
  BY <1>2, <1>4, <1>5, <1>6, <1>7 DEF Sound
<1>9. ledger \in [Kind -> 0 .. MaxUnits]
  BY SizeAssumption DEF Init
<1>10. ASSUME NEW k \in Kind PROVE UnitsIn(Container, k) = 0 /\ ledger[k] = 0
  <2>1. Units(<<>>, k) = 0
    <3>1. PICK e : e = [j \in DOMAIN <<>> |-> Count(<<>>[j], k)]
      OBVIOUS
    <3>2. \A j \in DOMAIN e : e[j] = 0
      BY <3>1
    <3>3. QED BY <3>1, <3>2, TotalZero DEF Units
  <2>2. PICK f : f = [c \in Container |-> Units(itemlist[c], k)]
    OBVIOUS
  <2>3. \A c \in DOMAIN f : f[c] = 0
    BY <2>1, <2>2 DEF Init
  <2>4. UnitsIn(Container, k) = 0
    BY <2>2, <2>3, TotalZero DEF UnitsIn
  <2>5. QED BY <2>4 DEF Init
<1>11. QED BY <1>8, <1>9, <1>10 DEF IInv, NoneDoubled

LEMMA NextSound ==
    ASSUME IInv, [Next]_vars
    PROVE  IInv'
<1>1. CASE Next
  <2>1. StepKeeps(tree', ledger')
    BY <1>1, NextKeeps
  <2>2. Sound(tree)' /\ (ledger \in [Kind -> 0 .. MaxUnits])'
    BY <2>1 DEF StepKeeps
  <2>3. \A k \in Kind : Held(tree', k) <= ledger'[k]
    BY <2>1 DEF StepKeeps
  <2>4. \A k \in Kind : UnitsIn(Container, k)' = Held(tree', k)
    BY DEF UnitsIn, Held, tree
  <2>5. QED BY <2>2, <2>3, <2>4 DEF IInv, NoneDoubled
<1>2. CASE UNCHANGED vars
  BY <1>2 DEF vars, IInv, NoneDoubled, UnitsIn, tree
<1>3. QED BY <1>1, <1>2

(***************************************************************************)
(* No order of adding, moving, splitting, merging and removing leaves the  *)
(* inductive invariant.                                                    *)
(***************************************************************************)
THEOREM Invariance == Spec => []IInv
<1>1. Init => IInv
  BY InitSound
<1>2. IInv /\ [Next]_vars => IInv'
  BY NextSound
<1>3. QED BY <1>1, <1>2, PTL DEF Spec

(***************************************************************************)
(* The type invariant, for all containers and all their operations.        *)
(***************************************************************************)
THEOREM TypeCorrect == Spec => []TypeOK
<1>1. IInv => TypeOK
  BY StateTree DEF IInv, TypeOK, Item, Elsewhere
<1>2. QED BY <1>1, Invariance, PTL

(***************************************************************************)
(* Containers are trees on which both sides agree, and the weight kept in  *)
(* each of them is that of its contents, however they are nested: the      *)
(* walks of updateItemWeight over the parents keep it so.                  *)
(***************************************************************************)
THEOREM TreesExact == Spec => []TreeExact
<1>1. ASSUME Sound(tree) PROVE ForestAgrees
  <2>1. /\ \A b \in Bag, c \in Container :
              IF parent[b] = c THEN Once(itemlist[c], b) ELSE At(itemlist[c], b) = {}
        /\ \A b \in Container : parent[b] \in Container => b \notin Chain(parent, parent[b])
    BY <1>1, StateTree DEF Sound, Hung, Acyclic
  <2>2. QED BY <2>1, Kinds DEF ForestAgrees, Once, At
<1>2. ASSUME Sound(tree) PROVE WeightExact
  <2>1. \A c \in Container : totalWeight[c] = Total(Load(tree, itemlist[c]))
    BY <1>2, StateTree DEF Sound, Weighed
  <2>2. QED BY <2>1 DEF WeightExact, Load
<1>3. IInv => TreeExact
  BY <1>1, <1>2 DEF IInv, TreeExact
<1>4. QED BY <1>3, Invariance, PTL

(***************************************************************************)
(* No split, no merge and no move doubles a unit: the containers never     *)
(* hold more than callers added and did not remove.                        *)
(***************************************************************************)
THEOREM NeverDoubled == Spec => []NoneDoubled
<1>1. IInv => NoneDoubled
  BY DEF IInv
<1>2. QED BY <1>1, Invariance, PTL

(***************************************************************************)
(* As long as the containers that ignore their capacity stay within it,    *)
(* nothing is lost either.  (When one does not, internalMoveItem loses the *)
(* remainder of a merge: Container::addThing drops an index past the       *)
(* capacity.)                                                              *)
(***************************************************************************)
THEOREM LedgerKept == Spec /\ []Shallow => []LedgerExact
<1>1. Init => LedgerExact
  <2>1. SUFFICES ASSUME Init PROVE \A k \in Kind : UnitsIn(Container, k) = ledger[k]
    BY DEF LedgerExact
  <2>2. IInv
    BY <2>1, InitSound
  <2>3. \A k \in Kind : ledger[k] = 0
    BY <2>1 DEF Init
  <2>4. \A k \in Kind : UnitsIn(Container, k) = Held(tree, k) /\ Held(tree, k) \in Nat /\ Held(tree, k) <= ledger[k]
    BY <2>2, InvariantParts, HeldInState
  <2>5. QED BY <2>3, <2>4
<1>2. ASSUME IInv, Shallow, LedgerExact, [Next]_vars PROVE LedgerExact'
  <2>1. CASE Next
    <3>1. \A k \in Kind : ledger'[k] - Held(tree', k) = ledger[k] - Held(tree, k)
      BY <1>2, <2>1, NextKeeps DEF StepKeeps
    <3>2. \A k \in Kind : ledger[k] - Held(tree, k) = 0
      BY <1>2, InvariantParts, HeldInState DEF LedgerExact
    <3>3. \A k \in Kind : ledger'[k] \in Int /\ Held(tree', k) \in Int
      <4>1. StepKeeps(tree', ledger')
        BY <1>2, <2>1, NextKeeps
      <4>2. ledger' \in [Kind -> 0 .. MaxUnits] /\ tree' \in Trees
        BY <4>1 DEF StepKeeps, Sound
      <4>3. \A k : Held(tree', k) \in Nat
        BY <4>2, HeldType
      <4>4. QED BY <4>2, <4>3, SizeAssumption
    <3>4. \A k \in Kind : UnitsIn(Container, k)' = Held(tree', k)
      BY DEF UnitsIn, Held, tree
    <3>5. \A k \in Kind : Held(tree', k) = ledger'[k]
      BY <3>1, <3>2, <3>3
    <3>6. QED BY <3>4, <3>5 DEF LedgerExact
  <2>2. CASE UNCHANGED vars
    BY <1>2, <2>2 DEF vars, LedgerExact, UnitsIn
  <2>3. QED BY <1>2, <2>1, <2>2
<1>3. IInv /\ Shallow /\ LedgerExact /\ [Next]_vars => LedgerExact'
  BY <1>2
<1>4. QED BY <1>1, <1>3, Invariance, PTL DEF Spec

(***************************************************************************)
(* The same step by step: from a state in which those containers are       *)
(* within their capacity no operation changes what callers are owed.       *)
(***************************************************************************)
NothingLost ==
    [][Shallow => \A k \in Kind :
          ledger'[k] - UnitsIn(Container, k)' = ledger[k] - UnitsIn(Container, k)]_vars

THEOREM ShallowStepsKeep == Spec => NothingLost
<1>1. ASSUME IInv, [Next]_vars
      PROVE  [Shallow => \A k \in Kind :
                 ledger'[k] - UnitsIn(Container, k)' = ledger[k] - UnitsIn(Container, k)]_vars
  <2>1. CASE Next
    <3>1. Shallow => \A k \in Kind : ledger'[k] - Held(tree', k) = ledger[k] - Held(tree, k)
      BY <1>1, <2>1, NextKeeps DEF StepKeeps
    <3>2. \A k \in Kind : UnitsIn(Container, k)' = Held(tree', k)
      BY DEF UnitsIn, Held, tree
    <3>3. QED BY <3>1, <3>2, HeldInState
  <2>2. CASE UNCHANGED vars
    BY <2>2
  <2>3. QED BY <1>1, <2>1, <2>2
<1>2. QED BY <1>1, Invariance, PTL DEF Spec, NothingLost

-----------------------------------------------------------------------------
(***************************************************************************)
(* No step fills a container beyond its capacity from outside.             *)
(***************************************************************************)
\* The list of c grows, to more than its capacity.
Overfills(c, r) == Len(r.list[c]) > Max({capacity[c], Len(itemlist[c])})

\* c holds the same units and the same bags as before.
SameContents(c, r) ==
    /\ \A k \in Kind : Units(itemlist[c], k) = Units(r.list[c], k)
    /\ {b \in Bag : parent[b] = c} = {b \in Bag : r.up[b] = c}

LEMMA CapacityType == \A c \in Container : capacity[c] \in Nat /\ capacity[c] > 0
BY SizeAssumption

LEMMA OverfillsWhenFull ==
    ASSUME Sound(tree), NEW c \in Container, NEW r, Sound(r), Overfills(c, r)
    PROVE  Len(r.list[c]) > Len(itemlist[c]) /\ Len(r.list[c]) > capacity[c]
<1>1. capacity[c] \in Nat /\ Len(itemlist[c]) \in Nat
  <2>1. capacity[c] \in Nat
    BY CapacityType
  <2>2. QED BY <2>1, StateTree
<1>2. PICK a, h : a = capacity[c] /\ h = Len(itemlist[c])
  OBVIOUS
<1>3. Max({a, h}) = IF a >= h THEN a ELSE h
  BY <1>1, <1>2, MaxOfTwo
<1>4. Len(r.list[c]) \in Nat
  BY TreeParts, ListType DEF Sound
<1>5. QED BY <1>1, <1>2, <1>3, <1>4 DEF Overfills

LEMMA GrowsByOne ==
    ASSUME Sound(tree), NEW c \in Container, NEW r, Sound(r), Overfills(c, r),
           Len(r.list[c]) <= Len(itemlist[c]) + 1
    PROVE  ~(Len(itemlist[c]) < capacity[c]) /\ Len(r.list[c]) # Len(itemlist[c])
<1>1. capacity[c] \in Nat /\ Len(itemlist[c]) \in Nat
  <2>1. capacity[c] \in Nat
    BY CapacityType
  <2>2. QED BY <2>1, StateTree
<1>2. Len(r.list[c]) \in Nat
  BY TreeParts, ListType DEF Sound
<1>3. Len(r.list[c]) > Len(itemlist[c]) /\ Len(r.list[c]) > capacity[c]
  BY OverfillsWhenFull
<1>4. QED BY <1>1, <1>2, <1>3

LEMMA MoveWithin ==
    ASSUME Sound(tree), NEW at, NEW j, NEW x, NEW d, NEW m, NEW r,
           Moves(at, j, x, d, m), MoveDone(at, x, d, m, r), at = d.to
    PROVE  SameContents(at, r)
<1>1. /\ at \in Container /\ j \in DOMAIN itemlist[at] /\ x = itemlist[at][j] /\ x \in Item
      /\ j \in Nat \ {0} /\ tree \in Trees /\ tree.list = itemlist /\ tree.up = parent
  BY StateTree DEF Moves
<1>2. d.index < capacity[d.to]
  BY <1>1 DEF Moves, Destined, Own
<1>3. /\ Sound(r) /\ \A c \in Container : c # at => r.list[c] = itemlist[c]
      /\ r.up = UpWith(tree, x, at) /\ \A k : Held(r, k) = Held(tree, k)
  BY <1>2 DEF MoveDone, Stored
<1>4. ASSUME NEW k \in Kind PROVE Units(itemlist[at], k) = Units(r.list[at], k)
  <2>1. PICK w : w = tree
    OBVIOUS
  <2>2. w \in Trees /\ r \in Trees /\ Only(w, r, at)
    BY <1>1, <1>3, <2>1 DEF Only, Sound
  <2>3. Held(r, k) = Held(w, k) + Units(r.list[at], k) - Units(w.list[at], k)
    BY <1>1, <2>2, HeldByOne
  <2>4. Units(r.list[at], k) \in Nat /\ Units(w.list[at], k) \in Nat /\ Held(w, k) \in Nat
    BY <1>1, <2>2, UnitsType, TreeParts, HeldType
  <2>5. QED BY <1>1, <1>3, <2>1, <2>3, <2>4
<1>5. \A b \in Bag : r.up[b] = parent[b]
  <2>1. CASE IsStack(x)
    BY <1>1, <1>3, <2>1 DEF UpWith
  <2>2. CASE ~IsStack(x)
    <3>1. x \in Bag
      BY <1>1, <2>2, Kinds
    <3>2. parent[x] = at
      BY <1>1, <3>1, ParentOf
    <3>3. r.up[x] = at /\ \A e \in Container : e # x => r.up[e] = parent[e]
      BY <1>1, <1>3, <2>2, UpWithType
    <3>4. QED BY <3>2, <3>3, Kinds
  <2>3. QED BY <2>1, <2>2
<1>6. QED BY <1>4, <1>5 DEF SameContents

LEMMA NextNeverOverfills ==
    ASSUME IInv, Next, NEW c \in Container \ Unlimited, Overfills(c, tree')
    PROVE  SameContents(c, tree')
<1>1. Sound(tree)
  BY DEF IInv
<1>2. ASSUME NEW e \in Container, NEW k \in Kind, NEW n \in 1 .. StackSize, AddItem(e, k, n)
      PROVE  FALSE
  <2>1. PICK r : /\ Sound(r) /\ Only(tree, r, e) /\ tree' = r
                 /\ Len(r.list[e]) <= Len(itemlist[e]) + 1
                 /\ e \notin Unlimited /\ ~(Len(itemlist[e]) < capacity[e])
                       => Len(r.list[e]) = Len(itemlist[e])
    BY <1>1, <1>2, AddItemAdds
  <2>2. Overfills(c, r) /\ Len(r.list[c]) > Len(itemlist[c]) /\ Len(itemlist[c]) \in Nat
    BY <1>1, <2>1, OverfillsWhenFull, StateTree
  <2>3. CASE c = e
    BY <1>1, <2>1, <2>2, <2>3, GrowsByOne
  <2>4. CASE c # e
    BY <1>1, <2>1, <2>2, <2>4, StateTree DEF Only
  <2>5. QED BY <2>3, <2>4
<1>3. ASSUME NEW e \in Container, NEW b \in Bag, AddBag(e, b)
      PROVE  FALSE
  <2>1. PICK r : /\ Sound(r) /\ Only(tree, r, e) /\ tree' = r
                 /\ Len(r.list[e]) = Len(itemlist[e]) + 1
                 /\ e \notin Unlimited => Len(itemlist[e]) < capacity[e]
    BY <1>1, <1>3, AddBagAdds
  <2>2. Overfills(c, r) /\ Len(r.list[c]) > Len(itemlist[c]) /\ Len(itemlist[c]) \in Nat
    BY <1>1, <2>1, OverfillsWhenFull, StateTree
  <2>3. CASE c = e
    <3>1. Len(r.list[c]) <= Len(itemlist[c]) + 1
      BY <2>1, <2>2, <2>3
    <3>2. QED BY <1>1, <2>1, <2>2, <2>3, <3>1, GrowsByOne
  <2>4. CASE c # e
    BY <1>1, <2>1, <2>2, <2>4, StateTree DEF Only
  <2>5. QED BY <2>3, <2>4
<1>4. ASSUME NEW at \in Container, NEW e \in Container, NEW j \in DOMAIN itemlist[at],
             NEW index \in Indexes(e), NEW count \in Counts(itemlist[at][j]),
             MoveItem(at, j, e, index, count)
      PROVE  SameContents(c, tree')
  <2>1. PICK x, d, m, r :
           /\ Moves(at, j, x, d, m) /\ MoveDone(at, x, d, m, r)
           /\ tree' = r
           /\ at # d.to /\ d.to \notin Unlimited /\ ~(Len(itemlist[d.to]) < capacity[d.to])
                 => IsStack(x) /\ m <= Joined(x, d, m)
    BY <1>1, <1>4, MoveItemMoves
  <2>2. /\ Sound(r) /\ Overfills(c, r) /\ Len(r.list[c]) > Len(itemlist[c])
        /\ Len(itemlist[c]) \in Nat
    BY <1>1, <2>1, OverfillsWhenFull, StateTree DEF MoveDone
  <2>3. CASE c # at /\ c # d.to
    BY <2>1, <2>2, <2>3 DEF MoveDone
  <2>4. CASE c = at /\ c # d.to
    <3>1. Len(r.list[c]) <= Len(itemlist[c]) /\ Len(r.list[c]) \in Nat
      BY <2>1, <2>2, <2>4, TreeParts, ListType DEF MoveDone, Sound
    <3>2. QED BY <2>2, <3>1
  <2>5. CASE c = d.to /\ c # at
    <3>1. Len(r.list[c]) <= Len(itemlist[c]) + 1
      BY <2>1, <2>5 DEF MoveDone
    <3>2. ~(Len(itemlist[c]) < capacity[c]) /\ Len(r.list[c]) # Len(itemlist[c])
      BY <1>1, <2>2, <3>1, GrowsByOne
    <3>3. IsStack(x) /\ m <= Joined(x, d, m)
      BY <2>1, <2>5, <3>2
    <3>4. Len(r.list[c]) = Len(itemlist[c])
      BY <2>1, <2>5, <3>3 DEF MoveDone
    <3>5. QED BY <3>2, <3>4
  <2>6. CASE c = at /\ c = d.to
    BY <1>1, <2>1, <2>6, MoveWithin
  <2>7. QED BY <2>3, <2>4, <2>5, <2>6
<1>5. ASSUME NEW e \in Container, NEW j \in DOMAIN itemlist[e],
             NEW count \in Counts(itemlist[e][j]), RemoveItem(e, j, count)
      PROVE  FALSE
  <2>1. PICK r : Sound(r) /\ tree' = r /\ \A d \in Container : Len(r.list[d]) <= Len(itemlist[d])
    BY <1>1, <1>5, RemoveItemRemoves
  <2>2. Len(r.list[c]) > Len(itemlist[c]) /\ Len(itemlist[c]) \in Nat
    BY <1>1, <2>1, OverfillsWhenFull, StateTree
  <2>3. Len(r.list[c]) \in Nat
    BY <2>1, TreeParts, ListType DEF Sound
  <2>4. QED BY <2>1, <2>2, <2>3
<1>6. QED BY <1>2, <1>3, <1>4, <1>5 DEF Next

(***************************************************************************)
(* A container with a capacity is filled beyond it by no operation but a   *)
(* split of what it holds already: queryMaxCount and queryDestination      *)
(* agree on where an item from elsewhere goes.                             *)
(***************************************************************************)
THEOREM NeverOverfilled == Spec => NotOverfilled
<1>1. ASSUME IInv, [Next]_vars
      PROVE  [\A c \in Container \ Unlimited :
                 Len(itemlist'[c]) > Max({capacity[c], Len(itemlist[c])}) =>
                     /\ \A k \in Kind : Units(itemlist[c], k) = Units(itemlist'[c], k)
                     /\ {b \in Bag : parent[b] = c} = {b \in Bag : parent'[b] = c}]_vars
  <2>1. CASE Next
    <3>1. ASSUME NEW c \in Container \ Unlimited,
                 Len(itemlist'[c]) > Max({capacity[c], Len(itemlist[c])})
          PROVE  /\ \A k \in Kind : Units(itemlist[c], k) = Units(itemlist'[c], k)
                 /\ {b \in Bag : parent[b] = c} = {b \in Bag : parent'[b] = c}
      <4>1. tree'.list = itemlist' /\ tree'.up = parent'
        BY DEF tree
      <4>2. Overfills(c, tree')
        BY <3>1, <4>1 DEF Overfills
      <4>3. SameContents(c, tree')
        BY <1>1, <2>1, <4>2, NextNeverOverfills
      <4>4. QED BY <4>1, <4>3 DEF SameContents
    <3>2. QED BY <3>1
  <2>2. CASE UNCHANGED vars
    BY <2>2
  <2>3. QED BY <1>1, <2>1, <2>2
<1>2. QED BY <1>1, Invariance, PTL DEF Spec, NotOverfilled
=============================================================================
