-------------------------------- MODULE Sums --------------------------------
(***************************************************************************)
(* Sums over a finite set of integers, SumFunction of the community        *)
(* modules.  It draws the elements in an order of its own and is defined   *)
(* by recursion; what holds of it for sets of any size is shown here by    *)
(* a smallest counterexample: finite sets are well founded under           *)
(* inclusion.  The proofs about totals, and about the amounts of the       *)
(* report reader, cite these lemmas; those about the groups of vendors     *)
(* cite the last ones, on counting up to a number.                         *)
(***************************************************************************)
EXTENDS Integers, FiniteSetsExt, FiniteSetTheorems, WellFoundedInduction, TLAPS

\* Adding up one element after the other, in the order SumFunction draws them.
Adds(f, D, g) ==
    g = [s \in SUBSET D |-> IF s = {} THEN 0
                            ELSE f[CHOOSE x \in s : TRUE] + g[s \ {CHOOSE x \in s : TRUE}]]

\* g has the sum over every part of D: in whatever order elements are taken away.
IsSum(f, D, g) ==
    /\ g \in [SUBSET D -> Int] /\ g[{}] = 0
    /\ \A s \in SUBSET D : \A a \in s : g[s] = f[a] + g[s \ {a}]

\* SumFunction, unfolded.
LEMMA SumAdds ==
    ASSUME NEW f PROVE SumFunction(f) = (CHOOSE g : Adds(f, DOMAIN f, g))[DOMAIN f]
  BY DEF SumFunction, SumFunctionOnSet, FoldFunctionOnSet, MapThenFoldSet, Adds

\* Of a set of finite sets one is minimal.
LEMMA Smallest ==
    ASSUME NEW D, IsFiniteSet(D), NEW T \in SUBSET SUBSET D, T # {}
    PROVE  \E s \in T : \A t \in SUBSET s : t # s => t \notin T
<1>1. IsWellFoundedOn(StrictSubsetOrdering(D), SUBSET D)
  BY FS_StrictSubsetOrderingWellFounded, FS_FiniteSubsetsOfFinite
<1>2. PICK s \in T : \A t \in T : <<t, s>> \notin StrictSubsetOrdering(D)
  BY <1>1, WFMin
<1> QED
  BY <1>2 DEF StrictSubsetOrdering

\* A set of numbers has a least one.
LEMMA LeastNumber ==
    ASSUME NEW S \in SUBSET Nat, S # {}
    PROVE  \E m \in S : \A i \in S : m <= i
<1>1. PICK j \in S : TRUE
  OBVIOUS
<1> DEFINE D == 0..j
           T == {s \in SUBSET D : \E i \in S : s = 0..i}
<1>2. IsFiniteSet(D) /\ T \in SUBSET SUBSET D
  BY FS_Interval
<1>3. D \in T
  BY <1>1
<1>4. PICK s \in T : \A t \in SUBSET s : t # s => t \notin T
  <2> HIDE DEF D, T
  <2> QED
    BY <1>2, <1>3, Smallest
<1>5. PICK m \in S : s = 0..m
  OBVIOUS
<1>6. ASSUME NEW i \in S, i < m PROVE FALSE
  <2>1. 0..i \in SUBSET s /\ m \in s /\ m \notin 0..i
    BY <1>5, <1>6
  <2> QED
    BY <1>4, <2>1
<1> QED
  BY <1>6

\* Integers can be added up over any finite set, in any order.
LEMMA SumExists ==
    ASSUME NEW D, IsFiniteSet(D), NEW f \in [D -> Int]
    PROVE  \E g : IsSum(f, D, g)
<1> DEFINE T == {s \in SUBSET D : ~\E g : IsSum(f, s, g)}
<1> SUFFICES ASSUME T # {} PROVE FALSE
  OBVIOUS
<1>0. T \in SUBSET SUBSET D
  OBVIOUS
<1> HIDE DEF T
<1>1. PICK s \in T : \A t \in SUBSET s : t # s => t \notin T
  BY <1>0, Smallest
<1> USE DEF T
<1>2. CASE s = {}
  <2>1. IsSum(f, s, [t \in {{}} |-> 0])
    BY <1>2 DEF IsSum
  <2> QED
    BY <2>1
<1>3. CASE s # {}
  <2>1. PICK a \in s : TRUE
    BY <1>3
  <2>2. PICK h : IsSum(f, s \ {a}, h)
    BY <1>1, <2>1
  <2> DEFINE g == [t \in SUBSET s |-> IF a \in t THEN f[a] + h[t \ {a}] ELSE h[t]]
  <2>3. s \subseteq D /\ f[a] \in Int
    BY <2>1
  <2>4. \A t \in SUBSET s : t \ {a} \in SUBSET (s \ {a})
    OBVIOUS
  <2>5. g \in [SUBSET s -> Int] /\ g[{}] = 0
    BY <2>2, <2>3, <2>4 DEF IsSum
  <2>6. ASSUME NEW t \in SUBSET s, NEW b \in t
        PROVE  g[t] = f[b] + g[t \ {b}]
    <3>1. CASE b = a
      <4>1. g[t] = f[a] + h[t \ {a}] /\ g[t \ {b}] = h[t \ {a}]
        BY <3>1
      <4> QED
        BY <3>1, <4>1
    <3>2. CASE b # a /\ a \notin t
      <4>1. h[t] = f[b] + h[t \ {b}]
        BY <2>2, <3>2 DEF IsSum
      <4>2. g[t] = h[t] /\ g[t \ {b}] = h[t \ {b}]
        BY <3>2
      <4> QED
        BY <4>1, <4>2
    <3>3. CASE b # a /\ a \in t
      <4>1. t \ {a} \in SUBSET (s \ {a}) /\ b \in t \ {a}
        BY <3>3
      <4>2. h[t \ {a}] = f[b] + h[(t \ {a}) \ {b}]
        BY <2>2, <4>1 DEF IsSum
      <4>3. (t \ {a}) \ {b} = (t \ {b}) \ {a}
        OBVIOUS
      <4>4. g[t] = f[a] + h[t \ {a}] /\ g[t \ {b}] = f[a] + h[(t \ {b}) \ {a}]
        BY <3>3
      <4>5. f[b] \in Int /\ h[(t \ {b}) \ {a}] \in Int
        BY <2>2, <2>3, <4>1, <4>3 DEF IsSum
      <4>6. h[t \ {a}] = f[b] + h[(t \ {b}) \ {a}]
        BY <4>2, <4>3
      <4> HIDE DEF g
      <4> QED
        BY <2>3, <4>4, <4>5, <4>6
    <3> QED
      BY <3>1, <3>2, <3>3
  <2>7. IsSum(f, s, g)
    BY <2>5, <2>6 DEF IsSum
  <2> QED
    BY <2>7
<1> QED
  BY <1>2, <1>3

\* SumFunction is the sum.
LEMMA SumIs ==
    ASSUME NEW D, IsFiniteSet(D), NEW f \in [D -> Int], NEW g, IsSum(f, D, g)
    PROVE  SumFunction(f) = g[D]
<1> DEFINE Pick(s) == CHOOSE x \in s : TRUE
<1>1. Adds(f, D, g)
  <2>1. ASSUME NEW s \in SUBSET D
        PROVE  g[s] = IF s = {} THEN 0 ELSE f[Pick(s)] + g[s \ {Pick(s)}]
    <3>1. s # {} => Pick(s) \in s
      OBVIOUS
    <3> QED
      BY <3>1 DEF IsSum
  <2> QED
    BY <2>1, Zenon DEF IsSum, Adds
<1>2. ASSUME NEW h, Adds(f, D, h)
      PROVE  h[D] = g[D]
  <2> DEFINE T == {s \in SUBSET D : h[s] # g[s]}
  <2> SUFFICES ASSUME T # {} PROVE FALSE
    OBVIOUS
  <2>0. T \in SUBSET SUBSET D
    OBVIOUS
  <2> HIDE DEF T
  <2>1. PICK s \in T : \A t \in SUBSET s : t # s => t \notin T
    BY <2>0, Smallest
  <2> USE DEF T
  <2>2. h[s] = (IF s = {} THEN 0 ELSE f[Pick(s)] + h[s \ {Pick(s)}])
    BY <1>2, Zenon DEF Adds
  <2>3. CASE s = {}
    BY <2>2, <2>3 DEF IsSum
  <2>4. CASE s # {}
    <3>1. Pick(s) \in s
      BY <2>4
    <3>2. h[s \ {Pick(s)}] = g[s \ {Pick(s)}]
      BY <2>1, <3>1
    <3>3. g[s] = f[Pick(s)] + g[s \ {Pick(s)}]
      BY <3>1 DEF IsSum
    <3> QED
      BY <2>2, <2>4, <3>2, <3>3
  <2> QED
    BY <2>3, <2>4
<1>3. DOMAIN f = D
  OBVIOUS
<1>4. Adds(f, D, CHOOSE h : Adds(f, D, h))
  BY <1>1
<1> QED
  BY <1>2, <1>3, <1>4, SumAdds

\* Over a part of the set the sums are the same.
LEMMA SumPart ==
    ASSUME NEW D, NEW f, NEW g, IsSum(f, D, g), NEW s \in SUBSET D
    PROVE  IsSum([i \in s |-> f[i]], s, [t \in SUBSET s |-> g[t]])
<1> DEFINE h == [t \in SUBSET s |-> g[t]]
           k == [i \in s |-> f[i]]
<1>1. h \in [SUBSET s -> Int] /\ h[{}] = 0
  BY DEF IsSum
<1>2. ASSUME NEW t \in SUBSET s, NEW a \in t
      PROVE  h[t] = k[a] + h[t \ {a}]
  <2>1. g[t] = f[a] + g[t \ {a}]
    BY DEF IsSum
  <2> QED
    BY <2>1
<1> QED
  BY <1>1, <1>2, Zenon DEF IsSum

\* SumFunction over a part of the set is its sum there.
LEMMA SumOfPart ==
    ASSUME NEW D, IsFiniteSet(D), NEW f \in [D -> Int], NEW g, IsSum(f, D, g), NEW s \in SUBSET D
    PROVE  SumFunction([i \in s |-> f[i]]) = g[s]
<1> DEFINE h == [t \in SUBSET s |-> g[t]]
           k == [i \in s |-> f[i]]
<1>1. IsFiniteSet(s) /\ k \in [s -> Int] /\ h[s] = g[s]
  BY FS_Subset
<1>2. IsSum(k, s, h)
  BY SumPart
<1> HIDE DEF h, k
<1>3. SumFunction(k) = h[s]
  BY <1>1, <1>2, SumIs
<1> QED
  BY <1>1, <1>3 DEF k

\* The sum of integers is an integer.
LEMMA SumType ==
    ASSUME NEW D, IsFiniteSet(D), NEW f \in [D -> Int]
    PROVE  SumFunction(f) \in Int
<1>1. PICK g : IsSum(f, D, g)
  BY SumExists
<1> QED
  <2>1. SumFunction(f) = g[D]
    BY <1>1, SumIs
  <2> QED
    BY <1>1, <2>1 DEF IsSum

\* Renaming what is added up.
LEMMA SumReindex ==
    ASSUME NEW S, NEW D, IsFiniteSet(D), NEW f \in [D -> Int], NEW b \in Bijection(S, D)
    PROVE  SumFunction([s \in S |-> f[b[s]]]) = SumFunction(f)
<1>1. PICK g : IsSum(f, D, g)
  BY SumExists
<1> DEFINE img(t) == {b[x] : x \in t}
           h == [t \in SUBSET S |-> g[img(t)]]
           k == [s \in S |-> f[b[s]]]
<1>2. /\ \A s \in S : b[s] \in D
      /\ \A s, t \in S : b[s] = b[t] => s = t
      /\ \A x \in D : \E s \in S : b[s] = x
  BY DEF Bijection, Injection, Surjection, IsInjective
<1>3. IsFiniteSet(S)
  <2>1. b \in Injection(S, D)
    BY DEF Bijection
  <2> QED
    BY <2>1, FS_Injection
<1>4. k \in [S -> Int] /\ img(S) = D
  BY <1>2
<1>5. h \in [SUBSET S -> Int] /\ h[{}] = 0
  <2>1. \A t \in SUBSET S : img(t) \in SUBSET D
    BY <1>2
  <2>2. img({}) = {}
    OBVIOUS
  <2> HIDE DEF img
  <2> QED
    BY <1>1, <2>1, <2>2 DEF IsSum
<1>6. ASSUME NEW t \in SUBSET S, NEW a \in t
      PROVE  h[t] = k[a] + h[t \ {a}]
  <2>1. img(t) \in SUBSET D /\ b[a] \in img(t) /\ img(t \ {a}) = img(t) \ {b[a]}
    BY <1>2
  <2>2. h[t] = g[img(t)] /\ h[t \ {a}] = g[img(t \ {a})] /\ k[a] = f[b[a]]
    OBVIOUS
  <2>3. g[img(t)] = f[b[a]] + g[img(t) \ {b[a]}]
    <3> HIDE DEF img
    <3> QED
      BY <1>1, <2>1 DEF IsSum
  <2> HIDE DEF img, h, k
  <2> QED
    BY <2>1, <2>2, <2>3
<1>7. IsSum(k, S, h)
  BY <1>5, <1>6, Zenon DEF IsSum
<1>8. h[S] = g[D]
  BY <1>4
<1> HIDE DEF h, k, img
<1>9. SumFunction(k) = h[S]
  BY <1>3, <1>4, <1>7, SumIs
<1>10. SumFunction(f) = g[D]
  BY <1>1, SumIs
<1> QED
  BY <1>8, <1>9, <1>10 DEF k

\* What two parts that share nothing hold, they hold together.
LEMMA SumUnion ==
    ASSUME NEW D, IsFiniteSet(D), NEW f \in [D -> Int], NEW g, IsSum(f, D, g),
           NEW X \in SUBSET D, NEW Y \in SUBSET D, X \cap Y = {}
    PROVE  g[X \cup Y] = g[X] + g[Y]
<1> DEFINE h == [t \in SUBSET Y |-> g[X \cup t] - g[X]]
           k == [i \in Y |-> f[i]]
<1>1. \A t \in SUBSET D : g[t] \in Int
  BY DEF IsSum
<1>2. h \in [SUBSET Y -> Int] /\ h[{}] = 0
  <2>1. \A t \in SUBSET Y : X \cup t \in SUBSET D
    OBVIOUS
  <2>2. X \cup {} = X
    OBVIOUS
  <2> QED
    BY <1>1, <2>1, <2>2
<1>3. ASSUME NEW t \in SUBSET Y, NEW a \in t
      PROVE  h[t] = k[a] + h[t \ {a}]
  <2>1. X \cup t \in SUBSET D /\ a \in X \cup t /\ (X \cup t) \ {a} = X \cup (t \ {a})
    OBVIOUS
  <2>2. g[X \cup t] = f[a] + g[X \cup (t \ {a})]
    BY <2>1 DEF IsSum
  <2>3. h[t] = g[X \cup t] - g[X] /\ h[t \ {a}] = g[X \cup (t \ {a})] - g[X] /\ k[a] = f[a]
    OBVIOUS
  <2>4. f[a] \in Int /\ g[X] \in Int /\ g[X \cup (t \ {a})] \in Int
    BY <1>1
  <2> HIDE DEF h, k
  <2> QED
    BY <2>2, <2>3, <2>4
<1>4. IsSum(k, Y, h)
  BY <1>2, <1>3, Zenon DEF IsSum
<1>5. IsFiniteSet(Y) /\ k \in [Y -> Int] /\ h[Y] = g[X \cup Y] - g[X]
  BY FS_Subset
<1> HIDE DEF h
<1>6. SumFunction(k) = g[X \cup Y] - g[X]
  <2> HIDE DEF k
  <2> QED
    BY <1>4, <1>5, SumIs
<1>7. SumFunction(k) = g[Y]
  BY SumOfPart
<1>8. X \cup Y \in SUBSET D
  OBVIOUS
<1> QED
  BY <1>1, <1>6, <1>7, <1>8

\* Naturals add up to a natural.
LEMMA SumNatural ==
    ASSUME NEW D, IsFiniteSet(D), NEW f \in [D -> Nat]
    PROVE  SumFunction(f) \in Nat
<1>1. f \in [D -> Int]
  OBVIOUS
<1>2. PICK g : IsSum(f, D, g)
  BY <1>1, SumExists
<1>3. SumFunction(f) = g[D]
  BY <1>1, <1>2, SumIs
<1>4. PICK T : T = {s \in SUBSET D : g[s] < 0}
  OBVIOUS
<1>5. CASE T # {}
  <2>1. PICK s \in T : \A t \in SUBSET s : t # s => t \notin T
    BY <1>4, <1>5, Smallest
  <2>2. s \in SUBSET D /\ g[s] < 0
    BY <1>4
  <2>3. g[{}] = 0
    BY <1>2 DEF IsSum
  <2>4. PICK a \in s : TRUE
    BY <2>2, <2>3
  <2>5. PICK t \in SUBSET s : t = s \ {a}
    OBVIOUS
  <2>6. g[s] = f[a] + g[t] /\ g[t] \in Int /\ f[a] \in Nat
    BY <1>2, <2>2, <2>5 DEF IsSum
  <2>7. t # s /\ t \in SUBSET D
    BY <2>2, <2>4, <2>5
  <2>8. ~(g[t] < 0)
    BY <1>4, <2>1, <2>7
  <2> QED
    BY <2>2, <2>6, <2>8
<1>6. CASE T = {}
  <2>1. D \in SUBSET D
    OBVIOUS
  <2>2. ~(g[D] < 0)
    BY <1>4, <1>6, <2>1
  <2>3. g[D] \in Int
    BY <1>2, <2>1 DEF IsSum
  <2> QED
    BY <1>3, <2>2, <2>3
<1> QED
  BY <1>5, <1>6

\* A part of them adds up to no more than the whole.
LEMMA SumOfFewer ==
    ASSUME NEW D, IsFiniteSet(D), NEW f \in [D -> Nat], NEW X \in SUBSET D
    PROVE  SumFunction([i \in X |-> f[i]]) <= SumFunction(f)
<1>1. f \in [D -> Int]
  OBVIOUS
<1>2. PICK g : IsSum(f, D, g)
  BY <1>1, SumExists
<1>3. PICK Y \in SUBSET D : Y = D \ X
  OBVIOUS
<1>4. X \cap Y = {} /\ X \cup Y = D /\ IsFiniteSet(Y)
  BY <1>3, FS_Subset
<1>5. g[X \cup Y] = g[X] + g[Y]
  BY <1>1, <1>2, <1>4, SumUnion
<1>6. SumFunction(f) = g[D]
  BY <1>1, <1>2, SumIs
<1>7. SumFunction([i \in X |-> f[i]]) = g[X] /\ SumFunction([i \in Y |-> f[i]]) = g[Y]
  BY <1>1, <1>2, SumOfPart
<1>8. SumFunction([i \in Y |-> f[i]]) \in Nat
  <2>1. PICK h \in [Y -> Nat] : h = [i \in Y |-> f[i]]
    OBVIOUS
  <2> QED
    BY <1>4, <2>1, SumNatural
<1>9. g[X] \in Int /\ g[Y] \in Int
  BY <1>2 DEF IsSum
<1> QED
  BY <1>4, <1>5, <1>6, <1>7, <1>8, <1>9

\* Some consecutive terms add up to no more than all.
LEMMA SumOfSlice ==
    ASSUME NEW M \in Nat, NEW f \in [1..M -> Nat], NEW c \in Nat, NEW m \in Nat, c + m <= M
    PROVE  SumFunction([j \in 1..m |-> f[c + j]]) <= SumFunction(f)
<1>1. PICK X : X = (c + 1)..(c + m) /\ X \in SUBSET (1..M)
  <2>1. (c + 1)..(c + m) \in SUBSET (1..M)
    OBVIOUS
  <2> QED
    BY <2>1
<1>2. IsFiniteSet(1..M) /\ IsFiniteSet(X)
  <2>1. IsFiniteSet(1..M)
    BY FS_Interval
  <2>2. X \in SUBSET (1..M)
    BY <1>1
  <2>3. IsFiniteSet(X)
    BY ONLY <2>1, <2>2, FS_Subset
  <2> QED
    BY <2>1, <2>3
<1>3. PICK h \in [X -> Nat] : h = [i \in X |-> f[i]]
  <2>1. \A i \in X : f[i] \in Nat
    BY <1>1
  <2> QED
    BY <2>1
<1>4. PICK q : q = [j \in 1..m |-> c + j]
  OBVIOUS
<1>5. q \in Bijection(1..m, X)
  <2>1. q \in [1..m -> X]
    BY <1>1, <1>4
  <2>2. \A i, j \in 1..m : q[i] = q[j] => i = j
    BY <1>4
  <2>3. \A x \in X : \E j \in 1..m : q[j] = x
    <3> SUFFICES ASSUME NEW x \in X PROVE \E j \in 1..m : q[j] = x
      OBVIOUS
    <3>1. x - c \in 1..m /\ c + (x - c) = x
      BY <1>1
    <3> QED
      BY <1>4, <3>1
  <2> QED
    BY <2>1, <2>2, <2>3 DEF Bijection, Injection, Surjection, IsInjective
<1>6. h \in [X -> Int]
  OBVIOUS
<1>7. SumFunction([j \in 1..m |-> h[q[j]]]) = SumFunction(h)
  <2>1. PICK S : S = 1..m
    OBVIOUS
  <2>2. SumFunction([s \in S |-> h[q[s]]]) = SumFunction(h)
    <3>1. IsFiniteSet(X) /\ h \in [X -> Int] /\ q \in Bijection(S, X)
      BY <1>2, <1>5, <1>6, <2>1
    <3> QED
      BY ONLY <3>1, SumReindex
  <2> QED
    BY <2>1, <2>2
<1>8. [j \in 1..m |-> h[q[j]]] = [j \in 1..m |-> f[c + j]]
  BY <1>1, <1>3, <1>4
<1>9. SumFunction(h) <= SumFunction(f)
  BY <1>1, <1>2, <1>3, SumOfFewer
<1> QED
  BY <1>7, <1>8, <1>9

\* A sum is the sum of the sums over the groups its elements fall into.
LEMMA SumByGroup ==
    ASSUME NEW D, IsFiniteSet(D), NEW f \in [D -> Int],
           NEW B, IsFiniteSet(B), NEW part \in [D -> B]
    PROVE  SumFunction(f) =
              SumFunction([b \in B |-> SumFunction([i \in {x \in D : part[x] = b} |-> f[i]])])
<1>1. PICK g : IsSum(f, D, g)
  BY SumExists
<1> DEFINE group(b) == {x \in D : part[x] = b}
           groups(c) == {x \in D : part[x] \in c}
           h == [c \in SUBSET B |-> g[groups(c)]]
           k == [b \in B |-> SumFunction([i \in group(b) |-> f[i]])]
<1>2. \A t \in SUBSET D : g[t] \in Int
  BY <1>1 DEF IsSum
<1>3. ASSUME NEW b \in B PROVE k[b] = g[group(b)]
  <2>1. k[b] = SumFunction([i \in group(b) |-> f[i]])
    OBVIOUS
  <2> HIDE DEF k
  <2> QED
    BY <1>1, <2>1, SumOfPart
<1>4. k \in [B -> Int]
  BY <1>2, <1>3
<1>5. h \in [SUBSET B -> Int] /\ h[{}] = 0
  <2>1. groups({}) = {} /\ \A c \in SUBSET B : groups(c) \in SUBSET D
    OBVIOUS
  <2> HIDE DEF groups
  <2> QED
    BY <1>1, <1>2, <2>1 DEF IsSum
<1>6. ASSUME NEW c \in SUBSET B, NEW b \in c
      PROVE  h[c] = k[b] + h[c \ {b}]
  <2>1. /\ groups(c) = group(b) \cup groups(c \ {b}) /\ group(b) \cap groups(c \ {b}) = {}
        /\ group(b) \in SUBSET D /\ groups(c \ {b}) \in SUBSET D
    OBVIOUS
  <2>2. g[groups(c)] = g[group(b)] + g[groups(c \ {b})]
    <3>1. \A X, Y \in SUBSET D : X \cap Y = {} => g[X \cup Y] = g[X] + g[Y]
      BY <1>1, SumUnion
    <3> HIDE DEF group, groups
    <3> QED
      BY <2>1, <3>1
  <2>3. h[c] = g[groups(c)] /\ h[c \ {b}] = g[groups(c \ {b})] /\ k[b] = g[group(b)]
    BY <1>3
  <2> HIDE DEF h, k, group, groups
  <2> QED
    BY <2>2, <2>3
<1>7. IsSum(k, B, h)
  <2> HIDE DEF h, k
  <2> QED
    BY <1>5, <1>6, Zenon DEF IsSum
<1>8. h[B] = g[D]
  <2>1. groups(B) = D
    OBVIOUS
  <2>2. h[B] = g[groups(B)]
    OBVIOUS
  <2> HIDE DEF h, groups
  <2> QED
    BY <2>1, <2>2
<1>9. SumFunction(k) = h[B]
  <2> HIDE DEF h, k
  <2> QED
    BY <1>4, <1>7, SumIs
<1>10. SumFunction(f) = g[D]
  BY <1>1, SumIs
<1> QED
  BY <1>8, <1>9, <1>10

\* One more element adds its value.
LEMMA SumInsert ==
    ASSUME NEW D, IsFiniteSet(D), NEW a, a \notin D, NEW f \in [D \cup {a} -> Int]
    PROVE  SumFunction(f) = SumFunction([i \in D |-> f[i]]) + f[a]
<1> DEFINE E == D \cup {a}
<1>1. IsFiniteSet(E) /\ E \ {a} = D /\ D \in SUBSET E /\ a \in E
  BY FS_AddElement
<1> HIDE DEF E
<1>2. f \in [E -> Int]
  BY DEF E
<1>3. PICK g : IsSum(f, E, g)
  BY <1>1, <1>2, SumExists
<1>4. SumFunction(f) = g[E] /\ SumFunction([i \in D |-> f[i]]) = g[D]
  BY <1>1, <1>2, <1>3, SumIs, SumOfPart
<1>5. g[E] = f[a] + g[D] /\ g[D] \in Int /\ f[a] \in Int
  BY <1>1, <1>2, <1>3 DEF IsSum
<1> QED
  BY <1>4, <1>5

\* A sum changes by as much as the one term that does.
LEMMA SumChange ==
    ASSUME NEW D, IsFiniteSet(D), NEW a \in D, NEW f \in [D -> Int], NEW h \in [D -> Int],
           \A i \in D \ {a} : h[i] = f[i]
    PROVE  SumFunction(h) = SumFunction(f) + (h[a] - f[a])
<1> DEFINE C == D \ {a}
<1>1. IsFiniteSet(C) /\ a \notin C /\ C \cup {a} = D
  BY FS_Subset
<1>2. [i \in C |-> h[i]] = [i \in C |-> f[i]] /\ [i \in C |-> f[i]] \in [C -> Int]
  OBVIOUS
<1> HIDE DEF C
<1>3. f \in [C \cup {a} -> Int] /\ h \in [C \cup {a} -> Int]
  BY <1>1
<1>4. /\ SumFunction(f) = SumFunction([i \in C |-> f[i]]) + f[a]
      /\ SumFunction(h) = SumFunction([i \in C |-> h[i]]) + h[a]
  BY <1>1, <1>3, SumInsert
<1>5. SumFunction([i \in C |-> f[i]]) \in Int /\ f[a] \in Int /\ h[a] \in Int
  BY <1>1, <1>2, SumType
<1> QED
  BY <1>2, <1>4, <1>5

\* From one number to the next, up to N.
LEMMA Upwards ==
    ASSUME NEW N \in Nat, NEW G, 0 \in G, \A k \in 0..N : k \in G /\ k + 1 \in 0..N => k + 1 \in G
    PROVE  \A k \in 0..N : k \in G
<1> DEFINE T == (0..N) \ G
<1> SUFFICES ASSUME T # {} PROVE FALSE
  OBVIOUS
<1>1. T \in SUBSET Nat
  OBVIOUS
<1>2. PICK m \in T : \A j \in T : m <= j
  <2> HIDE DEF T
  <2> QED
    BY <1>1, LeastNumber
<1>3. m - 1 \in 0..N /\ m - 1 \in G /\ (m - 1) + 1 = m
  BY <1>2
<1> QED
  BY <1>2, <1>3

\* f applies one function after the other, starting from a.
Iterates(f, N, a, g) == f = [n \in 0..N |-> IF n = 0 THEN a ELSE g[n][f[n - 1]]]

\* There is one such sequence.
LEMMA Iteration ==
    ASSUME NEW S, NEW N \in Nat, NEW a \in S, NEW g \in [1..N -> [S -> S]]
    PROVE  \E f \in [0..N -> S] : Iterates(f, N, a, g) /\ \A e : Iterates(e, N, a, g) => e = f
<1> DEFINE Follows(f, k) == f[0] = a /\ \A n \in 1..k : f[n] = g[n][f[n - 1]]
           Good == {k \in 0..N : \E f \in [0..k -> S] : Follows(f, k)}
<1>1. 0 \in Good
  <2> DEFINE f == [n \in 0..0 |-> a]
  <2>1. f \in [0..0 -> S] /\ Follows(f, 0)
    OBVIOUS
  <2> HIDE DEF f, Follows
  <2> QED
    BY <2>1
<1>2. ASSUME NEW k \in Good, k + 1 \in 0..N PROVE k + 1 \in Good
  <2>1. PICK f \in [0..k -> S] : Follows(f, k)
    OBVIOUS
  <2> DEFINE h == [n \in 0..(k + 1) |-> IF n = k + 1 THEN g[k + 1][f[k]] ELSE f[n]]
  <2>2. k \in 0..N /\ g[k + 1] \in [S -> S] /\ f[k] \in S
    BY <1>2
  <2>3. h \in [0..(k + 1) -> S]
    BY <2>2
  <2>4. h[0] = a
    BY <2>1, <2>2
  <2>5. ASSUME NEW n \in 1..(k + 1) PROVE h[n] = g[n][h[n - 1]]
    <3>1. CASE n = k + 1
      BY <2>2, <3>1
    <3>2. CASE n # k + 1
      <4>1. n \in 1..k /\ n - 1 \in 0..k /\ n - 1 # k + 1
        BY <2>2, <3>2
      <4> QED
        BY <2>1, <2>2, <3>2, <4>1
    <3> QED
      BY <3>1, <3>2
  <2> HIDE DEF h
  <2>6. Follows(h, k + 1)
    BY <2>4, <2>5
  <2> HIDE DEF Follows
  <2> QED
    BY <1>2, <2>3, <2>6
<1>3. N \in Good
  <2>1. \A k \in 0..N : k \in Good /\ k + 1 \in 0..N => k + 1 \in Good
    BY <1>2
  <2> HIDE DEF Good
  <2>2. \A k \in 0..N : k \in Good
    BY <1>1, <2>1, Upwards
  <2> QED
    BY <2>2
<1>4. PICK f \in [0..N -> S] : Follows(f, N)
  BY <1>3
<1> DEFINE Step(e) == [n \in 0..N |-> IF n = 0 THEN a ELSE g[n][e[n - 1]]]
<1>5. ASSUME NEW e, NEW n \in 0..N, n # 0 PROVE n \in 1..N /\ n - 1 \in 0..N /\ Step(e)[n] = g[n][e[n - 1]]
  BY <1>5
<1>6. f = Step(f)
  <2>1. \A n \in 0..N : f[n] = Step(f)[n]
    BY <1>4, <1>5
  <2>2. DOMAIN Step(f) = 0..N /\ f = [n \in 0..N |-> f[n]] /\ Step(f) = [n \in 0..N |-> Step(f)[n]]
    OBVIOUS
  <2> HIDE DEF Step, Follows
  <2> QED
    BY <2>1, <2>2
<1>7. ASSUME NEW e, e = Step(e) PROVE e = f
  <2> DEFINE Same == {n \in 0..N : e[n] = f[n]}
  <2>1. e[0] = a /\ e = [n \in 0..N |-> e[n]]
    BY <1>7
  <2>2. 0 \in Same
    BY <1>4, <2>1
  <2>3. ASSUME NEW k \in Same, k + 1 \in 0..N PROVE k + 1 \in Same
    <3>1. k \in 0..N /\ k + 1 # 0 /\ (k + 1) - 1 = k /\ e[k] = f[k] /\ k + 1 \in 1..N
      BY <2>3
    <3>2. e[k + 1] = g[k + 1][e[k]]
      <4>1. Step(e)[k + 1] = g[k + 1][e[(k + 1) - 1]]
        BY <1>5, <2>3, <3>1
      <4> HIDE DEF Step
      <4> QED
        BY <1>7, <3>1, <4>1
    <3>3. f[k + 1] = g[k + 1][f[k]]
      BY <1>4, <3>1
    <3> QED
      BY <2>3, <3>1, <3>2, <3>3
  <2>4. \A n \in 0..N : n \in Same
    <3> HIDE DEF Same, Step, Follows
    <3> QED
      BY <2>2, <2>3, Upwards
  <2> HIDE DEF Step, Follows
  <2> QED
    BY <2>1, <2>4
<1> HIDE DEF Follows
<1> QED
  BY <1>6, <1>7 DEF Iterates
=============================================================================
