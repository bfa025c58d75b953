-------------------------------- MODULE Sums --------------------------------
(***************************************************************************)
(* Sums over finite sets.  MapThenSumSet of the community modules adds the *)
(* elements up in the order in which CHOOSE picks them; these lemmas say   *)
(* that the order does not matter, and what a sum over a part, a union or  *)
(* a smaller set is.  Each is proved from a least counterexample.          *)
(***************************************************************************)
EXTENDS Integers, FiniteSets, FiniteSetTheorems, TLAPS

Chosen(s) == CHOOSE x \in s : TRUE
(* g adds a up over every subset of S, in the order of Chosen.             *)
AddsUp(g, a, S) ==
    g = [s \in SUBSET S |-> IF s = {} THEN 0 ELSE a[Chosen(s)] + g[s \ {Chosen(s)}]]
SumIn(a, S) == (CHOOSE g : AddsUp(g, a, S))[S]
(* g adds a up over each part of S that f tells apart.                     *)
ByParts(g, a, f, S, K) == \A k \in K : g[k] = SumIn(a, {x \in S : f[x] = k})

(* Among the parts of a finite set that are bad, one has no bad part.      *)
LEMMA SmallestPart ==
    ASSUME NEW S, IsFiniteSet(S), NEW C, C \subseteq SUBSET S, C # {}
    PROVE  \E T \in C : \A U \in C : U \subseteq T => U = T
<1>1. C \subseteq FiniteSubsetsOf(S)
  BY FS_FiniteSubsetsOfFinite
<1>2. PICK T \in C : \A U \in C : ~(<<U, T>> \in StrictSubsetOrdering(S))
  BY <1>1, FS_StrictSubsetOrderingWellFounded, WFMin
<1> QED BY <1>2 DEF StrictSubsetOrdering

LEMMA ChosenIsIn == ASSUME NEW s, s # {} PROVE Chosen(s) \in s
BY DEF Chosen

(* Two ways to add up agree where both say something.                      *)
LEMMA OneWayToAddUp ==
    ASSUME NEW S, NEW T \in SUBSET S, IsFiniteSet(T), NEW a, NEW g, NEW h,
           AddsUp(g, a, S), AddsUp(h, a, T), NEW s \in SUBSET T
    PROVE  g[s] = h[s]
<1> DEFINE C == {u \in SUBSET T : g[u] # h[u]}
<1>1. SUFFICES ASSUME C # {} PROVE FALSE
  OBVIOUS
<1>2. PICK m \in C : \A u \in C : u \subseteq m => u = m
  <2>1. C \subseteq SUBSET T
    OBVIOUS
  <2> HIDE DEF C
  <2> QED BY <1>1, <2>1, SmallestPart
<1>3. CASE m = {}
  BY <1>2, <1>3 DEF AddsUp
<1>4. CASE m # {}
  <2>1. Chosen(m) \in m
    BY <1>4, ChosenIsIn
  <2>2. g[m \ {Chosen(m)}] = h[m \ {Chosen(m)}]
    BY <1>2, <2>1
  <2>3. /\ g[m] = a[Chosen(m)] + g[m \ {Chosen(m)}]
        /\ h[m] = a[Chosen(m)] + h[m \ {Chosen(m)}]
    BY <1>2, <1>4 DEF AddsUp
  <2> QED BY <1>2, <2>2, <2>3
<1> QED BY <1>3, <1>4

(* A finite set can be added up.                                           *)
LEMMA SomeWayToAddUp == ASSUME NEW a, NEW S, IsFiniteSet(S) PROVE \E g : AddsUp(g, a, S)
<1> DEFINE C == {T \in SUBSET S : ~ \E g : AddsUp(g, a, T)}
<1>1. SUFFICES ASSUME C # {} PROVE FALSE
  OBVIOUS
<1>2. PICK T \in C : \A U \in C : U \subseteq T => U = T
  <2>1. C \subseteq SUBSET S
    OBVIOUS
  <2> HIDE DEF C
  <2> QED BY <1>1, <2>1, SmallestPart
<1> DEFINE of(U) == CHOOSE g : AddsUp(g, a, U)
           f == [s \in SUBSET T |->
                   IF s = {} THEN 0 ELSE a[Chosen(s)] + of(s \ {Chosen(s)})[s \ {Chosen(s)}]]
<1>3. ASSUME NEW U \in SUBSET T, U # T PROVE AddsUp(of(U), a, U)
  <2>1. \E g : AddsUp(g, a, U)
    BY <1>2, <1>3
  <2> QED BY <2>1
<1>4. ASSUME NEW s \in SUBSET T, s # T PROVE f[s] = of(s)[s]
  <2>1. AddsUp(of(s), a, s)
    BY <1>3, <1>4
  <2> HIDE DEF of
  <2>2. CASE s = {}
    BY <2>1, <2>2 DEF AddsUp
  <2>3. CASE s # {}
    <3> DEFINE r == s \ {Chosen(s)}
    <3>1. Chosen(s) \in s /\ r \in SUBSET s /\ r \in SUBSET T /\ r # T
      BY <1>4, <2>3, ChosenIsIn
    <3>2. AddsUp(of(r), a, r) /\ IsFiniteSet(r)
      BY <1>2, <1>3, <3>1, FS_Subset
    <3>3. of(s)[r] = of(r)[r]
      <4>1. r \in SUBSET r
        OBVIOUS
      <4> HIDE DEF r
      <4> QED BY <2>1, <3>1, <3>2, <4>1, OneWayToAddUp
    <3>4. of(s)[s] = a[Chosen(s)] + of(s)[r]
      BY <2>1, <2>3 DEF AddsUp
    <3> QED BY <1>4, <2>3, <3>3, <3>4
  <2> QED BY <2>2, <2>3
<1>5. ASSUME NEW s \in SUBSET T, s # {}
      PROVE  f[s] = a[Chosen(s)] + f[s \ {Chosen(s)}]
  <2>1. Chosen(s) \in s
    BY <1>5, ChosenIsIn
  <2>2. s \ {Chosen(s)} \in SUBSET T /\ s \ {Chosen(s)} # T
    BY <2>1
  <2>3. f[s \ {Chosen(s)}] = of(s \ {Chosen(s)})[s \ {Chosen(s)}]
    BY <1>4, <2>2
  <2> QED BY <1>5, <2>3
<1>6. f = [s \in SUBSET T |-> IF s = {} THEN 0 ELSE a[Chosen(s)] + f[s \ {Chosen(s)}]]
  <2>1. f[{}] = 0 /\ f = [s \in SUBSET T |-> f[s]]
    OBVIOUS
  <2> HIDE DEF f
  <2> QED BY <1>5, <2>1
<1> HIDE DEF f
<1> QED BY <1>2, <1>6 DEF AddsUp

(* Whatever adds a up over S gives its sum.                                *)
LEMMA SumIs ==
    ASSUME NEW S, IsFiniteSet(S), NEW a, NEW g, AddsUp(g, a, S)
    PROVE  SumIn(a, S) = g[S]
<1>1. PICK h : h = (CHOOSE f : AddsUp(f, a, S))
  OBVIOUS
<1>2. AddsUp(h, a, S)
  BY <1>1
<1>3. h[S] = g[S]
  BY <1>2, OneWayToAddUp
<1> QED BY <1>1, <1>3 DEF SumIn

(* The sum of nothing, and of something.                                   *)
LEMMA SumOfParts ==
    ASSUME NEW a, NEW S, IsFiniteSet(S)
    PROVE  /\ S = {} => SumIn(a, S) = 0
           /\ S # {} => SumIn(a, S) = a[Chosen(S)] + SumIn(a, S \ {Chosen(S)})
<1> DEFINE of(U) == CHOOSE g : AddsUp(g, a, U)
           R == S \ {Chosen(S)}
<1>1. R \in SUBSET S /\ IsFiniteSet(R)
  BY FS_Subset
<1>2. AddsUp(of(S), a, S) /\ AddsUp(of(R), a, R)
  BY <1>1, SomeWayToAddUp
<1>3. SumIn(a, S) = of(S)[S] /\ SumIn(a, R) = of(R)[R]
  BY DEF SumIn
<1> HIDE DEF of
<1>4. of(S)[R] = of(R)[R]
  <2>1. R \in SUBSET R
    OBVIOUS
  <2> HIDE DEF R
  <2> QED BY <1>1, <1>2, <2>1, OneWayToAddUp
<1>5. S = {} => of(S)[S] = 0
  BY <1>2 DEF AddsUp
<1>6. S # {} => of(S)[S] = a[Chosen(S)] + of(S)[R]
  BY <1>2 DEF AddsUp
<1> QED BY <1>3, <1>4, <1>5, <1>6

(* A sum of integers is one, and a sum of naturals.                        *)
LEMMA SumIsInt ==
    ASSUME NEW S, IsFiniteSet(S), NEW a, \A x \in S : a[x] \in Int
    PROVE  SumIn(a, S) \in Int
<1> DEFINE C == {T \in SUBSET S : SumIn(a, T) \notin Int}
<1>1. SUFFICES ASSUME C # {} PROVE FALSE
  OBVIOUS
<1>2. PICK T \in C : \A U \in C : U \subseteq T => U = T
  <2>1. C \subseteq SUBSET S
    OBVIOUS
  <2> HIDE DEF C
  <2> QED BY <1>1, <2>1, SmallestPart
<1>3. IsFiniteSet(T)
  BY <1>2, FS_Subset
<1>4. T # {}
  <2>1. T = {} => SumIn(a, T) = 0
    BY <1>3, SumOfParts
  <2> QED BY <1>2, <2>1
<1>5. Chosen(T) \in T
  BY <1>4, ChosenIsIn
<1>6. SumIn(a, T \ {Chosen(T)}) \in Int
  BY <1>2, <1>5
<1>7. SumIn(a, T) = a[Chosen(T)] + SumIn(a, T \ {Chosen(T)})
  BY <1>3, <1>4, SumOfParts
<1> QED BY <1>2, <1>5, <1>6, <1>7

LEMMA SumIsNat ==
    ASSUME NEW S, IsFiniteSet(S), NEW a, \A x \in S : a[x] \in Nat
    PROVE  SumIn(a, S) \in Nat
<1> DEFINE C == {T \in SUBSET S : SumIn(a, T) \notin Nat}
<1>1. SUFFICES ASSUME C # {} PROVE FALSE
  OBVIOUS
<1>2. PICK T \in C : \A U \in C : U \subseteq T => U = T
  <2>1. C \subseteq SUBSET S
    OBVIOUS
  <2> HIDE DEF C
  <2> QED BY <1>1, <2>1, SmallestPart
<1>3. IsFiniteSet(T)
  BY <1>2, FS_Subset
<1>4. T # {}
  <2>1. T = {} => SumIn(a, T) = 0
    BY <1>3, SumOfParts
  <2> QED BY <1>2, <2>1
<1>5. Chosen(T) \in T
  BY <1>4, ChosenIsIn
<1>6. SumIn(a, T \ {Chosen(T)}) \in Nat
  BY <1>2, <1>5
<1>7. SumIn(a, T) = a[Chosen(T)] + SumIn(a, T \ {Chosen(T)})
  BY <1>3, <1>4, SumOfParts
<1> QED BY <1>2, <1>5, <1>6, <1>7

(* Any element may be taken out first.                                     *)
LEMMA SumWithout ==
    ASSUME NEW S, IsFiniteSet(S), NEW a, \A x \in S : a[x] \in Int, NEW y \in S
    PROVE  SumIn(a, S) = a[y] + SumIn(a, S \ {y})
<1> DEFINE C == {T \in SUBSET S : \E z \in T : SumIn(a, T) # a[z] + SumIn(a, T \ {z})}
<1>1. SUFFICES ASSUME C # {} PROVE FALSE
  OBVIOUS
<1>2. PICK T \in C : \A U \in C : U \subseteq T => U = T
  <2>1. C \subseteq SUBSET S
    OBVIOUS
  <2> HIDE DEF C
  <2> QED BY <1>1, <2>1, SmallestPart
<1>3. PICK z \in T : SumIn(a, T) # a[z] + SumIn(a, T \ {z})
  BY <1>2
<1>4. PICK x : x = Chosen(T)
  OBVIOUS
<1>5. IsFiniteSet(T) /\ T \in SUBSET S /\ x \in T
  BY <1>2, <1>3, <1>4, ChosenIsIn, FS_Subset
<1>6. SumIn(a, T) = a[x] + SumIn(a, T \ {x})
  BY <1>3, <1>4, <1>5, SumOfParts
<1>7. x # z
  BY <1>3, <1>6
<1>c. ASSUME NEW u \in T, NEW v \in T, u # v
      PROVE  SumIn(a, T \ {u}) = a[v] + SumIn(a, (T \ {u}) \ {v})
  <2>1. T \ {u} \notin C
    BY <1>2
  <2>2. T \ {u} \in SUBSET S /\ v \in T \ {u}
    BY <1>5, <1>c
  <2> QED BY <2>1, <2>2
<1>8. SumIn(a, T \ {x}) = a[z] + SumIn(a, (T \ {x}) \ {z})
  BY <1>3, <1>5, <1>7, <1>c
<1>9. SumIn(a, T \ {z}) = a[x] + SumIn(a, (T \ {z}) \ {x})
  BY <1>3, <1>5, <1>7, <1>c
<1>10. (T \ {x}) \ {z} = (T \ {z}) \ {x}
  OBVIOUS
<1>11. SumIn(a, (T \ {x}) \ {z}) \in Int
  <2>1. IsFiniteSet((T \ {x}) \ {z}) /\ (T \ {x}) \ {z} \subseteq S
    BY <1>5, FS_Subset
  <2> QED BY <2>1, SumIsInt
<1>12. a[x] \in Int /\ a[z] \in Int
  BY <1>3, <1>5
<1>13. PICK n \in Int : n = SumIn(a, (T \ {x}) \ {z})
  BY <1>11
<1>14. SumIn(a, T) = a[x] + (a[z] + n) /\ a[z] + SumIn(a, T \ {z}) = a[z] + (a[x] + n)
  BY <1>6, <1>8, <1>9, <1>10, <1>13
<1>15. a[x] + (a[z] + n) = a[z] + (a[x] + n)
  BY <1>12, <1>13
<1> QED BY <1>3, <1>14, <1>15

LEMMA SumWith ==
    ASSUME NEW S, IsFiniteSet(S), NEW a, NEW y, y \notin S, \A x \in S \cup {y} : a[x] \in Int
    PROVE  SumIn(a, S \cup {y}) = a[y] + SumIn(a, S)
<1>1. IsFiniteSet(S \cup {y}) /\ (S \cup {y}) \ {y} = S
  BY FS_AddElement
<1> QED BY <1>1, SumWithout

(* Sums of the same amounts are equal.                                     *)
LEMMA SumOfSame ==
    ASSUME NEW S, IsFiniteSet(S), NEW a, NEW b, \A x \in S : a[x] = b[x]
    PROVE  SumIn(a, S) = SumIn(b, S)
<1> DEFINE C == {T \in SUBSET S : SumIn(a, T) # SumIn(b, T)}
<1>1. SUFFICES ASSUME C # {} PROVE FALSE
  OBVIOUS
<1>2. PICK T \in C : \A U \in C : U \subseteq T => U = T
  <2>1. C \subseteq SUBSET S
    OBVIOUS
  <2> HIDE DEF C
  <2> QED BY <1>1, <2>1, SmallestPart
<1>3. IsFiniteSet(T)
  BY <1>2, FS_Subset
<1>4. T # {}
  BY <1>2, <1>3, SumOfParts
<1>5. Chosen(T) \in T
  BY <1>4, ChosenIsIn
<1>6. SumIn(a, T \ {Chosen(T)}) = SumIn(b, T \ {Chosen(T)}) /\ a[Chosen(T)] = b[Chosen(T)]
  BY <1>2, <1>5
<1> QED BY <1>2, <1>3, <1>4, <1>6, SumOfParts

(* The sum of a union that does not overlap.                               *)
LEMMA SumOfUnion ==
    ASSUME NEW S, IsFiniteSet(S), NEW T, IsFiniteSet(T), S \cap T = {},
           NEW a, \A x \in S \cup T : a[x] \in Int
    PROVE  SumIn(a, S \cup T) = SumIn(a, S) + SumIn(a, T)
<1> DEFINE C == {U \in SUBSET T : SumIn(a, S \cup U) # SumIn(a, S) + SumIn(a, U)}
<1>1. SUFFICES ASSUME C # {} PROVE FALSE
  OBVIOUS
<1>2. PICK U \in C : \A V \in C : V \subseteq U => V = U
  <2>1. C \subseteq SUBSET T
    OBVIOUS
  <2> HIDE DEF C
  <2> QED BY <1>1, <2>1, SmallestPart
<1>3. IsFiniteSet(U) /\ U \in SUBSET T
  BY <1>2, FS_Subset
<1>4. SumIn(a, S) \in Int
  BY SumIsInt
<1>5. PICK x \in U : TRUE
  <2>1. CASE U = {}
    <3>1. SumIn(a, U) = 0
      BY <1>3, <2>1, SumOfParts
    <3>2. SumIn(a, S \cup U) = SumIn(a, S) /\ SumIn(a, S \cup U) # SumIn(a, S) + SumIn(a, U)
      <4>1. S \cup U = S
        BY <2>1
      <4> QED BY <1>2, <4>1
    <3> QED BY <1>4, <3>1, <3>2
  <2> QED BY <2>1
<1>6. PICK V : V = U \ {x}
  OBVIOUS
<1>7. SumIn(a, S \cup V) = SumIn(a, S) + SumIn(a, V)
  BY <1>2, <1>5, <1>6
<1>8. SumIn(a, U) = a[x] + SumIn(a, V)
  BY <1>3, <1>5, <1>6, SumWithout
<1>9. SumIn(a, S \cup U) = a[x] + SumIn(a, S \cup V)
  <2>1. IsFiniteSet(S \cup U) /\ x \in S \cup U /\ (S \cup U) \ {x} = S \cup V
    BY <1>3, <1>5, <1>6, FS_Union
  <2>2. \A y \in S \cup U : a[y] \in Int
    BY <1>3
  <2> QED BY <2>1, <2>2, SumWithout
<1>10. SumIn(a, V) \in Int /\ a[x] \in Int
  <2>1. IsFiniteSet(V) /\ V \subseteq T
    BY <1>3, <1>6, FS_Subset
  <2> QED BY <1>3, <1>5, <2>1, SumIsInt
<1> QED BY <1>2, <1>4, <1>7, <1>8, <1>9, <1>10

(* A part adds up to no more than the whole.                               *)
LEMMA SumOfPart ==
    ASSUME NEW S, IsFiniteSet(S), NEW T \in SUBSET S, NEW a, \A x \in S : a[x] \in Nat
    PROVE  /\ SumIn(a, T) \in Nat /\ SumIn(a, S \ T) \in Nat
           /\ SumIn(a, S) = SumIn(a, T) + SumIn(a, S \ T)
           /\ SumIn(a, T) <= SumIn(a, S)
<1>1. IsFiniteSet(T) /\ IsFiniteSet(S \ T) /\ T \cap (S \ T) = {} /\ T \cup (S \ T) = S
  BY FS_Subset
<1>2. SumIn(a, T) \in Nat /\ SumIn(a, S \ T) \in Nat
  BY <1>1, SumIsNat
<1>3. \A x \in T \cup (S \ T) : a[x] \in Int
  OBVIOUS
<1>4. SumIn(a, S) = SumIn(a, T) + SumIn(a, S \ T)
  BY <1>1, <1>3, SumOfUnion
<1> QED BY <1>2, <1>4

(* A sum by parts is the sum of the sums of the parts.                     *)
LEMMA SumByParts ==
    ASSUME NEW S, IsFiniteSet(S), NEW K, IsFiniteSet(K), NEW f, \A x \in S : f[x] \in K,
           NEW a, \A x \in S : a[x] \in Int,
           NEW g, ByParts(g, a, f, S, K)
    PROVE  SumIn(a, S) = SumIn(g, K)
<1>0. \A k \in K : g[k] = SumIn(a, {x \in S : f[x] = k})
  BY DEF ByParts
<1> DEFINE Of(L) == {x \in S : f[x] \in L}
           C == {L \in SUBSET K : SumIn(a, Of(L)) # SumIn(g, L)}
<1>1. SUFFICES ASSUME C # {} PROVE FALSE
  <2>1. Of(K) = S
    OBVIOUS
  <2>2. K \notin C
    BY <1>1
  <2>3. SumIn(a, Of(K)) = SumIn(g, K)
    BY <2>2
  <2> QED BY <2>1, <2>3
<1>2. PICK L \in C : \A M \in C : M \subseteq L => M = L
  <2>1. C \subseteq SUBSET K
    OBVIOUS
  <2> HIDE DEF C
  <2> QED BY <1>1, <2>1, SmallestPart
<1>3. IsFiniteSet(L) /\ L \in SUBSET K
  BY <1>2, FS_Subset
<1>4. PICK k \in L : TRUE
  <2>1. CASE L = {}
    <3>1. Of(L) = {}
      BY <2>1
    <3>2. SumIn(a, {}) = 0 /\ SumIn(g, {}) = 0
      BY SumOfParts, FS_EmptySet
    <3> QED BY <1>2, <2>1, <3>1, <3>2
  <2> QED BY <2>1
<1>5. PICK M : M = L \ {k}
  OBVIOUS
<1>6. SumIn(a, Of(M)) = SumIn(g, M)
  BY <1>2, <1>4, <1>5
<1>7. SumIn(g, L) = g[k] + SumIn(g, M)
  <2>1. \A x \in K : g[x] \in Int
    <3>1. ASSUME NEW x \in K PROVE g[x] \in Int
      <4> DEFINE P == {y \in S : f[y] = x}
      <4>1. IsFiniteSet(P) /\ P \subseteq S
        BY FS_Subset
      <4> HIDE DEF P
      <4>2. SumIn(a, P) \in Int
        BY <4>1, SumIsInt
      <4> QED BY <1>0, <4>2 DEF P
    <3> QED BY <3>1
  <2> QED BY <1>3, <1>4, <1>5, <2>1, SumWithout
<1>8. SumIn(a, Of(L)) = g[k] + SumIn(a, Of(M))
  <2> DEFINE P == {x \in S : f[x] = k}
             Q == Of(M)
  <2>1. Of(L) = P \cup Q /\ P \cap Q = {} /\ P \subseteq S /\ Q \subseteq S
    BY <1>4, <1>5
  <2>2. g[k] = SumIn(a, P)
    BY <1>0, <1>3, <1>4
  <2> HIDE DEF P, Q, Of
  <2>3. IsFiniteSet(P) /\ IsFiniteSet(Q)
    BY <2>1, FS_Subset
  <2>4. \A x \in P \cup Q : a[x] \in Int
    BY <2>1
  <2>5. SumIn(a, P \cup Q) = SumIn(a, P) + SumIn(a, Q)
    BY <2>1, <2>3, <2>4, SumOfUnion
  <2> QED BY <2>1, <2>2, <2>5 DEF Q
<1> QED BY <1>2, <1>6, <1>7, <1>8

(* The difference of two sums, and of equal amounts.                       *)
LEMMA SumOfDifference ==
    ASSUME NEW S, IsFiniteSet(S), NEW a, \A x \in S : a[x] \in Int,
           NEW b, \A x \in S : b[x] \in Int, NEW c, \A x \in S : c[x] = a[x] - b[x]
    PROVE  SumIn(c, S) = SumIn(a, S) - SumIn(b, S)
<1> DEFINE C == {T \in SUBSET S : SumIn(c, T) # SumIn(a, T) - SumIn(b, T)}
<1>1. SUFFICES ASSUME C # {} PROVE FALSE
  OBVIOUS
<1>2. PICK T \in C : \A U \in C : U \subseteq T => U = T
  <2>1. C \subseteq SUBSET S
    OBVIOUS
  <2> HIDE DEF C
  <2> QED BY <1>1, <2>1, SmallestPart
<1>3. IsFiniteSet(T) /\ T \in SUBSET S
  BY <1>2, FS_Subset
<1>4. T # {}
  <2>1. SumIn(a, {}) = 0 /\ SumIn(b, {}) = 0 /\ SumIn(c, {}) = 0
    BY SumOfParts, FS_EmptySet
  <2>2. SumIn(c, {}) = SumIn(a, {}) - SumIn(b, {})
    BY <2>1
  <2>3. SumIn(c, T) # SumIn(a, T) - SumIn(b, T)
    BY <1>2
  <2> HIDE DEF C
  <2> QED BY <2>2, <2>3
<1>5. PICK x : x = Chosen(T)
  OBVIOUS
<1>6. x \in T
  BY <1>4, <1>5, ChosenIsIn
<1>7. PICK U : U = T \ {x}
  OBVIOUS
<1>8. SumIn(c, U) = SumIn(a, U) - SumIn(b, U)
  BY <1>2, <1>6, <1>7
<1>9. SumIn(a, U) \in Int /\ SumIn(b, U) \in Int
  <2>1. IsFiniteSet(U) /\ U \subseteq S
    BY <1>3, <1>7, FS_Subset
  <2> QED BY <2>1, SumIsInt
<1>10. /\ SumIn(a, T) = a[x] + SumIn(a, U) /\ SumIn(b, T) = b[x] + SumIn(b, U)
       /\ SumIn(c, T) = c[x] + SumIn(c, U)
  BY <1>3, <1>4, <1>5, <1>7, SumOfParts
<1>11. c[x] = a[x] - b[x] /\ a[x] \in Int /\ b[x] \in Int
  BY <1>3, <1>6
<1> QED BY <1>2, <1>8, <1>9, <1>10, <1>11

LEMMA SumOfZeros ==
    ASSUME NEW S, IsFiniteSet(S), NEW a, \A x \in S : a[x] = 0
    PROVE  SumIn(a, S) = 0
<1>1. \A x \in S : a[x] \in Int /\ a[x] = a[x] - a[x]
  OBVIOUS
<1>2. SumIn(a, S) = SumIn(a, S) - SumIn(a, S) /\ SumIn(a, S) \in Int
  BY <1>1, SumIsInt, SumOfDifference
<1> QED BY <1>2

(* More about sums: of a part, by what the whole has there; of two; of one. *)
LEMMA SumWithin ==
    ASSUME NEW S, IsFiniteSet(S), NEW T \in SUBSET S, NEW a, \A x \in S : a[x] \in Int,
           NEW u, \A x \in T : u[x] = a[x], \A x \in S \ T : a[x] = 0
    PROVE  SumIn(u, T) = SumIn(a, S)
<1>1. IsFiniteSet(T) /\ IsFiniteSet(S \ T) /\ T \cap (S \ T) = {} /\ T \cup (S \ T) = S
  BY FS_Subset
<1>2. SumIn(u, T) = SumIn(a, T) /\ SumIn(a, T) \in Int
  BY <1>1, SumOfSame, SumIsInt
<1>3. SumIn(a, S \ T) = 0
  BY <1>1, SumOfZeros
<1>4. \A x \in T \cup (S \ T) : a[x] \in Int
  OBVIOUS
<1>5. SumIn(a, T \cup (S \ T)) = SumIn(a, T) + SumIn(a, S \ T)
  BY <1>1, <1>4, SumOfUnion
<1>6. SumIn(a, S) = SumIn(a, T) + 0
  BY <1>1, <1>3, <1>5, Zenon
<1> QED BY <1>2, <1>6

LEMMA SumOfTwo ==
    ASSUME NEW S, IsFiniteSet(S), NEW a, \A x \in S : a[x] \in Int,
           NEW b, \A x \in S : b[x] \in Int, NEW c, \A x \in S : c[x] = a[x] + b[x]
    PROVE  SumIn(c, S) = SumIn(a, S) + SumIn(b, S)
<1>1. \A x \in S : c[x] \in Int /\ a[x] = c[x] - b[x]
  OBVIOUS
<1>2. SumIn(a, S) = SumIn(c, S) - SumIn(b, S)
  BY <1>1, SumOfDifference
<1>3. SumIn(b, S) \in Int /\ SumIn(c, S) \in Int
  BY <1>1, SumIsInt
<1> QED BY <1>2, <1>3

LEMMA SumOfOne == ASSUME NEW a, NEW x, a[x] \in Int PROVE SumIn(a, {x}) = a[x]
<1>1. IsFiniteSet({x}) /\ IsFiniteSet({}) /\ {x} \ {x} = {}
  BY FS_Singleton, FS_EmptySet
<1>2. SumIn(a, {}) = 0
  BY <1>1, SumOfParts
<1>3. SumIn(a, {x}) = a[x] + SumIn(a, {x} \ {x})
  BY <1>1, SumWithout
<1> QED BY <1>1, <1>2, <1>3

(* Terms that are near in proportion have sums that are near.              *)
LEMMA SumNear ==
    ASSUME NEW S, IsFiniteSet(S), NEW a, NEW b, \A x \in S : a[x] \in Int /\ b[x] \in Int,
           NEW p \in Int, NEW q \in Int, NEW e \in Int,
           \A x \in S : p * a[x] <= q * b[x] + e
    PROVE  p * SumIn(a, S) <= q * SumIn(b, S) + e * Cardinality(S)
<1> DEFINE Near(T) == p * SumIn(a, T) <= q * SumIn(b, T) + e * Cardinality(T)
           C == {T \in SUBSET S : ~Near(T)}
<1>1. SUFFICES ASSUME C # {} PROVE FALSE
  OBVIOUS
<1>2. PICK T \in C : \A U \in C : U \subseteq T => U = T
  <2>1. C \subseteq SUBSET S
    OBVIOUS
  <2> HIDE DEF C
  <2> QED BY <1>1, <2>1, SmallestPart
<1>3. IsFiniteSet(T) /\ \A x \in T : a[x] \in Int /\ b[x] \in Int
  BY <1>2, FS_Subset
<1>4. T # {}
  <2>1. T = {} => SumIn(a, T) = 0 /\ SumIn(b, T) = 0 /\ Cardinality(T) = 0
    BY <1>3, SumOfParts, FS_EmptySet
  <2> QED BY <1>2, <2>1
<1>5. PICK y \in T : TRUE
  BY <1>4
<1> DEFINE U == T \ {y}
<1>6. Near(U) /\ IsFiniteSet(U) /\ Cardinality(T) = Cardinality(U) + 1 /\ Cardinality(U) \in Nat
  <2>1. U \in SUBSET S /\ U # T
    BY <1>2, <1>5
  <2>2. Near(U)
    BY <1>2, <2>1
  <2>3. IsFiniteSet(U) /\ Cardinality(U) = Cardinality(T) - 1 /\ Cardinality(T) \in Nat
        /\ Cardinality(U) \in Nat
    BY <1>3, <1>5, FS_RemoveElement, FS_CardinalityType
  <2> QED BY <2>2, <2>3
<1>7. /\ SumIn(a, T) = a[y] + SumIn(a, U) /\ SumIn(b, T) = b[y] + SumIn(b, U)
      /\ SumIn(a, U) \in Int /\ SumIn(b, U) \in Int
  <2>1. SumIn(a, T) = a[y] + SumIn(a, U) /\ SumIn(b, T) = b[y] + SumIn(b, U)
    BY <1>3, <1>5, SumWithout
  <2>2. SumIn(a, U) \in Int /\ SumIn(b, U) \in Int
    BY <1>3, <1>6, SumIsInt
  <2> QED BY <2>1, <2>2
<1>8. y \in S /\ a[y] \in Int /\ b[y] \in Int /\ p * a[y] <= q * b[y] + e
  BY <1>2, <1>5
<1>9. ASSUME NEW n \in Nat, NEW u \in Int, NEW v \in Int, NEW w \in Int, NEW z \in Int,
             p * u <= q * v + e * n, p * w <= q * z + e
      PROVE  p * (w + u) <= q * (z + v) + e * (n + 1)
  BY <1>9
<1>10. Near(T)
  <2> HIDE DEF U
  <2>1. p * (a[y] + SumIn(a, U)) <= q * (b[y] + SumIn(b, U)) + e * (Cardinality(U) + 1)
    BY <1>6, <1>7, <1>8, <1>9
  <2> QED BY <1>6, <1>7, <2>1
<1> QED BY <1>2, <1>10
(* Equal terms come to as many times one of them, and the same table is     *)
(* added up by its rows and by its columns.                                 *)
LEMMA SumOfEqual ==
    ASSUME NEW S, IsFiniteSet(S), NEW n \in Int, NEW a, \A x \in S : a[x] = n
    PROVE  SumIn(a, S) = Cardinality(S) * n
<1>1. SumIn(a, S) \in Int /\ Cardinality(S) \in Nat
  <2>1. \A x \in S : a[x] \in Int
    OBVIOUS
  <2> QED BY <2>1, SumIsInt, FS_CardinalityType
<1>2. ASSUME NEW p \in Int, NEW e \in Int, p * n <= e PROVE p * SumIn(a, S) <= e * Cardinality(S)
  <2>1. PICK q \in Int : q = 0
    OBVIOUS
  <2>2. \A i \in Int : q * i = 0
    BY <2>1
  <2>3. \A x \in S : a[x] \in Int /\ p * a[x] <= q * a[x] + e
    BY <1>2, <2>2
  <2>4. p * SumIn(a, S) <= q * SumIn(a, S) + e * Cardinality(S)
    BY <2>3, SumNear
  <2>5. q * SumIn(a, S) = 0
    BY <1>1, <2>2
  <2>6. \A i, k \in Int : p * i <= 0 + e * k => p * i <= e * k
    OBVIOUS
  <2> QED BY <1>1, <2>4, <2>5, <2>6
<1>3. 1 * SumIn(a, S) <= n * Cardinality(S) /\ (-1) * SumIn(a, S) <= (-n) * Cardinality(S)
  <2>1. 1 * n <= n /\ (-1) * n <= -n
    OBVIOUS
  <2> QED BY <1>2, <2>1
<1>4. ASSUME NEW m \in Nat, NEW t \in Int, 1 * t <= n * m, (-1) * t <= (-n) * m
      PROVE  t = m * n
  BY <1>4
<1> QED BY <1>1, <1>3, <1>4

RowOf(m, T, s) == [t \in T |-> m[<<s, t>>]]
ColumnOf(m, S, t) == [s \in S |-> m[<<s, t>>]]
RowSums(m, S, T) == [s \in S |-> SumIn(RowOf(m, T, s), T)]
ColumnSums(m, S, T) == [t \in T |-> SumIn(ColumnOf(m, S, t), S)]
LEMMA SumOfTable ==
    ASSUME NEW S, IsFiniteSet(S), NEW T, IsFiniteSet(T),
           NEW m, \A s \in S, t \in T : m[<<s, t>>] \in Int
    PROVE  SumIn(RowSums(m, S, T), S) = SumIn(ColumnSums(m, S, T), T)
<1> DEFINE RowsOver(U) == [s \in S |-> SumIn(RowOf(m, T, s), U)]
           cols == ColumnSums(m, S, T)
           C == {U \in SUBSET T : SumIn(RowsOver(U), S) # SumIn(cols, U)}
<1>1. SUFFICES ASSUME C # {} PROVE FALSE
  <2>1. RowsOver(T) = RowSums(m, S, T)
    BY DEF RowSums
  <2> QED BY <2>1
<1>2. PICK U \in C : \A V \in C : V \subseteq U => V = U
  <2>1. C \subseteq SUBSET T
    OBVIOUS
  <2> HIDE DEF C
  <2> QED BY <1>1, <2>1, SmallestPart
<1>3. U \in SUBSET T /\ IsFiniteSet(U) /\ SumIn(RowsOver(U), S) # SumIn(cols, U)
  BY <1>2, FS_Subset
<1>4. U # {}
  <2>1. \A a : SumIn(a, {}) = 0
    BY SumOfParts, FS_EmptySet
  <2>2. \A s \in S : RowsOver({})[s] = 0
    BY <2>1
  <2> HIDE DEF cols, RowsOver
  <2>3. SumIn(RowsOver({}), S) = 0 /\ SumIn(cols, {}) = 0
    BY <2>1, <2>2, SumOfZeros
  <2> QED BY <1>3, <2>3
<1>5. PICK t \in U : TRUE
  BY <1>4
<1> DEFINE V == U \ {t}
           col == ColumnOf(m, S, t)
<1>6. V \in SUBSET T /\ IsFiniteSet(V) /\ SumIn(RowsOver(V), S) = SumIn(cols, V)
  <2>1. V \in SUBSET T /\ V \subseteq U /\ V # U
    BY <1>3, <1>5
  <2>2. V \notin C
    BY <1>2, <2>1
  <2>3. IsFiniteSet(V)
    BY <2>1, <1>3, FS_Subset
  <2> HIDE DEF V
  <2> QED BY <2>1, <2>2, <2>3
<1>7. \A u \in T : cols[u] = SumIn(ColumnOf(m, S, u), S) /\ cols[u] \in Int
  <2>1. ASSUME NEW u \in T PROVE SumIn(ColumnOf(m, S, u), S) \in Int
    <3>1. \A s \in S : ColumnOf(m, S, u)[s] \in Int
      BY DEF ColumnOf
    <3> QED BY <3>1, SumIsInt
  <2> QED BY <2>1 DEF ColumnSums
<1>8. ASSUME NEW s \in S
      PROVE  /\ RowsOver(U)[s] = col[s] + RowsOver(V)[s]
             /\ col[s] \in Int /\ RowsOver(V)[s] \in Int
  <2> DEFINE r == RowOf(m, T, s)
  <2>1. /\ \A x \in T : r[x] \in Int /\ r[x] = m[<<s, x>>]
        /\ RowsOver(U)[s] = SumIn(r, U) /\ RowsOver(V)[s] = SumIn(r, V)
        /\ col[s] = m[<<s, t>>]
    BY DEF RowOf, ColumnOf
  <2> HIDE DEF r
  <2>2. (\A x \in U : r[x] \in Int) /\ (\A x \in V : r[x] \in Int)
    BY <1>3, <2>1
  <2>3. SumIn(r, U) = r[t] + SumIn(r, V)
    BY <1>3, <1>5, <2>2, SumWithout
  <2>4. SumIn(r, V) \in Int
    BY <1>6, <2>2, SumIsInt
  <2> HIDE DEF RowsOver, col, V
  <2> QED BY <1>3, <1>5, <2>1, <2>3, <2>4
<1>9. SumIn(RowsOver(U), S) = SumIn(col, S) + SumIn(RowsOver(V), S)
  <2> HIDE DEF RowsOver, col, V
  <2> QED BY <1>8, SumOfTwo
<1>10. SumIn(cols, U) = cols[t] + SumIn(cols, V)
  <2>1. \A u \in U : cols[u] \in Int
    BY <1>3, <1>7
  <2> HIDE DEF cols
  <2> QED BY <1>3, <1>5, <2>1, SumWithout
<1>11. cols[t] = SumIn(col, S)
  BY <1>3, <1>5, <1>7
<1> HIDE DEF C, RowsOver, cols, col, V
<1> QED BY <1>3, <1>6, <1>9, <1>10, <1>11
=============================================================================
