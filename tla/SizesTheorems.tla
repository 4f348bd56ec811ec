--------------------------- MODULE SizesTheorems ---------------------------
(* What the proofs need to know of sums: they are natural numbers, additive *)
(* over disjoint sets, and local changes of the sizes change them locally.  *)
EXTENDS Sizes, FiniteSetTheorems, FunctionTheorems, TLAPS

\* Membership in Units, the form the set-theoretic steps use.
LEMMA UnitsMember ==
    ASSUME NEW size, NEW T, NEW u
    PROVE  u \in Units(size, T) <=> \E x \in T : u \in {x} \X (1 .. size[x])
BY DEF Units

\* The units of one member: as many as its size.
LEMMA OneMember ==
    ASSUME NEW x, NEW n \in Nat
    PROVE  /\ IsFiniteSet({x} \X (1 .. n))
           /\ Cardinality({x} \X (1 .. n)) = n
<1>1. IsFiniteSet({x}) /\ Cardinality({x}) = 1
  BY FS_Singleton
<1>2. IsFiniteSet(1 .. n) /\ Cardinality(1 .. n) = n
  BY FS_Interval
<1>3. Cardinality({x} \X (1 .. n)) = 1 * n
  BY <1>1, <1>2, FS_Product
<1> QED BY <1>1, <1>2, <1>3, FS_Product, SMTT(30)

\* Sums over finite sets are natural numbers.
LEMMA SumIsNat ==
    ASSUME NEW T, IsFiniteSet(T), NEW size, \A x \in T : size[x] \in Nat
    PROVE  IsFiniteSet(Units(size, T)) /\ Sum(size, T) \in Nat
<1> DEFINE Block(x) == {x} \X (1 .. size[x])
           Blocks == {Block(x) : x \in T}
           f == [x \in T |-> Block(x)]
<1>1. f \in Surjection(T, Blocks)
  <2>1. f \in [T -> Blocks]
    OBVIOUS
  <2>2. \A b \in Blocks : \E x \in T : f[x] = b
    OBVIOUS
  <2> QED BY <2>1, <2>2 DEF Surjection
<1>2. IsFiniteSet(Blocks)
  BY <1>1, FS_Surjection
<1>3. \A b \in Blocks : IsFiniteSet(b)
  <2>1. \A x \in T : IsFiniteSet(Block(x))
    BY OneMember
  <2> QED BY <2>1
<1>4. Units(size, T) = UNION Blocks
  BY DEF Units
<1>5. IsFiniteSet(Units(size, T))
  BY <1>2, <1>3, <1>4, FS_UNION
<1> QED BY <1>5, FS_CardinalityType DEF Sum

\* The sum depends only on the sizes of the members.
LEMMA SumAgree ==
    ASSUME NEW T, NEW f, NEW g, \A x \in T : f[x] = g[x]
    PROVE  Sum(f, T) = Sum(g, T)
<1>1. Units(f, T) = Units(g, T)
  BY DEF Units
<1> QED BY <1>1 DEF Sum

\* Sums over disjoint sets add up.
LEMMA SumSplit ==
    ASSUME NEW S, NEW T, IsFiniteSet(S), IsFiniteSet(T), S \cap T = {},
           NEW size, \A x \in S \cup T : size[x] \in Nat
    PROVE  Sum(size, S \cup T) = Sum(size, S) + Sum(size, T)
<1>1. Units(size, S \cup T) = Units(size, S) \cup Units(size, T)
  BY DEF Units
<1>2. Units(size, S) \cap Units(size, T) = {}
  BY UnitsMember
<1>3. IsFiniteSet(Units(size, S)) /\ IsFiniteSet(Units(size, T))
  BY SumIsNat
<1>4. Sum(size, S) \in Nat /\ Sum(size, T) \in Nat
  BY SumIsNat
<1>5. Cardinality(Units(size, S) \cup Units(size, T))
        = Sum(size, S) + Sum(size, T) - Cardinality({})
  BY <1>2, <1>3, FS_Union DEF Sum
<1>6. Cardinality({}) = 0
  BY FS_EmptySet
<1>7. Cardinality(Units(size, S) \cup Units(size, T)) = Sum(size, S) + Sum(size, T)
  BY <1>4, <1>5, <1>6
<1> QED BY <1>1, <1>7 DEF Sum

\* The sum over one member is its size.
LEMMA SumSingleton ==
    ASSUME NEW x, NEW size, size[x] \in Nat
    PROVE  Sum(size, {x}) = size[x]
<1>1. Units(size, {x}) = {x} \X (1 .. size[x])
  BY DEF Units
<1> QED BY <1>1, OneMember DEF Sum

\* The sum over members of size 0 is 0.
LEMMA SumZero ==
    ASSUME NEW T, NEW size, \A x \in T : size[x] = 0
    PROVE  Sum(size, T) = 0
<1>1. \A x \in T : {x} \X (1 .. size[x]) = {}
  <2>1. 1 .. 0 = {}
    OBVIOUS
  <2> QED BY <2>1
<1>2. Units(size, T) = {}
  BY <1>1, UnitsMember
<1> QED BY <1>2, FS_EmptySet DEF Sum

\* Changing the size of one member changes the sum by the difference.
LEMMA SumUpdate ==
    ASSUME NEW T, IsFiniteSet(T), NEW x \in T,
           NEW f, NEW g,
           \A y \in T : f[y] \in Nat /\ g[y] \in Nat,
           \A y \in T \ {x} : f[y] = g[y]
    PROVE  Sum(g, T) = Sum(f, T) + (g[x] - f[x])
<1>1. T = (T \ {x}) \cup {x} /\ (T \ {x}) \cap {x} = {}
  OBVIOUS
<1>2. IsFiniteSet(T \ {x}) /\ IsFiniteSet({x})
  BY FS_RemoveElement, FS_Singleton
<1>a. \A h : (\A y \in T : h[y] \in Nat) => Sum(h, T) = Sum(h, T \ {x}) + h[x]
  <2> TAKE h
  <2> HAVE \A y \in T : h[y] \in Nat
  <2>1. \A y \in (T \ {x}) \cup {x} : h[y] \in Nat
    OBVIOUS
  <2>2. Sum(h, (T \ {x}) \cup {x}) = Sum(h, T \ {x}) + Sum(h, {x})
    BY <1>1, <1>2, <2>1, SumSplit
  <2>3. Sum(h, {x}) = h[x]
    BY SumSingleton
  <2> QED BY <1>1, <2>2, <2>3
<1>3. Sum(f, T) = Sum(f, T \ {x}) + f[x]
  BY <1>a
<1>4. Sum(g, T) = Sum(g, T \ {x}) + g[x]
  BY <1>a
<1>5. Sum(f, T \ {x}) = Sum(g, T \ {x})
  BY SumAgree
<1>6. Sum(f, T \ {x}) \in Nat
  BY <1>2, SumIsNat
<1> QED BY <1>3, <1>4, <1>5, <1>6

\* A sum is at most the number of members times a bound on the sizes.
LEMMA SumBound ==
    ASSUME NEW T, IsFiniteSet(T), NEW c \in Nat, NEW size,
           \A x \in T : size[x] \in Nat /\ size[x] <= c
    PROVE  Sum(size, T) <= Cardinality(T) * c
<1>1. IsFiniteSet(1 .. c) /\ Cardinality(1 .. c) = c
  BY FS_Interval
<1>2. IsFiniteSet(T \X (1 .. c)) /\ Cardinality(T \X (1 .. c)) = Cardinality(T) * c
  BY <1>1, FS_Product
<1>3. Units(size, T) \subseteq T \X (1 .. c)
  <2> SUFFICES ASSUME NEW x \in T, NEW u \in {x} \X (1 .. size[x])
               PROVE  u \in T \X (1 .. c)
    BY DEF Units
  <2>1. size[x] \in Nat /\ size[x] <= c
    OBVIOUS
  <2>2. 1 .. size[x] \subseteq 1 .. c
    BY <2>1
  <2> QED BY <2>2
<1>4. Cardinality(Units(size, T)) <= Cardinality(T \X (1 .. c))
  BY <1>2, <1>3, FS_Subset
<1> QED BY <1>2, <1>4 DEF Sum
============================================================================
