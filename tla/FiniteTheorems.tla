--------------------------- MODULE FiniteTheorems ---------------------------
(***************************************************************************)
(* What SumFunctionOnSet of the community modules computes on finite sets, *)
(* what a product of whole numbers does, and when no processes wait for    *)
(* each other in a circle.                                                 *)
(* Induction is by minimal counterexample: in a set of finite sets some    *)
(* member has no other member as a subset.                                 *)
(***************************************************************************)
EXTENDS Waiting, FiniteSetTheorems, TLAPS

\* A nonempty set of subsets of a finite set has a minimal member.
LEMMA MinimalSubset ==
    ASSUME NEW S, IsFiniteSet(S), NEW T, T \subseteq SUBSET S, T # {}
    PROVE  \E U \in T : \A V \in T : V \subseteq U => V = U
<1>1. IsWellFoundedOn(StrictSubsetOrdering(S), SUBSET S)
  BY FS_StrictSubsetOrderingWellFounded, FS_FiniteSubsetsOfFinite
<1>2. PICK U \in T : \A V \in T : <<V, U>> \notin StrictSubsetOrdering(S)
  BY <1>1, WFMin
<1>3. ASSUME NEW V \in T, V \subseteq U PROVE V = U
  BY <1>2, <1>3 DEF StrictSubsetOrdering
<1>4. QED  BY <1>3

-----------------------------------------------------------------------------
(* The recursion behind a sum, or behind a product.                        *)

Chosen(s) == CHOOSE x \in s : TRUE

Unit(op) == IF op = "plus" THEN 0 ELSE 1

Value(op, it, g, s) ==
    IF s = {} THEN Unit(op)
    ELSE IF op = "plus" THEN g[Chosen(s)] + it[s \ {Chosen(s)}]
    ELSE g[Chosen(s)] * it[s \ {Chosen(s)}]

IsIter(op, it, g, D) == it = [s \in SUBSET D |-> Value(op, it, g, s)]

Iter(op, g, D) == CHOOSE it : IsIter(op, it, g, D)

ProductOnSet(g, D) == FoldFunctionOnSet(LAMBDA a, b : a * b, 1, g, D)

\* The library's definitions, unfolded.
LEMMA SumIsIter ==
    ASSUME NEW g, NEW D
    PROVE  SumFunctionOnSet(g, D) = Iter("plus", g, D)[D]
BY DEF SumFunctionOnSet, FoldFunctionOnSet, MapThenFoldSet, Iter, IsIter, Value, Unit, Chosen

LEMMA ProductIsIter ==
    ASSUME NEW g, NEW D
    PROVE  ProductOnSet(g, D) = Iter("times", g, D)[D]
BY DEF ProductOnSet, FoldFunctionOnSet, MapThenFoldSet, Iter, IsIter, Value, Unit, Chosen

\* Two iterations agree wherever both are defined.
LEMMA IterUnique ==
    ASSUME NEW op, NEW g, NEW D, IsFiniteSet(D), NEW E, D \subseteq E,
           NEW a, IsIter(op, a, g, D), NEW b, IsIter(op, b, g, E)
    PROVE  a[D] = b[D]
<1> DEFINE Bad == {s \in SUBSET D : a[s] # b[s]}
<1>1. SUFFICES ASSUME Bad # {} PROVE FALSE
  BY DEF Bad
<1>2. PICK s \in Bad : \A t \in Bad : t \subseteq s => t = s
  <2>1. Bad \subseteq SUBSET D
    OBVIOUS
  <2> HIDE DEF Bad
  <2>2. QED  BY <1>1, <2>1, MinimalSubset
<1>3. /\ s \subseteq D /\ s \subseteq E
      /\ a[s] = Value(op, a, g, s) /\ b[s] = Value(op, b, g, s)
  BY DEF IsIter
<1>4. s # {}
  BY <1>2, <1>3 DEF Value
<1>5. Chosen(s) \in s
  BY <1>4 DEF Chosen
<1>6. a[s \ {Chosen(s)}] = b[s \ {Chosen(s)}]
  BY <1>2, <1>5
<1>7. QED
  BY <1>2, <1>3, <1>4, <1>6 DEF Value

\* The recursion has a solution on the subsets of every finite set.
LEMMA IterExists ==
    ASSUME NEW op, NEW g, NEW D, IsFiniteSet(D)
    PROVE  IsIter(op, Iter(op, g, D), g, D)
<1> DEFINE Bad == {s \in SUBSET D : ~IsIter(op, Iter(op, g, s), g, s)}
<1>1. SUFFICES ASSUME Bad # {} PROVE FALSE
  <2>1. D \notin Bad
    BY <1>1
  <2>2. QED  BY <2>1
<1>2. PICK U \in Bad : \A t \in Bad : t \subseteq U => t = U
  <2>1. Bad \subseteq SUBSET D
    OBVIOUS
  <2> HIDE DEF Bad
  <2>2. QED  BY <1>1, <2>1, MinimalSubset
<1>3. ASSUME NEW s \in SUBSET U, s # U
      PROVE  IsFiniteSet(s) /\ IsIter(op, Iter(op, g, s), g, s)
  BY <1>2, <1>3, FS_Subset
<1> DEFINE part == [s \in SUBSET U |-> IF s = U THEN 0 ELSE Iter(op, g, s)[s]]
           whole == [s \in SUBSET U |-> Value(op, part, g, s)]
<1>4. ASSUME NEW s \in SUBSET U, s # U
      PROVE  whole[s] = part[s]
  <2>1. part[s] = Value(op, Iter(op, g, s), g, s)
    BY <1>3, <1>4 DEF IsIter
  <2>2. CASE s = {}
    BY <2>1, <2>2 DEF Value
  <2>3. CASE s # {}
    <3> DEFINE r == s \ {Chosen(s)}
    <3>1. Chosen(s) \in s /\ r \in SUBSET U /\ r # U /\ r \subseteq s
      BY <1>4, <2>3 DEF Chosen
    <3>2. Iter(op, g, r)[r] = Iter(op, g, s)[r]
      BY <1>3, <1>4, <3>1, IterUnique
    <3>3. part[r] = Iter(op, g, r)[r]
      BY <3>1
    <3> HIDE DEF part
    <3>4. QED  BY <2>1, <2>3, <3>2, <3>3 DEF Value
  <2>4. QED  BY <2>2, <2>3
<1>5. ASSUME NEW s \in SUBSET U
      PROVE  Value(op, whole, g, s) = Value(op, part, g, s)
  <2>1. CASE s = {}
    BY <2>1 DEF Value
  <2>2. CASE s # {}
    <3>1. s \ {Chosen(s)} \in SUBSET U /\ s \ {Chosen(s)} # U
      BY <2>2 DEF Chosen
    <3>2. whole[s \ {Chosen(s)}] = part[s \ {Chosen(s)}]
      BY <1>4, <3>1
    <3> HIDE DEF whole, part
    <3>3. QED  BY <2>2, <3>2 DEF Value
  <2>3. QED  BY <2>1, <2>2
<1>6. IsIter(op, whole, g, U)
  BY <1>5 DEF IsIter
<1>7. IsIter(op, Iter(op, g, U), g, U)
  <2> HIDE DEF whole
  <2>1. QED  BY <1>6 DEF Iter
<1>8. QED  BY <1>2, <1>7

-----------------------------------------------------------------------------
(* What a caller may rely on.                                              *)

\* The sum over nothing is zero.
THEOREM SumEmpty ==
    ASSUME NEW g
    PROVE  SumFunctionOnSet(g, {}) = 0
<1>1. IsIter("plus", Iter("plus", g, {}), g, {})
  BY IterExists, FS_EmptySet
<1>2. Iter("plus", g, {})[{}] = Value("plus", Iter("plus", g, {}), g, {})
  BY <1>1 DEF IsIter
<1>3. QED  BY <1>2, SumIsIter DEF Value, Unit

\* The element that CHOOSE takes first can be split off.
LEMMA SumFirst ==
    ASSUME NEW g, NEW S, IsFiniteSet(S), S # {}
    PROVE  /\ Chosen(S) \in S
           /\ SumFunctionOnSet(g, S) = g[Chosen(S)] + SumFunctionOnSet(g, S \ {Chosen(S)})
<1> DEFINE r == S \ {Chosen(S)}
<1>1. Chosen(S) \in S
  BY DEF Chosen
<1>2. IsFiniteSet(r)
  BY FS_RemoveElement
<1>3. IsIter("plus", Iter("plus", g, S), g, S) /\ IsIter("plus", Iter("plus", g, r), g, r)
  BY <1>2, IterExists
<1>4. Iter("plus", g, r)[r] = Iter("plus", g, S)[r]
  BY <1>2, <1>3, IterUnique
<1>5. Iter("plus", g, S)[S] = g[Chosen(S)] + Iter("plus", g, S)[r]
  BY <1>3 DEF IsIter, Value
<1>6. QED  BY <1>1, <1>4, <1>5, SumIsIter

\* Numbers add up to a number.
THEOREM SumInt ==
    ASSUME NEW g, NEW S, IsFiniteSet(S), \A x \in S : g[x] \in Int
    PROVE  SumFunctionOnSet(g, S) \in Int
<1> DEFINE Bad == {s \in SUBSET S : SumFunctionOnSet(g, s) \notin Int}
<1>1. SUFFICES ASSUME Bad # {} PROVE FALSE
  <2>1. S \notin Bad
    BY <1>1
  <2>2. QED  BY <2>1
<1>2. PICK U \in Bad : \A t \in Bad : t \subseteq U => t = U
  <2>1. Bad \subseteq SUBSET S
    OBVIOUS
  <2> HIDE DEF Bad
  <2>2. QED  BY <1>1, <2>1, MinimalSubset
<1>3. U # {} /\ IsFiniteSet(U)
  <2>1. SumFunctionOnSet(g, {}) \in Int
    BY SumEmpty
  <2>2. U # {}
    BY <1>2, <2>1
  <2>3. QED  BY <1>2, <2>2, FS_Subset
<1>4. /\ Chosen(U) \in U
      /\ SumFunctionOnSet(g, U) = g[Chosen(U)] + SumFunctionOnSet(g, U \ {Chosen(U)})
  BY <1>3, SumFirst
<1>5. SumFunctionOnSet(g, U \ {Chosen(U)}) \in Int
  BY <1>2, <1>4
<1>6. QED  BY <1>2, <1>4, <1>5

\* Any element can be split off: the sum does not depend on the order.
THEOREM SumRemove ==
    ASSUME NEW g, NEW S, IsFiniteSet(S), \A x \in S : g[x] \in Int,
           NEW y \in S
    PROVE  SumFunctionOnSet(g, S) = g[y] + SumFunctionOnSet(g, S \ {y})
<1> DEFINE Splits(s) == \A z \in s :
               SumFunctionOnSet(g, s) = g[z] + SumFunctionOnSet(g, s \ {z})
           Bad == {s \in SUBSET S : ~Splits(s)}
<1>1. SUFFICES ASSUME Bad # {} PROVE FALSE
  <2>1. S \notin Bad
    BY <1>1
  <2>2. QED  BY <2>1
<1>2. PICK U \in Bad : \A t \in Bad : t \subseteq U => t = U
  <2>1. Bad \subseteq SUBSET S
    OBVIOUS
  <2> HIDE DEF Bad
  <2>2. QED  BY <1>1, <2>1, MinimalSubset
<1>3. PICK z \in U : SumFunctionOnSet(g, U) # g[z] + SumFunctionOnSet(g, U \ {z})
  BY <1>2
<1> DEFINE x == Chosen(U)
<1>4. x \in U /\ SumFunctionOnSet(g, U) = g[x] + SumFunctionOnSet(g, U \ {x})
  BY <1>2, <1>3, SumFirst, FS_Subset
<1>5. x # z
  BY <1>3, <1>4
<1>6. Splits(U \ {x}) /\ Splits(U \ {z})
  <2>1. U \ {x} \notin Bad /\ U \ {z} \notin Bad
    <3> HIDE DEF Bad
    <3>1. QED  BY <1>2, <1>3, <1>4
  <2>2. U \ {x} \in SUBSET S /\ U \ {z} \in SUBSET S
    BY <1>2
  <2> HIDE DEF Splits
  <2>3. QED  BY <2>1, <2>2
<1> DEFINE w == (U \ {x}) \ {z}
<1>7. w = (U \ {z}) \ {x}
  OBVIOUS
<1>8. SumFunctionOnSet(g, U \ {x}) = g[z] + SumFunctionOnSet(g, w)
  BY <1>3, <1>5, <1>6
<1>9. SumFunctionOnSet(g, U \ {z}) = g[x] + SumFunctionOnSet(g, w)
  BY <1>4, <1>5, <1>6, <1>7
<1>10. g[x] \in Int /\ g[z] \in Int /\ SumFunctionOnSet(g, w) \in Int
  BY <1>2, <1>3, <1>4, SumInt, FS_Subset
<1> HIDE DEF x, w
<1>11. QED  BY <1>3, <1>4, <1>8, <1>9, <1>10

\* One element more adds its number.
THEOREM SumAdd ==
    ASSUME NEW g, NEW S, IsFiniteSet(S), NEW y, y \notin S,
           \A x \in S \cup {y} : g[x] \in Int
    PROVE  SumFunctionOnSet(g, S \cup {y}) = g[y] + SumFunctionOnSet(g, S)
<1>1. IsFiniteSet(S \cup {y}) /\ (S \cup {y}) \ {y} = S
  BY FS_AddElement
<1>2. QED  BY <1>1, SumRemove

\* Only the numbers of the elements matter.
THEOREM SumSame ==
    ASSUME NEW g, NEW h, NEW S, IsFiniteSet(S), \A x \in S : g[x] = h[x]
    PROVE  SumFunctionOnSet(g, S) = SumFunctionOnSet(h, S)
<1> DEFINE Bad == {s \in SUBSET S : SumFunctionOnSet(g, s) # SumFunctionOnSet(h, s)}
<1>1. SUFFICES ASSUME Bad # {} PROVE FALSE
  <2>1. S \notin Bad
    BY <1>1
  <2>2. QED  BY <2>1
<1>2. PICK U \in Bad : \A t \in Bad : t \subseteq U => t = U
  <2>1. Bad \subseteq SUBSET S
    OBVIOUS
  <2> HIDE DEF Bad
  <2>2. QED  BY <1>1, <2>1, MinimalSubset
<1>3. U # {} /\ IsFiniteSet(U)
  <2>1. U # {}
    BY <1>2, SumEmpty
  <2>2. QED  BY <1>2, <2>1, FS_Subset
<1> DEFINE x == Chosen(U)
<1>4. /\ x \in U
      /\ SumFunctionOnSet(g, U) = g[x] + SumFunctionOnSet(g, U \ {x})
      /\ SumFunctionOnSet(h, U) = h[x] + SumFunctionOnSet(h, U \ {x})
  BY <1>3, SumFirst
<1>5. SumFunctionOnSet(g, U \ {x}) = SumFunctionOnSet(h, U \ {x})
  BY <1>2, <1>4
<1>6. QED  BY <1>2, <1>4, <1>5

\* Nothing negative adds up to nothing negative.
THEOREM SumNat ==
    ASSUME NEW g, NEW S, IsFiniteSet(S), \A x \in S : g[x] \in Nat
    PROVE  SumFunctionOnSet(g, S) \in Nat
<1> DEFINE Bad == {s \in SUBSET S : SumFunctionOnSet(g, s) \notin Nat}
<1>1. SUFFICES ASSUME Bad # {} PROVE FALSE
  <2>1. S \notin Bad
    BY <1>1
  <2>2. QED  BY <2>1
<1>2. PICK U \in Bad : \A t \in Bad : t \subseteq U => t = U
  <2>1. Bad \subseteq SUBSET S
    OBVIOUS
  <2> HIDE DEF Bad
  <2>2. QED  BY <1>1, <2>1, MinimalSubset
<1>3. U # {} /\ IsFiniteSet(U)
  <2>1. SumFunctionOnSet(g, {}) \in Nat
    BY SumEmpty
  <2>2. U # {}
    BY <1>2, <2>1
  <2>3. QED  BY <1>2, <2>2, FS_Subset
<1>4. /\ Chosen(U) \in U
      /\ SumFunctionOnSet(g, U) = g[Chosen(U)] + SumFunctionOnSet(g, U \ {Chosen(U)})
  BY <1>3, SumFirst
<1>5. SumFunctionOnSet(g, U \ {Chosen(U)}) \in Nat
  BY <1>2, <1>4
<1>6. QED  BY <1>2, <1>4, <1>5

\* Induction over the subsets of a finite set, losing the chosen element at a time.
LEMMA ChosenInduction ==
    ASSUME NEW S, IsFiniteSet(S), NEW Good, {} \in Good,
           \A s \in SUBSET S : s # {} /\ s \ {Chosen(s)} \in Good => s \in Good
    PROVE  S \in Good
<1> DEFINE Bad == {s \in SUBSET S : s \notin Good}
<1>1. SUFFICES ASSUME Bad # {} PROVE FALSE
  <2>1. S \notin Bad
    BY <1>1
  <2>2. QED  BY <2>1
<1>2. PICK U \in Bad : \A t \in Bad : t \subseteq U => t = U
  <2>1. Bad \subseteq SUBSET S
    OBVIOUS
  <2> HIDE DEF Bad
  <2>2. QED  BY <1>1, <2>1, MinimalSubset
<1>3. U # {} /\ Chosen(U) \in U
  <2>1. U # {}
    BY <1>2
  <2>2. QED  BY <2>1 DEF Chosen
<1>4. U \ {Chosen(U)} \in Good
  BY <1>2, <1>3
<1>5. QED  BY <1>2, <1>3, <1>4

\* Greater numbers have a greater sum.
THEOREM SumGrows ==
    ASSUME NEW g, NEW h, NEW S, IsFiniteSet(S),
           \A x \in S : g[x] \in Int /\ h[x] \in Int /\ g[x] <= h[x]
    PROVE  SumFunctionOnSet(g, S) <= SumFunctionOnSet(h, S)
<1> DEFINE Good == {s \in SUBSET S : SumFunctionOnSet(g, s) <= SumFunctionOnSet(h, s)}
<1>1. {} \in Good
  BY SumEmpty
<1>2. ASSUME NEW s \in SUBSET S, s # {}, s \ {Chosen(s)} \in Good
      PROVE  s \in Good
  <2> DEFINE x == Chosen(s)
  <2>1. /\ x \in s
        /\ SumFunctionOnSet(g, s) = g[x] + SumFunctionOnSet(g, s \ {x})
        /\ SumFunctionOnSet(h, s) = h[x] + SumFunctionOnSet(h, s \ {x})
    BY <1>2, SumFirst, FS_Subset
  <2>2. SumFunctionOnSet(g, s \ {x}) \in Int /\ SumFunctionOnSet(h, s \ {x}) \in Int
    BY SumInt, FS_Subset
  <2>3. g[x] \in Int /\ h[x] \in Int /\ g[x] <= h[x]
    BY <2>1
  <2>4. SumFunctionOnSet(g, s \ {x}) <= SumFunctionOnSet(h, s \ {x})
    BY <1>2
  <2>5. SumFunctionOnSet(g, s) <= SumFunctionOnSet(h, s)
    <3> HIDE DEF x
    <3>1. QED  BY <2>1, <2>2, <2>3, <2>4
  <2>6. QED  BY <2>5
<1> HIDE DEF Good
<1>3. S \in Good
  BY <1>1, <1>2, ChosenInduction
<1>4. QED  BY <1>3 DEF Good

\* One number more.
THEOREM SumOneMore ==
    ASSUME NEW f, NEW g, NEW S, IsFiniteSet(S), NEW k, k \notin S,
           \A x \in S : f[x] = g[x] /\ g[x] \in Nat, g[k] \in Nat
    PROVE  /\ SumFunctionOnSet(g, S \cup {k}) = SumFunctionOnSet(f, S) + g[k]
           /\ SumFunctionOnSet(f, S) \in Nat
<1>1. \A x \in S \cup {k} : g[x] \in Int
  OBVIOUS
<1>2. SumFunctionOnSet(g, S \cup {k}) = g[k] + SumFunctionOnSet(g, S)
  BY <1>1, SumAdd
<1>3. SumFunctionOnSet(f, S) = SumFunctionOnSet(g, S)
  BY SumSame
<1>4. SumFunctionOnSet(g, S) \in Nat
  BY SumNat
<1> QED  BY <1>2, <1>3, <1>4

\* One number changes.
THEOREM SumChange ==
    ASSUME NEW f, NEW g, NEW S, IsFiniteSet(S), NEW y \in S,
           \A x \in S : f[x] \in Int /\ g[x] \in Int, \A x \in S \ {y} : f[x] = g[x]
    PROVE  SumFunctionOnSet(g, S) = SumFunctionOnSet(f, S) + (g[y] - f[y])
<1>1. SumFunctionOnSet(g, S) = g[y] + SumFunctionOnSet(g, S \ {y})
  BY SumRemove
<1>2. SumFunctionOnSet(f, S) = f[y] + SumFunctionOnSet(f, S \ {y})
  BY SumRemove
<1>3. IsFiniteSet(S \ {y})
  BY FS_Subset
<1>4. SumFunctionOnSet(f, S \ {y}) = SumFunctionOnSet(g, S \ {y})
  BY <1>3, SumSame
<1>5. SumFunctionOnSet(f, S \ {y}) \in Int
  BY <1>3, SumInt
<1>6. QED  BY <1>1, <1>2, <1>4, <1>5

\* A function with one argument more.
THEOREM SumExtend ==
    ASSUME NEW e, NEW S, IsFiniteSet(S), NEW y, y \notin S, \A x \in S \cup {y} : e[x] \in Int
    PROVE  /\ SumFunction([x \in S \cup {y} |-> e[x]]) = SumFunction([x \in S |-> e[x]]) + e[y]
           /\ SumFunction([x \in S |-> e[x]]) \in Int
<1> DEFINE f == [x \in S |-> e[x]]
           g == [x \in S \cup {y} |-> e[x]]
<1>1. SumFunction(f) = SumFunctionOnSet(f, S) /\ SumFunction(g) = SumFunctionOnSet(g, S \cup {y})
  BY Zenon DEF SumFunction
<1>2. \A x \in S : f[x] = g[x] /\ f[x] \in Int
  OBVIOUS
<1>3. g[y] = e[y] /\ \A x \in S \cup {y} : g[x] \in Int
  OBVIOUS
<1> HIDE DEF f, g
<1>4. SumFunctionOnSet(g, S \cup {y}) = g[y] + SumFunctionOnSet(g, S)
  BY <1>3, SumAdd
<1>5. SumFunctionOnSet(f, S) = SumFunctionOnSet(g, S)
  BY <1>2, SumSame
<1>6. SumFunctionOnSet(f, S) \in Int
  BY <1>2, SumInt
<1>7. SumFunction(g) = SumFunction(f) + e[y] /\ SumFunction(f) \in Int
  BY <1>1, <1>3, <1>4, <1>5, <1>6
<1>8. QED  BY <1>7 DEF f, g

\* A sum of sums.
THEOREM SumPlus ==
    ASSUME NEW g, NEW h, NEW k, NEW S, IsFiniteSet(S),
           \A x \in S : g[x] \in Int /\ h[x] \in Int /\ k[x] = g[x] + h[x]
    PROVE  SumFunctionOnSet(k, S) = SumFunctionOnSet(g, S) + SumFunctionOnSet(h, S)
<1> DEFINE Good == {s \in SUBSET S :
                      SumFunctionOnSet(k, s) = SumFunctionOnSet(g, s) + SumFunctionOnSet(h, s)}
<1>1. {} \in Good
  BY SumEmpty
<1>2. ASSUME NEW s \in SUBSET S, s # {}, s \ {Chosen(s)} \in Good
      PROVE  s \in Good
  <2> DEFINE x == Chosen(s)
  <2>1. /\ x \in s
        /\ SumFunctionOnSet(g, s) = g[x] + SumFunctionOnSet(g, s \ {x})
        /\ SumFunctionOnSet(h, s) = h[x] + SumFunctionOnSet(h, s \ {x})
        /\ SumFunctionOnSet(k, s) = k[x] + SumFunctionOnSet(k, s \ {x})
    BY <1>2, SumFirst, FS_Subset
  <2>2. SumFunctionOnSet(g, s \ {x}) \in Int /\ SumFunctionOnSet(h, s \ {x}) \in Int
    BY SumInt, FS_Subset
  <2>3. g[x] \in Int /\ h[x] \in Int /\ k[x] = g[x] + h[x]
    BY <2>1
  <2>4. SumFunctionOnSet(k, s \ {x})
            = SumFunctionOnSet(g, s \ {x}) + SumFunctionOnSet(h, s \ {x})
    BY <1>2
  <2>5. SumFunctionOnSet(k, s) = SumFunctionOnSet(g, s) + SumFunctionOnSet(h, s)
    <3> HIDE DEF x
    <3>1. QED  BY <2>1, <2>2, <2>3, <2>4
  <2>6. QED  BY <2>5
<1> HIDE DEF Good
<1>3. S \in Good
  BY <1>1, <1>2, ChosenInduction
<1>4. QED  BY <1>3 DEF Good

\* The numbers of a set, counted under other names.
THEOREM SumImage ==
    ASSUME NEW g, NEW h, NEW to, NEW S, IsFiniteSet(S),
           \A x, y \in S : to[x] = to[y] => x = y,
           \A x \in S : g[x] \in Int /\ h[to[x]] = g[x]
    PROVE  SumFunctionOnSet(g, S) = SumFunctionOnSet(h, {to[x] : x \in S})
<1> DEFINE image(s) == {to[x] : x \in s}
           Good == {s \in SUBSET S : SumFunctionOnSet(g, s) = SumFunctionOnSet(h, image(s))}
<1>1. {} \in Good
  <2>1. image({}) = {}
    OBVIOUS
  <2> QED  BY <2>1, SumEmpty
<1>2. ASSUME NEW s \in SUBSET S, s # {}, s \ {Chosen(s)} \in Good
      PROVE  s \in Good
  <2> DEFINE x == Chosen(s)
  <2>1. /\ x \in s /\ SumFunctionOnSet(g, s) = g[x] + SumFunctionOnSet(g, s \ {x})
    BY <1>2, SumFirst, FS_Subset
  <2>2. image(s) = image(s \ {x}) \cup {to[x]} /\ to[x] \notin image(s \ {x})
    BY <2>1
  <2>3. IsFiniteSet(image(s \ {x}))
    <3>1. [y \in s \ {x} |-> to[y]] \in Surjection(s \ {x}, image(s \ {x}))
      BY DEF Surjection
    <3>2. IsFiniteSet(s \ {x})
      BY FS_Subset
    <3>3. QED  BY <3>1, <3>2, FS_Surjection
  <2>4. \A y \in image(s \ {x}) \cup {to[x]} : h[y] \in Int
    BY <2>1
  <2>5. SumFunctionOnSet(h, image(s)) = h[to[x]] + SumFunctionOnSet(h, image(s \ {x}))
    <3> HIDE DEF image, x
    <3>1. QED  BY <2>2, <2>3, <2>4, SumAdd
  <2>6. SumFunctionOnSet(g, s \ {x}) = SumFunctionOnSet(h, image(s \ {x}))
    BY <1>2
  <2>7. h[to[x]] = g[x]
    BY <2>1
  <2>8. SumFunctionOnSet(g, s) = SumFunctionOnSet(h, image(s))
    BY <2>1, <2>5, <2>6, <2>7, Zenon
  <2>9. QED  BY <2>8
<1> HIDE DEF Good
<1>3. S \in Good
  BY <1>1, <1>2, ChosenInduction
<1>4. QED  BY <1>3 DEF Good

\* No part is more than the sum.
THEOREM SumPart ==
    ASSUME NEW g, NEW S, IsFiniteSet(S), \A x \in S : g[x] \in Nat, NEW y \in S
    PROVE  g[y] <= SumFunctionOnSet(g, S)
<1>1. SumFunctionOnSet(g, S) = g[y] + SumFunctionOnSet(g, S \ {y})
  BY SumRemove
<1>2. SumFunctionOnSet(g, S \ {y}) \in Nat
  BY SumNat, FS_Subset
<1>3. QED  BY <1>1, <1>2

\* Where no part is more and the sums are equal, so are the parts.
THEOREM SumEqual ==
    ASSUME NEW g, NEW h, NEW S, IsFiniteSet(S),
           \A x \in S : g[x] \in Int /\ h[x] \in Int /\ g[x] <= h[x],
           SumFunctionOnSet(g, S) = SumFunctionOnSet(h, S)
    PROVE  \A x \in S : g[x] = h[x]
<1>1. ASSUME NEW x \in S
      PROVE  g[x] = h[x]
  <2> DEFINE a == SumFunctionOnSet(g, S \ {x})
             b == SumFunctionOnSet(h, S \ {x})
  <2>1. SumFunctionOnSet(g, S) = g[x] + a /\ SumFunctionOnSet(h, S) = h[x] + b
    BY SumRemove
  <2>2. a <= b
    BY SumGrows, FS_Subset
  <2>3. a \in Int /\ b \in Int
    BY SumInt, FS_Subset
  <2>4. g[x] + a = h[x] + b /\ g[x] \in Int /\ h[x] \in Int /\ g[x] <= h[x]
    BY <2>1
  <2> HIDE DEF a, b
  <2>5. \A u, v, m, n \in Int : u <= v /\ m <= n /\ u + m = v + n => u = v
    OBVIOUS
  <2>6. QED  BY <2>2, <2>3, <2>4, <2>5, Zenon
<1>2. QED  BY <1>1

\* A finite set has a member of which a number is the greatest.
THEOREM Greatest ==
    ASSUME NEW e, NEW S, IsFiniteSet(S), S # {}, \A x \in S : e[x] \in Int
    PROVE  \E x \in S : \A y \in S : e[y] <= e[x]
<1> DEFINE Good == {s \in SUBSET S : s # {} => \E x \in s : \A y \in s : e[y] <= e[x]}
<1>1. {} \in Good
  OBVIOUS
<1>2. ASSUME NEW s \in SUBSET S, s # {}, s \ {Chosen(s)} \in Good
      PROVE  s \in Good
  <2>1. Chosen(s) \in s
    BY <1>2 DEF Chosen
  <2>2. CASE s \ {Chosen(s)} = {}
    BY <2>1, <2>2
  <2>3. CASE s \ {Chosen(s)} # {}
    <3>1. PICK x \in s \ {Chosen(s)} : \A y \in s \ {Chosen(s)} : e[y] <= e[x]
      BY <1>2, <2>3
    <3>2. e[x] \in Int /\ e[Chosen(s)] \in Int
      BY <2>1
    <3>3. CASE e[Chosen(s)] <= e[x]
      BY <3>1, <3>3
    <3>4. CASE e[x] < e[Chosen(s)]
      BY <2>1, <3>1, <3>2, <3>4
    <3>5. QED  BY <3>2, <3>3, <3>4
  <2>4. QED  BY <2>2, <2>3
<1> HIDE DEF Good
<1>3. S \in Good
  BY <1>1, <1>2, ChosenInduction
<1>4. QED  BY <1>3 DEF Good

\* A common factor can be taken out.
THEOREM SumFactor ==
    ASSUME NEW g, NEW h, NEW S, IsFiniteSet(S), NEW c \in Int,
           \A x \in S : g[x] \in Int /\ h[x] = c * g[x]
    PROVE  SumFunctionOnSet(h, S) = c * SumFunctionOnSet(g, S)
<1> DEFINE Good == {s \in SUBSET S : SumFunctionOnSet(h, s) = c * SumFunctionOnSet(g, s)}
<1>1. {} \in Good
  BY SumEmpty
<1>2. ASSUME NEW s \in SUBSET S, s # {}, s \ {Chosen(s)} \in Good
      PROVE  s \in Good
  <2> DEFINE x == Chosen(s)
             rest == SumFunctionOnSet(g, s \ {x})
  <2>1. /\ x \in s
        /\ SumFunctionOnSet(g, s) = g[x] + rest
        /\ SumFunctionOnSet(h, s) = h[x] + SumFunctionOnSet(h, s \ {x})
    BY <1>2, SumFirst, FS_Subset
  <2>2. rest \in Int
    BY SumInt, FS_Subset
  <2>3. g[x] \in Int /\ h[x] = c * g[x] /\ SumFunctionOnSet(h, s \ {x}) = c * rest
    BY <1>2, <2>1
  <2>4. SumFunctionOnSet(h, s) = c * SumFunctionOnSet(g, s)
    <3> HIDE DEF x, rest
    <3>1. c * (g[x] + rest) = c * g[x] + c * rest
      BY <2>2, <2>3
    <3>2. QED  BY <2>1, <2>3, <3>1
  <2>5. QED  BY <2>4
<1> HIDE DEF Good
<1>3. S \in Good
  BY <1>1, <1>2, ChosenInduction
<1>4. QED  BY <1>3 DEF Good

\* Zeroes add nothing.
THEOREM SumZeroes ==
    ASSUME NEW g, NEW S, NEW T, IsFiniteSet(S), T \subseteq S,
           \A x \in S : g[x] \in Int, \A x \in S \ T : g[x] = 0
    PROVE  SumFunctionOnSet(g, S) = SumFunctionOnSet(g, T)
<1> DEFINE Good == {s \in SUBSET S : SumFunctionOnSet(g, s) = SumFunctionOnSet(g, s \cap T)}
<1>1. {} \in Good
  <2>1. {} \cap T = {}
    OBVIOUS
  <2>2. QED  BY <2>1
<1>2. ASSUME NEW s \in SUBSET S, s # {}, s \ {Chosen(s)} \in Good
      PROVE  s \in Good
  <2> DEFINE x == Chosen(s)
  <2>1. x \in s /\ SumFunctionOnSet(g, s) = g[x] + SumFunctionOnSet(g, s \ {x})
    BY <1>2, SumFirst, FS_Subset
  <2>2. SumFunctionOnSet(g, s \ {x}) = SumFunctionOnSet(g, (s \ {x}) \cap T)
    BY <1>2
  <2>3. CASE x \in T
    <3>1. s \cap T = ((s \ {x}) \cap T) \cup {x} /\ x \notin (s \ {x}) \cap T
      BY <2>1, <2>3
    <3>2. IsFiniteSet((s \ {x}) \cap T) /\ \A y \in ((s \ {x}) \cap T) \cup {x} : g[y] \in Int
      BY <2>1, FS_Subset
    <3>3. SumFunctionOnSet(g, s \cap T) = g[x] + SumFunctionOnSet(g, (s \ {x}) \cap T)
      <4> HIDE DEF x
      <4>1. QED  BY <3>1, <3>2, SumAdd
    <3>4. QED  BY <2>1, <2>2, <3>3
  <2>4. CASE x \notin T
    <3>1. s \cap T = (s \ {x}) \cap T /\ g[x] = 0
      BY <2>1, <2>4
    <3>2. SumFunctionOnSet(g, s \ {x}) \in Int
      BY SumInt, FS_Subset
    <3>3. SumFunctionOnSet(g, s) = SumFunctionOnSet(g, s \ {x})
      BY <2>1, <3>1, <3>2
    <3>4. QED  BY <2>2, <3>1, <3>3
  <2>5. QED  BY <2>3, <2>4
<1> HIDE DEF Good
<1>3. S \in Good
  BY <1>1, <1>2, ChosenInduction
<1>4. S \cap T = T
  OBVIOUS
<1>5. QED  BY <1>3, <1>4 DEF Good

\* A sum is that of a part and that of the rest.
THEOREM SumSplit ==
    ASSUME NEW g, NEW S, IsFiniteSet(S), NEW T, T \subseteq S, \A x \in S : g[x] \in Int
    PROVE  SumFunctionOnSet(g, S) = SumFunctionOnSet(g, T) + SumFunctionOnSet(g, S \ T)
<1> DEFINE a == [x \in S |-> IF x \in T THEN g[x] ELSE 0]
           b == [x \in S |-> IF x \in T THEN 0 ELSE g[x]]
<1>1. SumFunctionOnSet(g, S) = SumFunctionOnSet(a, S) + SumFunctionOnSet(b, S)
  BY SumPlus
<1>2. SumFunctionOnSet(a, S) = SumFunctionOnSet(a, T)
  BY SumZeroes
<1>3. SumFunctionOnSet(b, S) = SumFunctionOnSet(b, S \ T)
  <2>1. S \ T \subseteq S /\ (\A x \in S : b[x] \in Int) /\ (\A x \in S \ (S \ T) : b[x] = 0)
    OBVIOUS
  <2> QED  BY <2>1, SumZeroes
<1>4. SumFunctionOnSet(a, T) = SumFunctionOnSet(g, T)
  BY SumSame, FS_Subset
<1>5. SumFunctionOnSet(b, S \ T) = SumFunctionOnSet(g, S \ T)
  BY SumSame, FS_Subset
<1>6. QED  BY <1>1, <1>2, <1>3, <1>4, <1>5

\* The sum of the part that is picked.
LEMMA SumPicked ==
    ASSUME NEW S, IsFiniteSet(S), NEW T, T \subseteq S, NEW g, \A x \in T : g[x] \in Int,
           NEW h, \A x \in S : h[x] = IF x \in T THEN g[x] ELSE 0
    PROVE  SumFunctionOnSet(h, S) = SumFunctionOnSet(g, T)
<1>1. IsFiniteSet(T)
  BY FS_Subset
<1>2. SumFunctionOnSet(h, S) = SumFunctionOnSet(h, T)
  <2>1. (\A x \in S : h[x] \in Int) /\ \A x \in S \ T : h[x] = 0
    OBVIOUS
  <2> QED  BY <2>1, SumZeroes
<1>3. \A x \in T : h[x] = g[x]
  OBVIOUS
<1>4. SumFunctionOnSet(h, T) = SumFunctionOnSet(g, T)
  BY <1>1, <1>3, SumSame
<1> QED  BY <1>2, <1>4

\* A number alone is its sum.
THEOREM SumSingle ==
    ASSUME NEW g, NEW y, g[y] \in Int
    PROVE  SumFunctionOnSet(g, {y}) = g[y]
<1>1. SumFunctionOnSet(g, {} \union {y}) = g[y] + SumFunctionOnSet(g, {})
  <2>1. IsFiniteSet({}) /\ y \notin {} /\ \A x \in {} \union {y} : g[x] \in Int
    BY FS_EmptySet
  <2> QED  BY <2>1, SumAdd
<1>2. {} \union {y} = {y} /\ SumFunctionOnSet(g, {}) = 0
  BY SumEmpty
<1> QED  BY <1>1, <1>2

\* Nothing but zeroes.
THEOREM SumOfZeroes ==
    ASSUME NEW g, NEW S, IsFiniteSet(S), \A x \in S : g[x] = 0
    PROVE  SumFunctionOnSet(g, S) = 0
<1>1. SumFunctionOnSet(g, S) = SumFunctionOnSet(g, {})
  <2>1. {} \subseteq S /\ (\A x \in S : g[x] \in Int) /\ \A x \in S \ {} : g[x] = 0
    OBVIOUS
  <2> QED  BY <2>1, SumZeroes
<1> QED  BY <1>1, SumEmpty

\* The rows and the columns of a table, added up.
SumsOfRows(e, S, T) == [x \in S |-> SumFunctionOnSet(e[x], T)]
SumsOfColumns(e, S, T) == [y \in T |-> SumFunctionOnSet([x \in S |-> e[x][y]], S)]

\* A table adds up to the same by rows and by columns.
THEOREM SumSwap ==
    ASSUME NEW S, IsFiniteSet(S), NEW T, IsFiniteSet(T),
           NEW e, \A x \in S : \A y \in T : e[x][y] \in Int
    PROVE  SumFunctionOnSet(SumsOfRows(e, S, T), S) = SumFunctionOnSet(SumsOfColumns(e, S, T), T)
<1> DEFINE row == [x \in S |-> SumFunctionOnSet(e[x], T)]
           col(y) == [x \in S |-> e[x][y]]
           sums(s) == [y \in T |-> SumFunctionOnSet(col(y), s)]
           Good == {s \in SUBSET S : SumFunctionOnSet(row, s) = SumFunctionOnSet(sums(s), T)}
<1>0. /\ \A x \in S : row[x] \in Int
      /\ \A s \in SUBSET S : \A y \in T : sums(s)[y] = SumFunctionOnSet(col(y), s) /\ sums(s)[y] \in Int
  <2>1. \A x \in S : row[x] \in Int
    BY SumInt
  <2>2. ASSUME NEW s \in SUBSET S, NEW y \in T
        PROVE  sums(s)[y] = SumFunctionOnSet(col(y), s) /\ sums(s)[y] \in Int
    <3>1. IsFiniteSet(s) /\ \A x \in s : col(y)[x] \in Int
      BY FS_Subset
    <3>2. SumFunctionOnSet(col(y), s) \in Int
      <4> HIDE DEF col
      <4> QED  BY <3>1, SumInt
    <3> QED  BY <3>2
  <2> HIDE DEF row, sums
  <2> QED  BY <2>1, <2>2
<1>1. {} \in Good
  <2>1. SumFunctionOnSet(row, {}) = 0
    BY SumEmpty
  <2>2. \A y \in T : sums({})[y] = 0
    BY SumEmpty
  <2>3. SumFunctionOnSet(sums({}), T) = 0
    <3> HIDE DEF sums
    <3> QED  BY <2>2, SumOfZeroes
  <2> HIDE DEF sums, row
  <2> QED  BY <2>1, <2>3
<1>2. ASSUME NEW s \in SUBSET S, s # {}, s \ {Chosen(s)} \in Good
      PROVE  s \in Good
  <2> DEFINE x == Chosen(s)
             rest == s \ {x}
  <2>1. /\ x \in s /\ IsFiniteSet(s)
        /\ SumFunctionOnSet(row, s) = row[x] + SumFunctionOnSet(row, rest)
    BY <1>2, SumFirst, FS_Subset
  <2>2. ASSUME NEW y \in T PROVE sums(s)[y] = e[x][y] + sums(rest)[y]
    <3>1. SumFunctionOnSet(col(y), s) = col(y)[x] + SumFunctionOnSet(col(y), rest)
      BY <1>2, <2>1, SumFirst
    <3>2. col(y)[x] = e[x][y]
      BY <2>1
    <3>3. sums(s)[y] = SumFunctionOnSet(col(y), s) /\ sums(rest)[y] = SumFunctionOnSet(col(y), rest)
      OBVIOUS
    <3> HIDE DEF col, sums, rest, x
    <3> QED  BY <3>1, <3>2, <3>3
  <2>3. SumFunctionOnSet(sums(s), T) = SumFunctionOnSet(e[x], T) + SumFunctionOnSet(sums(rest), T)
    <3>1. rest \in SUBSET S /\ x \in S
      BY <2>1
    <3> HIDE DEF sums, rest, x
    <3>2. \A y \in T : e[x][y] \in Int /\ sums(rest)[y] \in Int /\ sums(s)[y] = e[x][y] + sums(rest)[y]
      BY <1>0, <2>2, <3>1
    <3> QED  BY <3>2, SumPlus
  <2>4. SumFunctionOnSet(row, rest) = SumFunctionOnSet(sums(rest), T) /\ row[x] = SumFunctionOnSet(e[x], T)
    BY <1>2, <2>1
  <2>5. SumFunctionOnSet(row, s) = SumFunctionOnSet(sums(s), T)
    <3> HIDE DEF sums, rest, x, row
    <3> QED  BY <2>1, <2>3, <2>4
  <2> HIDE DEF sums, rest, x, row
  <2> QED  BY <2>5
<1>3. S \in Good
  <2> HIDE DEF Good
  <2> QED  BY <1>1, <1>2, ChosenInduction
<1> QED  BY <1>3 DEF SumsOfRows, SumsOfColumns

\* A sum is that of its groups.
THEOREM SumGroups ==
    ASSUME NEW S, IsFiniteSet(S), NEW g, \A x \in S : g[x] \in Int, NEW h
    PROVE  SumFunctionOnSet([k \in {h[x] : x \in S} |-> SumFunctionOnSet(g, {x \in S : h[x] = k})],
                            {h[x] : x \in S})
             = SumFunctionOnSet(g, S)
<1> DEFINE K == {h[x] : x \in S}
           e == [x \in S |-> [k \in K |-> IF h[x] = k THEN g[x] ELSE 0]]
           row == [x \in S |-> SumFunctionOnSet(e[x], K)]
           cols == [k \in K |-> SumFunctionOnSet([x \in S |-> e[x][k]], S)]
           groups == [k \in K |-> SumFunctionOnSet(g, {x \in S : h[x] = k})]
<1>1. IsFiniteSet(K)
  <2> DEFINE f == [x \in S |-> h[x]]
  <2>1. f \in Surjection(S, K)
    BY DEF Surjection
  <2> HIDE DEF f, K
  <2> QED  BY <2>1, FS_Surjection
<1>2. \A x \in S : \A k \in K : e[x][k] = (IF h[x] = k THEN g[x] ELSE 0) /\ e[x][k] \in Int
  OBVIOUS
<1>3. ASSUME NEW x \in S PROVE row[x] = g[x]
  <2>1. /\ {h[x]} \subseteq K /\ \A k \in K : e[x][k] \in Int
        /\ \A k \in K \ {h[x]} : e[x][k] = 0
    BY <1>2
  <2>2. SumFunctionOnSet(e[x], K) = SumFunctionOnSet(e[x], {h[x]})
    <3> HIDE DEF K, e
    <3> QED  BY <1>1, <2>1, SumZeroes
  <2>3. e[x][h[x]] = g[x] /\ g[x] \in Int
    BY <1>2
  <2>4. SumFunctionOnSet(e[x], {h[x]}) = g[x]
    <3> HIDE DEF e
    <3> QED  BY <2>3, SumSingle
  <2>5. row[x] = SumFunctionOnSet(e[x], K)
    OBVIOUS
  <2> HIDE DEF row, e, K
  <2> QED  BY <2>2, <2>4, <2>5
<1>4. SumFunctionOnSet(row, S) = SumFunctionOnSet(g, S)
  <2> HIDE DEF row
  <2> QED  BY <1>3, SumSame
<1>5. ASSUME NEW k \in K PROVE cols[k] = groups[k]
  <2> DEFINE f == [x \in S |-> e[x][k]]
             G == {x \in S : h[x] = k}
  <2>1. /\ G \subseteq S /\ (\A x \in S : f[x] \in Int) /\ (\A x \in S \ G : f[x] = 0)
        /\ \A x \in G : f[x] = g[x]
    BY <1>2
  <2>2. cols[k] = SumFunctionOnSet(f, S) /\ groups[k] = SumFunctionOnSet(g, G)
    OBVIOUS
  <2> HIDE DEF f, G, cols, groups
  <2>3. IsFiniteSet(G)
    BY <2>1, FS_Subset
  <2>4. SumFunctionOnSet(f, S) = SumFunctionOnSet(f, G)
    BY <2>1, SumZeroes
  <2>5. SumFunctionOnSet(f, G) = SumFunctionOnSet(g, G)
    BY <2>1, <2>3, SumSame
  <2> QED  BY <2>2, <2>4, <2>5
<1>6. SumFunctionOnSet(cols, K) = SumFunctionOnSet(groups, K)
  <2> HIDE DEF cols, groups, K
  <2> QED  BY <1>1, <1>5, SumSame
<1>7. SumFunctionOnSet(row, S) = SumFunctionOnSet(cols, K)
  <2>1. row = SumsOfRows(e, S, K) /\ cols = SumsOfColumns(e, S, K)
    BY DEF SumsOfRows, SumsOfColumns
  <2> HIDE DEF e, K, row, cols
  <2> QED  BY <1>1, <1>2, <2>1, SumSwap
<1>8. SumFunctionOnSet(groups, K) = SumFunctionOnSet(g, S)
  <2> HIDE DEF groups, K, cols, row
  <2> QED  BY <1>4, <1>6, <1>7
<1> QED  BY <1>8

-----------------------------------------------------------------------------
(* Products.                                                               *)

\* A product of positive numbers is positive, and each of them divides it.
THEOREM ProductDivides ==
    ASSUME NEW g, NEW S, IsFiniteSet(S), \A x \in S : g[x] \in Nat \ {0}
    PROVE  /\ ProductOnSet(g, S) \in Nat \ {0}
           /\ \A x \in S : \E k \in Nat : ProductOnSet(g, S) = g[x] * k
<1> DEFINE P(s) == Iter("times", g, s)[s]
           Good == {s \in SUBSET S : /\ P(s) \in Nat \ {0}
                                     /\ \A x \in s : \E k \in Nat : P(s) = g[x] * k}
<1>1. {} \in Good
  <2>1. IsIter("times", Iter("times", g, {}), g, {})
    BY IterExists, FS_EmptySet
  <2>2. P({}) = Value("times", Iter("times", g, {}), g, {})
    BY <2>1 DEF IsIter
  <2>3. P({}) = 1
    BY <2>2 DEF Value, Unit
  <2> HIDE DEF P
  <2>4. QED  BY <2>3
<1>2. ASSUME NEW s \in SUBSET S, s # {}, s \ {Chosen(s)} \in Good
      PROVE  s \in Good
  <2> DEFINE y == Chosen(s)
             r == s \ {y}
  <2>1. y \in s /\ g[y] \in Nat \ {0}
    BY <1>2 DEF Chosen
  <2>2. IsFiniteSet(s) /\ IsFiniteSet(r)
    BY FS_Subset
  <2>3. IsIter("times", Iter("times", g, s), g, s) /\ IsIter("times", Iter("times", g, r), g, r)
    BY <2>2, IterExists
  <2>4. Iter("times", g, r)[r] = Iter("times", g, s)[r]
    BY <2>2, <2>3, IterUnique
  <2>5. Iter("times", g, s)[s] = g[y] * Iter("times", g, s)[r]
    BY <1>2, <2>3 DEF IsIter, Value
  <2>6. P(s) = g[y] * P(r)
    BY <2>4, <2>5
  <2>7. P(r) \in Nat \ {0} /\ \A x \in r : \E k \in Nat : P(r) = g[x] * k
    BY <1>2
  <2> HIDE DEF P, y, r
  <2>8. P(s) \in Nat \ {0}
    BY <2>1, <2>6, <2>7
  <2>9. ASSUME NEW x \in s
        PROVE  \E k \in Nat : P(s) = g[x] * k
    <3>1. CASE x = y
      BY <2>6, <2>7, <3>1
    <3>2. CASE x # y
      <4>1. PICK k \in Nat : P(r) = g[x] * k
        BY <2>7, <2>9, <3>2 DEF r
      <4>2. g[x] \in Nat
        BY <2>9
      <4>3. P(s) = g[x] * (g[y] * k)
        BY <2>1, <2>6, <4>1, <4>2
      <4>4. g[y] * k \in Nat
        BY <2>1
      <4>5. QED  BY <4>3, <4>4
    <3>3. QED  BY <3>1, <3>2
  <2>10. QED  BY <2>8, <2>9
<1> HIDE DEF Good
<1>3. S \in Good
  BY <1>1, <1>2, ChosenInduction
<1>4. QED  BY <1>3, ProductIsIter DEF Good

-----------------------------------------------------------------------------
(* Circles of waits.                                                       *)

\* Who waits only for those of a higher rank is in no circle: ranks are compared by
\* level, and within a level by number.
THEOREM NoCircle ==
    ASSUME NEW waits, NEW level, NEW number,
           \A p \in DOMAIN waits : level[p] \in Int /\ number[p] \in Int,
           \A p \in DOMAIN waits : \A q \in waits[p] :
              /\ q \in DOMAIN waits
              /\ waits[q] # {} => \/ level[p] < level[q]
                                  \/ level[p] = level[q] /\ number[p] < number[q]
    PROVE  InACircle(waits) = {}
<1> DEFINE procs == {p \in DOMAIN waits : waits[p] # {}}
           Above(p, q) == \/ level[p] < level[q]
                          \/ level[p] = level[q] /\ number[p] < number[q]
<1>1. SUFFICES ASSUME NEW p \in InACircle(waits)
               PROVE  FALSE
  OBVIOUS
<1>2. PICK n \in 1..Cardinality(procs) : \E path \in [0..n -> procs] :
         /\ path[0] = p /\ path[n] = p
         /\ \A m \in 0..(n - 1) : path[m + 1] \in waits[path[m]]
  BY <1>1 DEF InACircle
<1>3. n \in Int /\ n >= 1
  OBVIOUS
<1>4. PICK path \in [0..n -> procs] :
         /\ path[0] = p /\ path[n] = p
         /\ \A m \in 0..(n - 1) : path[m + 1] \in waits[path[m]]
  BY <1>2
<1> HIDE DEF procs
<1> DEFINE S == Range(path)
           Up(z) == {q \in S : Above(z, q)}
           T == {Up(z) : z \in S}
<1>5. IsFiniteSet(S)
  <2>1. IsFiniteSet(0..n)
    BY <1>3, FS_Interval
  <2>2. path \in Surjection(0..n, S)
    BY DEF Surjection, Range
  <2>3. QED  BY <2>1, <2>2, FS_Surjection
<1>6. PICK U \in T : \A V \in T : V \subseteq U => V = U
  <2>1. T \subseteq SUBSET S
    OBVIOUS
  <2>2. path[0] \in S
    BY <1>3 DEF Range
  <2>3. Up(path[0]) \in T
    BY <2>2
  <2> HIDE DEF S, T
  <2>4. QED  BY <1>5, <2>1, <2>3, MinimalSubset
<1>7. PICK z \in S : U = Up(z)
  OBVIOUS
<1>8. PICK y \in S : y \in waits[z]
  <2>1. PICK m \in 0..n : z = path[m]
    BY DEF Range
  <2>2. CASE m = n
    <3>1. 0 \in 0..(n - 1) /\ 0 + 1 \in 0..n /\ path[0] = z
      BY <1>3, <1>4, <2>1, <2>2
    <3>2. QED  BY <1>4, <3>1 DEF Range
  <2>3. CASE m # n
    <3>1. m \in 0..(n - 1) /\ m + 1 \in 0..n
      BY <1>3, <2>3
    <3>2. QED  BY <1>4, <2>1, <3>1 DEF Range
  <2>4. QED  BY <2>2, <2>3
<1>9. S \subseteq procs
  BY DEF Range
<1>10. Above(z, y)
  BY <1>8, <1>9 DEF procs
<1>11. /\ \A w \in procs : level[w] \in Int /\ number[w] \in Int
      /\ z \in procs /\ y \in procs
  BY <1>9 DEF procs
<1>12. Up(y) \subseteq Up(z)
  BY <1>9, <1>10, <1>11
<1>13. y \in Up(z) /\ y \notin Up(y)
  BY <1>10, <1>11
<1>14. Up(y) \in T
  OBVIOUS
<1> HIDE DEF Up
<1>15. QED  BY <1>6, <1>7, <1>12, <1>13, <1>14
=============================================================================
