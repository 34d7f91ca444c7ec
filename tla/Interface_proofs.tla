--------------------------- MODULE Interface_proofs ---------------------------
(***************************************************************************)
(* Theorems about the scans and their records, for any players, contexts,  *)
(* threshold and limits; about the review queue, for any severities and    *)
(* decay; and about the composition of the components around the           *)
(* interface.  First what sums over finite sets are.                       *)
(***************************************************************************)
EXTENDS MCInterface, Pages_proofs, FiniteSetTheorems
-----------------------------------------------------------------------------
(* Sums.                                                                   *)

\* A property of subsets that fails somewhere fails at a smallest place.
LEMMA SmallestBad ==
  ASSUME NEW S, IsFiniteSet(S), NEW Bad, Bad \subseteq SUBSET S, Bad # {}
  PROVE  \E U \in Bad : \A V \in Bad : V \subseteq U => V = U
<1>1. FiniteSubsetsOf(S) = SUBSET S
  BY FS_FiniteSubsetsOfFinite
<1>2. IsWellFoundedOn(StrictSubsetOrdering(S), FiniteSubsetsOf(S))
  BY FS_StrictSubsetOrderingWellFounded
<1>3. PICK U \in Bad : \A V \in Bad : ~ (<<V, U>> \in StrictSubsetOrdering(S))
  BY <1>1, <1>2, WFMin
<1> QED
  BY <1>3 DEF StrictSubsetOrdering

\* h adds up g over the subsets of S, as the community module's folds do.
Equation(h, g, S) ==
  h = [s \in SUBSET S |->
        IF s = {} THEN 0 ELSE LET x == CHOOSE x \in s : TRUE IN g[x] + h[s \ {x}]]

Solution(g, S) == CHOOSE h : Equation(h, g, S)

\* Which set one starts from makes no difference.
LEMMA Agree ==
  ASSUME NEW S, IsFiniteSet(S), NEW T, T \subseteq S, NEW g, NEW h, NEW k,
         Equation(h, g, S), Equation(k, g, T)
  PROVE  \A U \in SUBSET T : h[U] = k[U]
<1> DEFINE Bad == {U \in SUBSET T : h[U] # k[U]}
<1>1. SUFFICES ASSUME Bad # {} PROVE FALSE
  OBVIOUS
<1>2. IsFiniteSet(T)
  BY FS_Subset
<1>3. PICK U \in Bad : \A V \in Bad : V \subseteq U => V = U
  <2>1. Bad \subseteq SUBSET T
    OBVIOUS
  <2> HIDE DEF Bad
  <2> QED
    BY <1>1, <1>2, <2>1, SmallestBad
<1>4. U # {}
  BY DEF Equation
<1> DEFINE x == CHOOSE x \in U : TRUE
<1>5. x \in U
  BY <1>4
<1>6. h[U \ {x}] = k[U \ {x}]
  BY <1>3, <1>5
<1> QED
  BY <1>4, <1>6 DEF Equation

\* There is such an h.
LEMMA SumSolvable ==
  ASSUME NEW S, IsFiniteSet(S), NEW g
  PROVE  Equation(Solution(g, S), g, S)
<1> DEFINE Bad == {U \in SUBSET S : ~ Equation(Solution(g, U), g, U)}
<1>1. SUFFICES ASSUME Bad # {} PROVE FALSE
  BY DEF Solution
<1>2. PICK U \in Bad : \A V \in Bad : V \subseteq U => V = U
  <2>1. Bad \subseteq SUBSET S
    OBVIOUS
  <2> HIDE DEF Bad
  <2> QED
    BY <1>1, <2>1, SmallestBad
<1> DEFINE Below(s) == IF s = {} THEN 0
                       ELSE LET x == CHOOSE x \in s : TRUE
                            IN  g[x] + Solution(g, s \ {x})[s \ {x}]
           f == [s \in SUBSET U |-> Below(s)]
<1>3. \A V \in SUBSET U : V # U => Equation(Solution(g, V), g, V)
  BY <1>2
<1>4. ASSUME NEW V \in SUBSET U, V # U
      PROVE  Solution(g, V)[V] = f[V]
  <2>1. CASE V = {}
    BY <1>3, <1>4, <2>1 DEF Equation
  <2>2. CASE V # {}
    <3> DEFINE x == CHOOSE x \in V : TRUE
               W == V \ {x}
    <3>1. x \in V /\ W \subseteq V /\ W # U /\ V \subseteq S
      BY <2>2, <1>4, <1>2
    <3>2. IsFiniteSet(V)
      BY <3>1, FS_Subset
    <3>3. Equation(Solution(g, V), g, V) /\ Equation(Solution(g, W), g, W)
      BY <1>3, <1>4, <3>1
    <3>4. Solution(g, V)[W] = Solution(g, W)[W]
      <4> HIDE DEF W
      <4> QED
        BY <3>1, <3>2, <3>3, Agree
    <3>5. Solution(g, V)[V] = g[x] + Solution(g, V)[W]
      BY <2>2, <3>3 DEF Equation
    <3>6. f[V] = g[x] + Solution(g, W)[W]
      BY <2>2
    <3> QED
      BY <3>4, <3>5, <3>6
  <2> QED
    BY <2>1, <2>2
<1>5. Equation(f, g, U)
  <2>1. ASSUME NEW s \in SUBSET U, s # {}
        PROVE  LET x == CHOOSE x \in s : TRUE IN f[s] = g[x] + f[s \ {x}]
    <3> DEFINE x == CHOOSE x \in s : TRUE
    <3>1. x \in s
      BY <2>1
    <3>2. s \ {x} \in SUBSET U /\ s \ {x} # U
      BY <3>1
    <3>3. f[s] = g[x] + Solution(g, s \ {x})[s \ {x}]
      BY <2>1
    <3>4. Solution(g, s \ {x})[s \ {x}] = f[s \ {x}]
      <4> HIDE DEF f, x
      <4> QED
        BY <3>2, <1>4
    <3> QED
      BY <3>3, <3>4
  <2>2. f[{}] = 0
    OBVIOUS
  <2>3. f = [s \in SUBSET U |-> f[s]]
    OBVIOUS
  <2> HIDE DEF f
  <2> QED
    BY <2>1, <2>2, <2>3 DEF Equation
<1>6. Equation(Solution(g, U), g, U)
  <2> HIDE DEF f
  <2> QED
    BY <1>5 DEF Solution
<1> QED
  BY <1>2, <1>6

LEMMA SumIs ==
  ASSUME NEW S, NEW g
  PROVE  SumFunctionOnSet(g, S) = Solution(g, S)[S]
BY DEF SumFunctionOnSet, FoldFunctionOnSet, MapThenFoldSet, Solution, Equation

\* One member at a time.
LEMMA SumDown ==
  ASSUME NEW S, IsFiniteSet(S), NEW g, S # {}
  PROVE  LET x == CHOOSE x \in S : TRUE
         IN  x \in S /\ SumFunctionOnSet(g, S) = g[x] + SumFunctionOnSet(g, S \ {x})
<1> DEFINE x == CHOOSE x \in S : TRUE
           W == S \ {x}
<1>1. x \in S
  OBVIOUS
<1>2. Equation(Solution(g, S), g, S) /\ Equation(Solution(g, W), g, W)
  BY FS_Subset, SumSolvable
<1>3. Solution(g, S)[S] = g[x] + Solution(g, S)[W]
  BY <1>1, <1>2 DEF Equation
<1>4. Solution(g, S)[W] = Solution(g, W)[W]
  <2> HIDE DEF W
  <2> QED
    BY <1>2, Agree, W \subseteq S DEF W
<1> QED
  BY <1>1, <1>3, <1>4, SumIs

LEMMA SumNone == \A g : SumFunctionOnSet(g, {}) = 0
<1> SUFFICES ASSUME NEW g PROVE SumFunctionOnSet(g, {}) = 0
  OBVIOUS
<1>1. Equation(Solution(g, {}), g, {})
  BY FS_EmptySet, SumSolvable
<1> QED
  BY <1>1, SumIs DEF Equation

\* Any member may be taken first.
LEMMA SumAny ==
  ASSUME NEW S, IsFiniteSet(S), NEW g, \A x \in S : g[x] \in Int
  PROVE  \A T \in SUBSET S :
           /\ SumFunctionOnSet(g, T) \in Int
           /\ \A x \in T : SumFunctionOnSet(g, T) = g[x] + SumFunctionOnSet(g, T \ {x})
<1> DEFINE Adds(T) == /\ SumFunctionOnSet(g, T) \in Int
                      /\ \A x \in T :
                           SumFunctionOnSet(g, T) = g[x] + SumFunctionOnSet(g, T \ {x})
           Bad == {T \in SUBSET S : ~ Adds(T)}
<1>1. SUFFICES ASSUME Bad # {} PROVE FALSE
  OBVIOUS
<1>2. PICK U \in Bad : \A V \in Bad : V \subseteq U => V = U
  <2>1. Bad \subseteq SUBSET S
    OBVIOUS
  <2> HIDE DEF Bad
  <2> QED
    BY <1>1, <2>1, SmallestBad
<1>3. U # {}
  <2>1. Adds({})
    BY SumNone
  <2> QED
    BY <2>1
<1>4. \A V \in SUBSET U : V # U => Adds(V)
  BY <1>2
<1>5. U \subseteq S /\ ~ Adds(U) /\ IsFiniteSet(U)
  BY FS_Subset
<1> HIDE DEF Bad, Adds
<1> DEFINE c == CHOOSE x \in U : TRUE
<1>6. c \in U /\ SumFunctionOnSet(g, U) = g[c] + SumFunctionOnSet(g, U \ {c})
  BY <1>3, <1>5, SumDown
<1> HIDE DEF c
<1>7. Adds(U \ {c}) /\ g[c] \in Int
  BY <1>4, <1>5, <1>6
<1>8. SumFunctionOnSet(g, U) \in Int
  BY <1>6, <1>7 DEF Adds
<1>9. ASSUME NEW x \in U, x # c
      PROVE  SumFunctionOnSet(g, U) = g[x] + SumFunctionOnSet(g, U \ {x})
  <2> DEFINE W == (U \ {c}) \ {x}
  <2>1. x \in U \ {c} /\ c \in U \ {x} /\ g[x] \in Int /\ (U \ {x}) \ {c} = W
    BY <1>5, <1>6, <1>9
  <2>2. Adds(U \ {x}) /\ Adds(W)
    BY <1>4, <1>6, <1>9
  <2>3. SumFunctionOnSet(g, U \ {c}) = g[x] + SumFunctionOnSet(g, W)
    BY <1>7, <2>1 DEF Adds
  <2>4. SumFunctionOnSet(g, U \ {x}) = g[c] + SumFunctionOnSet(g, W)
    BY <2>1, <2>2 DEF Adds
  <2>5. SumFunctionOnSet(g, W) \in Int
    BY <2>2 DEF Adds
  <2> HIDE DEF W
  <2> QED
    BY <1>6, <1>7, <2>1, <2>3, <2>4, <2>5
<1> QED
  BY <1>5, <1>6, <1>8, <1>9 DEF Adds

\* Where every member of f, a times, is at most its fellow in g, b times, so are the sums.
LEMMA SumScaled ==
  ASSUME NEW S, IsFiniteSet(S), NEW f, NEW g, NEW a \in Nat, NEW b \in Nat,
         \A x \in S : f[x] \in Int /\ g[x] \in Int /\ a * f[x] <= b * g[x]
  PROVE  a * SumFunctionOnSet(f, S) <= b * SumFunctionOnSet(g, S)
<1> DEFINE Scales(T) == a * SumFunctionOnSet(f, T) <= b * SumFunctionOnSet(g, T)
           Bad == {T \in SUBSET S : ~ Scales(T)}
<1>1. SUFFICES ASSUME Bad # {} PROVE FALSE
  OBVIOUS
<1>2. PICK U \in Bad : \A V \in Bad : V \subseteq U => V = U
  <2>1. Bad \subseteq SUBSET S
    OBVIOUS
  <2> HIDE DEF Bad
  <2> QED
    BY <1>1, <2>1, SmallestBad
<1>3. U # {}
  <2>1. SumFunctionOnSet(f, {}) = 0 /\ SumFunctionOnSet(g, {}) = 0
    BY SumNone
  <2>2. a * 0 <= b * 0
    OBVIOUS
  <2>3. Scales({})
    BY <2>1, <2>2
  <2> QED
    BY <2>3
<1>4. \A V \in SUBSET U : V # U => Scales(V)
  BY <1>2
<1>5. U \subseteq S /\ ~ Scales(U)
  OBVIOUS
<1> HIDE DEF Bad
<1>6. PICK x \in U : TRUE
  BY <1>3
<1> DEFINE F == SumFunctionOnSet(f, U \ {x})
           G == SumFunctionOnSet(g, U \ {x})
<1>7. /\ SumFunctionOnSet(f, U) = f[x] + F /\ SumFunctionOnSet(g, U) = g[x] + G
      /\ F \in Int /\ G \in Int
  BY <1>5, SumAny
<1>8. a * F <= b * G
  BY <1>4
<1>9. f[x] \in Int /\ g[x] \in Int /\ a * f[x] <= b * g[x]
  BY <1>5
<1> HIDE DEF F, G, Scales
<1>10. a * (f[x] + F) = a * f[x] + a * F /\ b * (g[x] + G) = b * g[x] + b * G
  <2>1. \A k \in Nat : \A u, v \in Int : k * (u + v) = k * u + k * v
    OBVIOUS
  <2> QED
    BY <1>7, <1>9, <2>1
<1>11. a * f[x] \in Int /\ a * F \in Int /\ b * g[x] \in Int /\ b * G \in Int
  BY <1>7, <1>9
<1>12. a * f[x] + a * F <= b * g[x] + b * G
  BY <1>8, <1>9, <1>11
<1> QED
  BY <1>5, <1>7, <1>10, <1>12 DEF Scales

\* A sum depends only on its members' values.
LEMMA SumSame ==
  ASSUME NEW S, IsFiniteSet(S), NEW f, NEW g,
         \A x \in S : f[x] \in Int /\ g[x] = f[x]
  PROVE  SumFunctionOnSet(f, S) = SumFunctionOnSet(g, S)
<1>1. SumFunctionOnSet(f, S) \in Int /\ SumFunctionOnSet(g, S) \in Int
  BY SumAny
<1>2. 1 * SumFunctionOnSet(f, S) <= 1 * SumFunctionOnSet(g, S)
  BY SumScaled
<1>3. 1 * SumFunctionOnSet(g, S) <= 1 * SumFunctionOnSet(f, S)
  BY SumScaled
<1> QED
  BY <1>1, <1>2, <1>3

LEMMA SumNat ==
  ASSUME NEW S, IsFiniteSet(S), NEW f, \A x \in S : f[x] \in Nat
  PROVE  SumFunctionOnSet(f, S) \in Nat
<1> DEFINE zero == [x \in S |-> 0]
           Bad == {T \in SUBSET S : SumFunctionOnSet(f, T) \notin Nat}
<1>1. SUFFICES ASSUME Bad # {} PROVE FALSE
  OBVIOUS
<1>2. PICK U \in Bad : \A V \in Bad : V \subseteq U => V = U
  <2>1. Bad \subseteq SUBSET S
    OBVIOUS
  <2> HIDE DEF Bad
  <2> QED
    BY <1>1, <2>1, SmallestBad
<1>3. U # {} /\ U \subseteq S /\ SumFunctionOnSet(f, U) \notin Nat
  BY SumNone
<1>4. PICK x \in U : TRUE
  BY <1>3
<1>5. SumFunctionOnSet(f, U \ {x}) \in Nat /\ f[x] \in Nat
  BY <1>2, <1>3
<1>6. SumFunctionOnSet(f, U) = f[x] + SumFunctionOnSet(f, U \ {x})
  BY <1>3, SumAny
<1> QED
  BY <1>3, <1>5, <1>6

\* More members make no less.
LEMMA SumGrows ==
  ASSUME NEW S, IsFiniteSet(S), NEW f, \A x \in S : f[x] \in Nat, NEW A, A \subseteq S
  PROVE  SumFunctionOnSet(f, A) <= SumFunctionOnSet(f, S)
<1> DEFINE Grows(T) == SumFunctionOnSet(f, A \cap T) <= SumFunctionOnSet(f, T)
           Bad == {T \in SUBSET S : ~ Grows(T)}
<1>1. SUFFICES ASSUME Bad # {} PROVE FALSE
  <2>1. A \cap S = A
    OBVIOUS
  <2> QED
    BY <2>1
<1>2. PICK U \in Bad : \A V \in Bad : V \subseteq U => V = U
  <2>1. Bad \subseteq SUBSET S
    OBVIOUS
  <2> HIDE DEF Bad
  <2> QED
    BY <1>1, <2>1, SmallestBad
<1>3. U \subseteq S /\ ~ Grows(U)
  OBVIOUS
<1>4. U # {}
  <2>1. SumFunctionOnSet(f, A \cap {}) = 0 /\ SumFunctionOnSet(f, {}) = 0
    <3>1. A \cap {} = {}
      OBVIOUS
    <3> QED
      BY <3>1, SumNone
  <2>2. Grows({})
    BY <2>1
  <2> HIDE DEF Grows
  <2> QED
    BY <1>3, <2>2
<1>5. PICK x \in U : TRUE
  BY <1>4
<1>6. Grows(U \ {x})
  BY <1>2, <1>3
<1> HIDE DEF Bad
<1> DEFINE F == SumFunctionOnSet(f, A \cap (U \ {x}))
           G == SumFunctionOnSet(f, U \ {x})
<1>7. /\ SumFunctionOnSet(f, U) = f[x] + G /\ f[x] \in Nat /\ F \in Int /\ G \in Int
      /\ F <= G
  <2>1. \A T \in SUBSET S :
           /\ SumFunctionOnSet(f, T) \in Int
           /\ \A y \in T : SumFunctionOnSet(f, T) = f[y] + SumFunctionOnSet(f, T \ {y})
    BY SumAny
  <2> QED
    BY <1>3, <1>6, <2>1
<1>8. SumFunctionOnSet(f, A \cap U) \in {F, f[x] + F}
  <2>1. CASE x \in A
    <3>1. (A \cap U) \ {x} = A \cap (U \ {x}) /\ x \in A \cap U /\ A \cap U \in SUBSET S
      BY <1>3, <2>1
    <3> QED
      BY <3>1, SumAny
  <2>2. CASE x \notin A
    <3>1. A \cap U = A \cap (U \ {x})
      BY <2>2
    <3> QED
      BY <3>1
  <2> QED
    BY <2>1, <2>2
<1> HIDE DEF F, G
<1> QED
  BY <1>3, <1>7, <1>8

\* Renaming the members changes nothing.
LEMMA SumRenamed ==
  ASSUME NEW S, IsFiniteSet(S), NEW f, NEW g, NEW h, NEW T, IsFiniteSet(T),
         \A x \in S : h[x] \in T /\ f[x] \in Int /\ g[h[x]] = f[x],
         \A x, y \in S : h[x] = h[y] => x = y,
         \A y \in T : \E x \in S : y = h[x]
  PROVE  SumFunctionOnSet(f, S) = SumFunctionOnSet(g, T)
<1> DEFINE Image(A) == {h[x] : x \in A}
           Same(A) == SumFunctionOnSet(f, A) = SumFunctionOnSet(g, Image(A))
           Bad == {A \in SUBSET S : ~ Same(A)}
<1>1. SUFFICES ASSUME Bad # {} PROVE FALSE
  <2>1. Image(S) = T
    OBVIOUS
  <2> HIDE DEF Image
  <2> QED
    BY <2>1
<1>2. PICK U \in Bad : \A V \in Bad : V \subseteq U => V = U
  <2>1. Bad \subseteq SUBSET S
    OBVIOUS
  <2> HIDE DEF Bad
  <2> QED
    BY <1>1, <2>1, SmallestBad
<1>3. U \subseteq S /\ ~ Same(U)
  OBVIOUS
<1>4. U # {}
  <2>1. Image({}) = {}
    OBVIOUS
  <2> HIDE DEF Image
  <2> QED
    BY <1>3, <2>1, SumNone
<1>5. PICK x \in U : TRUE
  BY <1>4
<1>6. Same(U \ {x})
  BY <1>2, <1>3
<1> HIDE DEF Bad
<1>7. Image(U \ {x}) = Image(U) \ {h[x]} /\ h[x] \in Image(U) /\ Image(U) \in SUBSET T
  BY <1>3
<1>8. \A y \in T : g[y] \in Int
  OBVIOUS
<1> HIDE DEF Image
<1>9. SumFunctionOnSet(f, U) = f[x] + SumFunctionOnSet(f, U \ {x})
  BY <1>3, SumAny
<1>10. SumFunctionOnSet(g, Image(U)) = g[h[x]] + SumFunctionOnSet(g, Image(U) \ {h[x]})
  BY <1>7, <1>8, SumAny
<1>11. g[h[x]] = f[x]
  BY <1>3
<1> QED
  BY <1>3, <1>6, <1>7, <1>9, <1>10, <1>11
-----------------------------------------------------------------------------
(* The rules.                                                              *)

LEMMA CountsAdd ==
  ASSUME NEW T, NEW s \in Seq(T), NEW f, DOMAIN f = DOMAIN s, \A i \in DOMAIN s : f[i] \in Nat
  PROVE  SumFunction(f) \in Nat
<1>1. DOMAIN s = 1..Len(s) /\ Len(s) \in Nat
  OBVIOUS
<1>2. IsFiniteSet(DOMAIN s)
  BY <1>1, FS_Interval
<1> QED
  BY <1>2, SumNat DEF SumFunction

LEMMA RepeatsAreFew ==
  ASSUME NEW T, NEW s \in Seq(T)
  PROVE  Cardinality(Repeats(s)) \in Nat /\ IsFiniteSet(Repeats(s))
<1>1. DOMAIN s = 1..Len(s) /\ Len(s) \in Nat
  OBVIOUS
<1>2. IsFiniteSet(DOMAIN s) /\ Repeats(s) \subseteq DOMAIN s
  BY <1>1, FS_Interval DEF Repeats
<1> QED
  BY <1>2, FS_Subset, FS_CardinalityType

\* The rules that look for repetitions count surplus copies, whatever the order: of the
\* members of any list that are in K, all but one of each kind.
THEOREM RepeatsAreSurplusCopies ==
  ASSUME NEW T, NEW s \in Seq(T), NEW K
  PROVE  Cardinality({j \in Repeats(s) : s[j] \in K}) =
           Cardinality({i \in DOMAIN s : s[i] \in K})
             - Cardinality({s[i] : i \in DOMAIN s} \cap K)
<1> DEFINE D == {i \in DOMAIN s : s[i] \in K}
           R == {j \in Repeats(s) : s[j] \in K}
           Members == {s[i] : i \in DOMAIN s} \cap K
           F == D \ R
           f == [i \in F |-> s[i]]
<1>1. DOMAIN s = 1..Len(s) /\ Len(s) \in Nat
  OBVIOUS
<1>2. IsFiniteSet(D) /\ R \subseteq D /\ D \subseteq Nat
  <2>1. IsFiniteSet(DOMAIN s) /\ D \subseteq DOMAIN s
    BY <1>1, FS_Interval
  <2>2. IsFiniteSet(D)
    BY <2>1, FS_Subset
  <2> QED
    BY <1>1, <2>2 DEF Repeats
<1>3. IsFiniteSet(F) /\ Cardinality(F) = Cardinality(D) - Cardinality(R)
  <2>1. R = D \cap R
    BY <1>2
  <2> HIDE DEF D, R
  <2>2. /\ IsFiniteSet(D \ R)
        /\ Cardinality(D \ R) = Cardinality(D) - Cardinality(D \cap R)
    BY <1>2, FS_Difference
  <2> QED
    BY <2>1, <2>2
<1>4. \A i, j \in F : s[i] = s[j] => i = j
  <2> SUFFICES ASSUME NEW i \in F, NEW j \in F, s[i] = s[j], i < j PROVE FALSE
    BY <1>2
  <2>1. i \in 1..(j - 1) /\ j \in DOMAIN s /\ s[j] \in K
    BY <1>1
  <2>2. j \in R
    BY <2>1 DEF Repeats
  <2> QED
    BY <2>2
<1>5. \A v \in Members : \E i \in F : s[i] = v
  <2> SUFFICES ASSUME NEW v \in Members PROVE \E i \in F : s[i] = v
    OBVIOUS
  <2> DEFINE P == {i \in DOMAIN s : s[i] = v}
  <2>1. P # {} /\ P \subseteq Nat
    BY <1>1
  <2>2. PICK i \in P : \A j \in P : i <= j
    <3> HIDE DEF P
    <3> QED
      BY <2>1, SmallestNat
  <2>3. i \in D /\ s[i] = v
    OBVIOUS
  <2>4. i \notin Repeats(s)
    <3> SUFFICES ASSUME NEW k \in 1..(i - 1), s[k] = s[i] PROVE FALSE
      BY DEF Repeats
    <3>1. k \in P /\ k < i /\ k \in Nat /\ i \in Nat
      BY <1>1, <2>3
    <3> QED
      BY <2>2, <3>1
  <2> QED
    BY <2>3, <2>4
<1>6. f \in Bijection(F, Members)
  <2>1. \A i \in F : s[i] \in Members /\ f[i] = s[i]
    OBVIOUS
  <2>2. f \in [F -> Members]
    BY <2>1
  <2> HIDE DEF f, F, Members
  <2> QED
    BY <1>4, <1>5, <2>1, <2>2 DEF Bijection, Injection, IsInjective, Surjection
<1>7. Cardinality(Members) = Cardinality(F)
  <2> HIDE DEF f, F, Members
  <2> QED
    BY <1>3, <1>6, FS_Bijection DEF ExistsBijection
<1>8. Cardinality(D) \in Nat /\ Cardinality(R) \in Nat
  <2> HIDE DEF D, R
  <2> QED
    BY <1>2, FS_Subset, FS_CardinalityType
<1> HIDE DEF D, R, Members, F
<1>9. Cardinality(R) = Cardinality(D) - Cardinality(Members)
  BY <1>3, <1>7, <1>8
<1> QED
  BY <1>9 DEF D, R, Members

LEMMA ContextParts ==
  ASSUME NEW c, IsContext(c)
  PROVE  /\ \A i \in DOMAIN c.inventory : c.inventory[i].endgame \in Nat
                                        /\ c.inventory[i].debug \in Nat
         /\ \A i \in DOMAIN c.pals : c.pals[i].passives \in Seq(STRING)
                                   /\ c.pals[i].instanceId \in STRING
         /\ DOMAIN c.pals = 1..Len(c.pals) /\ Len(c.pals) \in Nat
<1> DEFINE Items == [endgame : Nat, debug : 0..1, count : Nat, maxStack : Nat]
           Pals == [rank : Nat, level : Nat, passives : Seq(STRING), instanceId : STRING]
<1>1. c.inventory \in Seq(Items) /\ c.pals \in Seq(Pals)
  BY DEF IsContext
<1>2. /\ \A x \in Items : x.endgame \in Nat /\ x.debug \in Nat
      /\ \A x \in Pals : x.passives \in Seq(STRING) /\ x.instanceId \in STRING
  OBVIOUS
<1> HIDE DEF Items, Pals
<1>3. \A T : \A q \in Seq(T) : \A i \in DOMAIN q : q[i] \in T
  OBVIOUS
<1>4. /\ \A i \in DOMAIN c.inventory : c.inventory[i] \in Items
      /\ \A i \in DOMAIN c.pals : c.pals[i] \in Pals
  BY <1>1, <1>3
<1> QED
  BY <1>1, <1>2, <1>4

\* A rule raises some number of flags about any player.
LEMMA FlagsAreCounted ==
  ASSUME NEW c, IsContext(c), NEW r \in RuleIds
  PROVE  FlagsOf(r, c) \in Nat
<1>1. \A b : Holds(b) \in Nat
  BY DEF Holds
<1>2. LowLevelEndgameItem(c) \in Nat
  <2> DEFINE f == [i \in DOMAIN c.inventory |-> c.inventory[i].endgame]
  <2>1. \A i \in DOMAIN c.inventory : f[i] \in Nat
    BY ContextParts
  <2>2. SumFunction(f) \in Nat
    <3> HIDE DEF f
    <3> QED
      BY <2>1, CountsAdd, DOMAIN f = DOMAIN c.inventory DEF IsContext, f
  <2> QED
    BY <2>2 DEF LowLevelEndgameItem, SumOf
<1>3. ImpossibleStack(c) \in Nat
  <2> DEFINE f == [i \in DOMAIN c.inventory |->
                     Holds(c.inventory[i].maxStack > 0
                           /\ c.inventory[i].count > c.inventory[i].maxStack * 2)]
  <2>1. \A i \in DOMAIN c.inventory : f[i] \in Nat
    BY <1>1
  <2>2. DOMAIN f = DOMAIN c.inventory
    OBVIOUS
  <2>3. SumFunction(f) \in Nat
    <3> HIDE DEF f
    <3> QED
      BY <2>1, <2>2, CountsAdd DEF IsContext
  <2> QED
    BY <2>3 DEF ImpossibleStack, SumOf
<1>4. DebugItem(c) \in Nat
  <2> DEFINE f == [i \in DOMAIN c.inventory |-> c.inventory[i].debug]
  <2>1. \A i \in DOMAIN c.inventory : f[i] \in Nat
    BY ContextParts
  <2>2. DOMAIN f = DOMAIN c.inventory
    OBVIOUS
  <2>3. SumFunction(f) \in Nat
    <3> HIDE DEF f
    <3> QED
      BY <2>1, <2>2, CountsAdd DEF IsContext
  <2> QED
    BY <2>3 DEF DebugItem, SumOf
<1>5. IllegalPalStats(c) \in Nat
  <2> DEFINE f == [i \in DOMAIN c.pals |-> Holds(c.pals[i].rank > 4) + Holds(c.pals[i].level > 55)]
  <2>1. \A i \in DOMAIN c.pals : f[i] \in Nat
    BY <1>1
  <2>2. DOMAIN f = DOMAIN c.pals
    OBVIOUS
  <2>3. SumFunction(f) \in Nat
    <3> HIDE DEF f
    <3> QED
      BY <2>1, <2>2, CountsAdd DEF IsContext
  <2> QED
    BY <2>3 DEF IllegalPalStats, SumOf
<1>6. ImpossiblePassives(c) \in Nat
  <2> DEFINE f == [i \in DOMAIN c.pals |->
                     Holds(Len(c.pals[i].passives) > 4)
                       + Cardinality(Repeats(c.pals[i].passives))]
  <2>1. ASSUME NEW i \in DOMAIN c.pals
        PROVE  f[i] \in Nat
    <3>1. c.pals[i].passives \in Seq(STRING)
      BY ContextParts
    <3>2. Cardinality(Repeats(c.pals[i].passives)) \in Nat
      BY <3>1, RepeatsAreFew
    <3> QED
      BY <1>1, <3>2
  <2>2. DOMAIN f = DOMAIN c.pals
    OBVIOUS
  <2>3. SumFunction(f) \in Nat
    <3> HIDE DEF f
    <3> QED
      BY <2>1, <2>2, CountsAdd DEF IsContext
  <2> QED
    BY <2>3 DEF ImpossiblePassives, SumOf
<1>7. DuplicatePalUUID(c) \in Nat
  <2> DEFINE ids == [i \in DOMAIN c.pals |-> c.pals[i].instanceId]
             copies == {j \in Repeats(ids) : ids[j] # ""}
  <2>1. ids \in Seq(STRING)
    <3>1. /\ DOMAIN c.pals = 1..Len(c.pals) /\ Len(c.pals) \in Nat
          /\ \A i \in DOMAIN c.pals : c.pals[i].instanceId \in STRING
      BY ContextParts
    <3>2. ids \in [1..Len(c.pals) -> STRING]
      BY <3>1
    <3> HIDE DEF ids
    <3> QED
      BY <3>1, <3>2
  <2> HIDE DEF ids
  <2>2. IsFiniteSet(Repeats(ids))
    BY <2>1, RepeatsAreFew
  <2>3. Cardinality(copies) \in Nat
    BY <2>2, FS_Subset, FS_CardinalityType
  <2> USE DEF ids
  <2> HIDE DEF copies
  <2> QED
    BY <2>3 DEF DuplicatePalUUID, copies
<1>8. AbnormalBasePalCount(c) \in Nat
  <2> DEFINE f == [i \in DOMAIN c.bases |-> Holds(c.bases[i] > 50)]
  <2>1. \A i \in DOMAIN c.bases : f[i] \in Nat
    BY <1>1
  <2>2. DOMAIN f = DOMAIN c.bases
    OBVIOUS
  <2>3. SumFunction(f) \in Nat
    <3> HIDE DEF f
    <3> QED
      BY <2>1, <2>2, CountsAdd DEF IsContext
  <2> QED
    BY <2>3 DEF AbnormalBasePalCount, SumOf
<1>9. TechBeyondLevel(c) \in Nat /\ StatsExceedingCap(c) \in Nat
  BY <1>1 DEF TechBeyondLevel, StatsExceedingCap
<1> QED
  BY <1>2, <1>3, <1>4, <1>5, <1>6, <1>7, <1>8, <1>9 DEF FlagsOf, RuleIds
-----------------------------------------------------------------------------
(* Scans.                                                                  *)

ScanOf ==
  [pc : {"off", "next", "lock", "rules", "act"}, left : SUBSET Players,
   player : Players \cup {"none"}, todo : SUBSET Rules, rule : Rules \cup {"none"},
   hits : Nat, at : 0..MaxClock, found : [Players -> Nat], blind : SUBSET Players]
AdminOf ==
  [does : Marks \cup {"dismiss", "nothing"}, player : Players \cup {"none"},
   ids : SUBSET Nat, seen : SUBSET Nat, failed : BOOLEAN]

\* What flags are worth.
Worth(fl, ids) == SumFunctionOnSet([i \in ids |-> Impact(fl[i].rule)], ids)

Sound(s) ==
  /\ s \in ScanOf
  /\ s.pc \in {"lock", "rules"} => s.player \in Players
  /\ s.hits > 0 => s.pc = "rules" /\ s.rule \in Rules

\* Whoever waits for the lock with a trusted player asked before he was.
Fresh(t, s, tr, lt) == s.pc = "lock" /\ s.player \in tr \ s.blind => <<t, s.player>> \notin lt

\* A player the automatic actions have met since he is trusted is skipped by the scan under
\* way, or has had his turn in it.
ActsOnce(s, lt) ==
  \A p \in Players : <<"actions", p>> \in lt =>
    \/ p \in s.blind
    \/ s.found[p] = 0 /\ (s.pc \in {"lock", "rules"} => s.player # p)
    \/ s.pc = "act" /\ p \notin s.left

Newer(fl, seen, i) == {j \in seen \ {i} : fl[j].at >= fl[i].at}

\* Of the flags there were at a click, the player's are still to be gone through, or
\* dismissed, or were behind as many as a report lists, if no statement has failed.
Settling(a, fl) ==
  /\ a \in AdminOf /\ a.ids \subseteq a.seen /\ a.seen \subseteq 1..Len(fl)
  /\ a.ids # {} => a.does \in Marks \cup {"dismiss"}
  /\ a.does = "dismiss" /\ ~ a.failed =>
       \A i \in a.seen : fl[i].player = a.player =>
         \/ i \in a.ids \/ fl[i].dismissed
         \/ Cardinality(Newer(fl, a.seen, i)) >= ListLimit

ScanInv ==
  /\ flags \in Seq(Flags) /\ trusted \subseteq Players /\ enabled \subseteq Rules
  /\ clock \in 0..MaxClock /\ scan \in [Scanners -> ScanOf]
  /\ late \subseteq (Scanners \cup {"actions"}) \X trusted
  /\ \A t \in Scanners : Sound(scan[t]) /\ Fresh(t, scan[t], trusted, late)
  /\ ActsOnce(scan["scheduler"], late)
  /\ Settling(admin, flags)
-----------------------------------------------------------------------------

LEMMA ImpactIs == \A r \in RuleIds : Impact(r) \in Nat
BY DEF Impact, RuleIds

LEMMA FlagParts ==
  ASSUME NEW fl \in Seq(Flags), NEW i \in 1..Len(fl)
  PROVE  /\ fl[i] \in Flags /\ fl[i].player \in Players /\ fl[i].at \in Nat
         /\ fl[i].rule \in Rules /\ Impact(fl[i].rule) \in Nat
<1>1. fl[i] \in Flags
  OBVIOUS
<1>2. Rules \subseteq RuleIds
  BY ScanAssumption
<1>3. fl[i].player \in Players /\ fl[i].at \in Nat /\ fl[i].rule \in Rules
  <2>1. \A f \in Flags : f.player \in Players /\ f.at \in 0..MaxClock /\ f.rule \in Rules
    BY DEF Flags
  <2>2. 0..MaxClock \subseteq Nat
    OBVIOUS
  <2> QED
    BY <1>1, <2>1, <2>2
<1> QED
  BY <1>1, <1>2, <1>3, ImpactIs

LEMMA PlacesAreFinite ==
  ASSUME NEW T, NEW s \in Seq(T)
  PROVE  \A A \in SUBSET (1..Len(s)) : IsFiniteSet(A) /\ Cardinality(A) \in Nat
<1>1. IsFiniteSet(1..Len(s))
  BY FS_Interval, Len(s) \in Nat
<1> QED
  BY <1>1, FS_Subset, FS_CardinalityType

\* More flags are worth no less.
LEMMA WorthGrows ==
  ASSUME NEW fl \in Seq(Flags), NEW B \in SUBSET (1..Len(fl)), NEW A \in SUBSET B
  PROVE  Worth(fl, A) <= Worth(fl, B)
<1> DEFINE g == [i \in B |-> Impact(fl[i].rule)]
           h == [i \in A |-> Impact(fl[i].rule)]
<1>1. \A i \in B : g[i] \in Nat
  BY FlagParts
<1>2. IsFiniteSet(A) /\ IsFiniteSet(B)
  BY PlacesAreFinite
<1>3. \A i \in A : g[i] \in Int /\ h[i] = g[i]
  BY <1>1
<1>4. Worth(fl, A) = SumFunctionOnSet(h, A) /\ Worth(fl, B) = SumFunctionOnSet(g, B)
  BY DEF Worth
<1> HIDE DEF g, h
<1>5. SumFunctionOnSet(g, A) = SumFunctionOnSet(h, A)
  BY <1>2, <1>3, SumSame
<1>6. SumFunctionOnSet(g, A) <= SumFunctionOnSet(g, B)
  BY <1>1, <1>2, SumGrows
<1> QED
  BY <1>4, <1>5, <1>6

-----------------------------------------------------------------------------

LEMMA Threads == "scheduler" \in Scanners /\ "actions" \notin Scanners
BY ScanAssumption DEF Scanners

\* What is known of a thread's scan.
LEMMA ScanParts ==
  ASSUME ScanInv, NEW t \in Scanners
  PROVE  /\ scan[t] \in ScanOf /\ Sound(scan[t]) /\ Fresh(t, scan[t], trusted, late)
         /\ scan[t].pc \in {"lock", "rules"} => scan[t].player \in Players
         /\ scan[t].hits \in Nat /\ scan[t].left \subseteq Players
         /\ scan[t].todo \subseteq Rules
         /\ scan[t].hits > 0 => scan[t].pc = "rules" /\ scan[t].rule \in Rules
<1>1. scan[t] \in ScanOf /\ Sound(scan[t]) /\ Fresh(t, scan[t], trusted, late)
  BY DEF ScanInv
<1> QED
  BY <1>1 DEF Sound, ScanOf

\* The administrator's own part after a step that leaves the flags as they are.
LEMMA SettlingStays ==
  ASSUME ScanInv, flags' = flags
  PROVE  flags' \in Seq(Flags) /\ Settling(admin, flags')
BY DEF ScanInv

\* A step of one thread that does not concern a trusted player.
LEMMA ScanGoes ==
  ASSUME ScanInv, NEW t \in Scanners, NEW n \in ScanOf, Goes(t, n), Sound(n),
         Fresh(t, n, trusted, late), t = "scheduler" => ActsOnce(n, late),
         flags' \in Seq(Flags), Settling(admin, flags'), trusted' = trusted,
         enabled' = enabled, admin' = admin, clock' = clock, late' = late
  PROVE  ScanInv'
<1>1. scan' \in [Scanners -> ScanOf]
  BY DEF ScanInv, Goes
<1>2. ASSUME NEW u \in Scanners
      PROVE  Sound(scan'[u]) /\ Fresh(u, scan'[u], trusted, late)
  BY DEF ScanInv, Goes
<1>3. ActsOnce(scan'["scheduler"], late)
  BY Threads DEF ScanInv, Goes
<1> QED
  BY <1>1, <1>2, <1>3 DEF ScanInv

LEMMA NoScanIs ==
  /\ NoScan \in ScanOf /\ NoScan.found = [p \in Players |-> 0] /\ NoScan.blind = {}
  /\ NoScan.player = "none" /\ NoScan.pc = "off" /\ NoScan.hits = 0
BY ScanAssumption DEF NoScan, ScanOf

\* A scan that has found nothing yet.
LEMMA BeginningIsSound ==
  ASSUME NEW s \in ScanOf, s.found = [p \in Players |-> 0], s.pc \notin {"lock", "rules"},
         s.hits = 0
  PROVE  /\ Sound(s)
         /\ \A lt : ActsOnce(s, lt) /\ \A t, tr : Fresh(t, s, tr, lt)
BY DEF Sound, Fresh, ActsOnce

LEMMA NoScanIsSound ==
  /\ Sound(NoScan)
  /\ \A lt : ActsOnce(NoScan, lt) /\ \A t, tr : Fresh(t, NoScan, tr, lt)
BY NoScanIs, BeginningIsSound

LEMMA BeginScanStep ==
  ASSUME ScanInv, NEW t \in Scanners, NEW who \in SUBSET Players, BeginScan(t, who)
  PROVE  ScanInv'
<1> DEFINE n == [NoScan EXCEPT !.pc = "next", !.left = who]
<1>1. /\ n \in ScanOf /\ n.found = [p \in Players |-> 0] /\ n.pc = "next" /\ n.hits = 0
  BY NoScanIs DEF ScanOf
<1>2. /\ Goes(t, n) /\ flags' = flags /\ trusted' = trusted /\ enabled' = enabled
      /\ admin' = admin /\ clock' = clock /\ late' = late
  BY DEF BeginScan
<1> HIDE DEF n
<1>3. Sound(n) /\ ActsOnce(n, late) /\ Fresh(t, n, trusted, late)
  BY <1>1, BeginningIsSound
<1> QED
  BY <1>1, <1>2, <1>3, SettlingStays, ScanGoes

\* Whoever is on the whitelist and not skipped got no answer.
LEMMA CheckTrustedStep ==
  ASSUME ScanInv, NEW t \in Scanners, NEW p \in Players, CheckTrusted(t, p)
  PROVE  ScanInv'
<1> DEFINE s == scan[t]
           skipped == [s EXCEPT !.left = @ \ {p}]
           checked == [skipped EXCEPT !.pc = "lock", !.player = p,
                                      !.blind = @ \cup ({p} \cap trusted)]
<1>1. s \in ScanOf /\ Sound(s) /\ s.hits \in Nat
  BY ScanParts
<1>2. s.pc = "next" /\ s.hits = 0
  BY <1>1 DEF CheckTrusted, Sound
<1>3. /\ flags' = flags /\ trusted' = trusted /\ enabled' = enabled
      /\ admin' = admin /\ clock' = clock /\ late' = late
      /\ Goes(t, skipped) \/ Goes(t, checked)
  BY DEF CheckTrusted
<1>4. /\ skipped \in ScanOf /\ skipped.found = s.found /\ skipped.hits = 0
      /\ skipped.pc = "next" /\ skipped.blind = s.blind
  BY <1>1, <1>2 DEF ScanOf
<1>5. /\ checked \in ScanOf /\ checked.found = s.found /\ checked.hits = 0
      /\ checked.pc = "lock" /\ checked.player = p
      /\ checked.blind = s.blind \cup ({p} \cap trusted)
  BY <1>1, <1>2 DEF ScanOf
<1>6. t = "scheduler" => ActsOnce(s, late)
  BY DEF ScanInv
<1>7. \A q : <<"actions", q>> \in late => q \in trusted
  BY DEF ScanInv
<1> HIDE DEF s, skipped, checked
<1>8. /\ Sound(skipped) /\ Fresh(t, skipped, trusted, late)
      /\ t = "scheduler" => ActsOnce(skipped, late)
  BY <1>2, <1>4, <1>6 DEF Sound, Fresh, ActsOnce
<1>9. Sound(checked) /\ Fresh(t, checked, trusted, late)
  BY <1>5 DEF Sound, Fresh
<1>10. t = "scheduler" => ActsOnce(checked, late)
  BY <1>2, <1>5, <1>6, <1>7 DEF ActsOnce
<1>11. CASE Goes(t, skipped)
  BY <1>3, <1>4, <1>8, <1>11, SettlingStays, ScanGoes
<1>12. CASE Goes(t, checked)
  BY <1>3, <1>5, <1>9, <1>10, <1>12, SettlingStays, ScanGoes
<1> QED
  BY <1>3, <1>11, <1>12

LEMMA ConcerningIs ==
  ASSUME NEW who, NEW s, NEW p
  PROVE  \A l \in Concerning(who, s, p) : l = <<who, p>> /\ p \in trusted
BY DEF Concerning

\* The lock is taken for a player once, and then there are his rules.
LEMMA LockEngineStep ==
  ASSUME ScanInv, NEW t \in Scanners, LockEngine(t)
  PROVE  ScanInv'
<1> DEFINE s == scan[t]
           n == [s EXCEPT !.pc = "rules", !.todo = Rules]
           met == Concerning(t, s, s.player)
<1>1. /\ s \in ScanOf /\ Sound(s) /\ s.hits \in Nat
      /\ s.pc \in {"lock", "rules"} => s.player \in Players
      /\ s.hits > 0 => s.pc = "rules"
  BY ScanParts
<1>2. s.pc = "lock" /\ s.hits = 0
  BY <1>1 DEF LockEngine
<1>3. /\ Goes(t, n) /\ flags' = flags /\ trusted' = trusted /\ enabled' = enabled
      /\ admin' = admin /\ clock' = clock /\ late' = late \cup met
  BY DEF LockEngine
<1>4. \A l \in met : l = <<t, s.player>> /\ s.player \in trusted
  BY ConcerningIs
<1>5. t = "scheduler" => ActsOnce(s, late)
  BY DEF ScanInv
<1>6. scan' = [scan EXCEPT ![t] = n]
  BY <1>3 DEF Goes
<1> HIDE DEF s, met
<1>7. /\ n \in ScanOf /\ n.found = s.found /\ n.hits = 0 /\ n.player = s.player
      /\ n.pc = "rules" /\ n.blind = s.blind
  BY <1>1, <1>2 DEF ScanOf
<1> HIDE DEF n
<1>8. Sound(n) /\ Fresh(t, n, trusted, late')
  BY <1>1, <1>2, <1>7 DEF Sound, Fresh
<1>9. t = "scheduler" => ActsOnce(n, late)
  BY <1>2, <1>5, <1>7 DEF ActsOnce
<1>10. \A q : <<"actions", q>> \in late' => <<"actions", q>> \in late
  BY <1>3, <1>4, Threads
<1>11. late' \subseteq (Scanners \cup {"actions"}) \X trusted
  BY <1>3, <1>4 DEF ScanInv
<1>12. scan' \in [Scanners -> ScanOf]
  BY <1>6, <1>7 DEF ScanInv
<1>13. ASSUME NEW u \in Scanners
       PROVE  Sound(scan'[u]) /\ Fresh(u, scan'[u], trusted, late')
  <2>1. CASE u = t
    BY <1>6, <1>8, <2>1 DEF ScanInv
  <2>2. CASE u # t
    <3>1. scan'[u] = scan[u] /\ Sound(scan[u]) /\ Fresh(u, scan[u], trusted, late)
      BY <1>6, <2>2 DEF ScanInv
    <3>2. \A q : <<u, q>> \in late' => <<u, q>> \in late
      BY <1>3, <1>4, <2>2
    <3> QED
      BY <3>1, <3>2 DEF Fresh
  <2> QED
    BY <2>1, <2>2
<1>14. ActsOnce(scan'["scheduler"], late')
  <2>1. ActsOnce(scan'["scheduler"], late)
    BY <1>6, <1>9, Threads DEF ScanInv
  <2> QED
    BY <1>10, <2>1 DEF ActsOnce
<1> QED
  BY <1>3, <1>11, <1>12, <1>13, <1>14 DEF ScanInv

LEMMA EvaluateStep ==
  ASSUME ScanInv, NEW t \in Scanners, NEW r \in Rules, Evaluate(t, r)
  PROVE  ScanInv'
<1> DEFINE s == scan[t]
           found == IF r \in enabled THEN FlagsOf(r, Contexts[s.player]) ELSE 0
           n == [s EXCEPT !.todo = @ \ {r}, !.rule = r, !.hits = found, !.at = clock]
<1>1. s \in ScanOf /\ Sound(s) /\ (s.pc \in {"lock", "rules"} => s.player \in Players)
  BY ScanParts
<1>2. s.pc = "rules" /\ s.player \in Players
  BY <1>1 DEF Evaluate
<1>3. /\ Goes(t, n) /\ flags' = flags /\ trusted' = trusted /\ enabled' = enabled
      /\ admin' = admin /\ clock' = clock /\ late' = late
  BY DEF Evaluate
<1>4. found \in Nat /\ clock \in 0..MaxClock
  <2>1. IsContext(Contexts[s.player]) /\ r \in RuleIds
    BY <1>2, ScanAssumption
  <2> QED
    BY <2>1, FlagsAreCounted DEF ScanInv
<1>5. t = "scheduler" => ActsOnce(s, late)
  BY DEF ScanInv
<1> HIDE DEF s, found
<1>6. /\ n \in ScanOf /\ n.found = s.found /\ n.player = s.player /\ n.pc = "rules"
      /\ n.rule \in Rules /\ n.blind = s.blind
  BY <1>1, <1>2, <1>4 DEF ScanOf
<1> HIDE DEF n
<1>7. Sound(n) /\ Fresh(t, n, trusted, late) /\ (t = "scheduler" => ActsOnce(n, late))
  BY <1>2, <1>5, <1>6 DEF Sound, Fresh, ActsOnce
<1> QED
  BY <1>3, <1>6, <1>7, SettlingStays, ScanGoes

LEMMA UnlockEngineStep ==
  ASSUME ScanInv, NEW t \in Scanners, UnlockEngine(t)
  PROVE  ScanInv'
<1> DEFINE s == scan[t]
           n == [s EXCEPT !.pc = "next", !.player = "none", !.rule = "none", !.at = 0]
<1>1. s \in ScanOf /\ s.hits = 0 /\ s.pc = "rules" /\ 0 \in 0..MaxClock
  BY ScanParts, ScanAssumption DEF UnlockEngine
<1>2. /\ Goes(t, n) /\ flags' = flags /\ trusted' = trusted /\ enabled' = enabled
      /\ admin' = admin /\ clock' = clock /\ late' = late
  BY DEF UnlockEngine
<1>3. t = "scheduler" => ActsOnce(s, late)
  BY DEF ScanInv
<1> HIDE DEF s
<1>4. /\ n \in ScanOf /\ n.found = s.found /\ n.hits = 0 /\ n.pc = "next"
      /\ n.blind = s.blind
  BY <1>1 DEF ScanOf
<1> HIDE DEF n
<1>5. Sound(n) /\ Fresh(t, n, trusted, late) /\ (t = "scheduler" => ActsOnce(n, late))
  BY <1>1, <1>3, <1>4 DEF Sound, Fresh, ActsOnce
<1> QED
  BY <1>2, <1>4, <1>5, SettlingStays, ScanGoes

LEMMA EndScanStep ==
  ASSUME ScanInv, NEW t \in Scanners, EndScan(t)
  PROVE  ScanInv'
<1> DEFINE s == scan[t]
           n == [s EXCEPT !.pc = "act", !.left = Players]
<1>1. s \in ScanOf /\ s.hits \in Nat /\ (s.hits > 0 => s.pc = "rules")
  BY ScanParts
<1>2. s.pc = "next" /\ s.hits = 0
  BY <1>1 DEF EndScan
<1>3. /\ flags' = flags /\ trusted' = trusted /\ enabled' = enabled
      /\ admin' = admin /\ clock' = clock /\ late' = late
      /\ Goes(t, NoScan) \/ Goes(t, n)
  BY DEF EndScan
<1>4. t = "scheduler" => ActsOnce(s, late)
  BY DEF ScanInv
<1> HIDE DEF s
<1>5. n \in ScanOf /\ n.found = s.found /\ n.hits = 0 /\ n.pc = "act" /\ n.blind = s.blind
  BY <1>1, <1>2 DEF ScanOf
<1> HIDE DEF n
<1>6. Sound(n) /\ Fresh(t, n, trusted, late) /\ (t = "scheduler" => ActsOnce(n, late))
  BY <1>2, <1>4, <1>5 DEF Sound, Fresh, ActsOnce
<1>7. CASE Goes(t, NoScan)
  BY <1>3, <1>7, NoScanIs, NoScanIsSound, SettlingStays, ScanGoes
<1>8. CASE Goes(t, n)
  BY <1>3, <1>5, <1>6, <1>8, SettlingStays, ScanGoes
<1> QED
  BY <1>3, <1>7, <1>8

LEMMA EndActionsStep ==
  ASSUME ScanInv, EndActions
  PROVE  ScanInv'
<1>1. /\ Goes("scheduler", NoScan) /\ flags' = flags /\ trusted' = trusted
      /\ enabled' = enabled /\ admin' = admin /\ clock' = clock /\ late' = late
  BY DEF EndActions
<1> QED
  BY <1>1, Threads, NoScanIs, NoScanIsSound, SettlingStays, ScanGoes

\* Whoever is acted on has had his turn.
LEMMA ActOnPlayerStep ==
  ASSUME ScanInv, NEW p \in Players, ActOnPlayer(p)
  PROVE  ScanInv'
<1> DEFINE t == "scheduler"
           s == scan[t]
           n == [s EXCEPT !.left = @ \ {p}]
           met == IF AutoAction(s.found[p]) = "nothing" THEN {} ELSE Concerning("actions", s, p)
<1>1. s \in ScanOf /\ s.hits \in Nat /\ (s.hits > 0 => s.pc = "rules")
  BY Threads, ScanParts
<1>2. s.pc = "act" /\ s.hits = 0
  BY <1>1 DEF ActOnPlayer
<1>3. /\ Goes(t, n) /\ flags' = flags /\ trusted' = trusted /\ enabled' = enabled
      /\ admin' = admin /\ clock' = clock /\ late' = late \cup met
  BY DEF ActOnPlayer
<1>4. \A l \in met : l = <<"actions", p>> /\ p \in trusted
  BY ConcerningIs
<1>5. ActsOnce(s, late)
  BY DEF ScanInv
<1>6. scan' = [scan EXCEPT ![t] = n]
  BY <1>3 DEF Goes
<1> HIDE DEF s, met
<1>7. /\ n \in ScanOf /\ n.found = s.found /\ n.hits = 0 /\ n.pc = "act"
      /\ n.blind = s.blind /\ n.left = s.left \ {p}
  BY <1>1, <1>2 DEF ScanOf
<1> HIDE DEF n
<1>8. Sound(n) /\ Fresh(t, n, trusted, late')
  BY <1>7 DEF Sound, Fresh
<1>9. ActsOnce(n, late')
  BY <1>2, <1>3, <1>4, <1>5, <1>7 DEF ActsOnce
<1>10. late' \subseteq (Scanners \cup {"actions"}) \X trusted
  BY <1>3, <1>4 DEF ScanInv
<1>11. scan' \in [Scanners -> ScanOf] /\ scan'[t] = n
  BY <1>6, <1>7, Threads DEF ScanInv
<1>12. ASSUME NEW u \in Scanners
       PROVE  Sound(scan'[u]) /\ Fresh(u, scan'[u], trusted, late')
  <2>1. CASE u = t
    BY <1>8, <1>11, <2>1
  <2>2. CASE u # t
    <3>1. scan'[u] = scan[u] /\ Sound(scan[u]) /\ Fresh(u, scan[u], trusted, late)
      BY <1>6, <2>2 DEF ScanInv
    <3>2. \A q : <<u, q>> \in late' => <<u, q>> \in late
      BY <1>3, <1>4, Threads
    <3> QED
      BY <3>1, <3>2 DEF Fresh
  <2> QED
    BY <2>1, <2>2
<1> QED
  BY <1>3, <1>9, <1>10, <1>11, <1>12 DEF ScanInv

-----------------------------------------------------------------------------
(* What the steps that write flags leave as it is.                         *)

LEMMA SettlingStep ==
  ASSUME NEW a, NEW b \in AdminOf, NEW fl, NEW gl, Settling(a, fl),
         b.does = a.does, b.player = a.player, b.seen = a.seen, b.ids \subseteq a.ids,
         a.failed => b.failed, Len(fl) \in Nat, Len(gl) \in Nat, Len(fl) <= Len(gl),
         \A i \in 1..Len(fl) : /\ gl[i].player = fl[i].player /\ gl[i].at = fl[i].at
                               /\ fl[i].dismissed => gl[i].dismissed,
         a.does = "dismiss" /\ ~ b.failed => \A i \in a.ids \ b.ids : gl[i].dismissed
  PROVE  Settling(b, gl)
<1>1. a.ids \subseteq a.seen /\ a.seen \subseteq 1..Len(fl) /\ 1..Len(fl) \subseteq 1..Len(gl)
  BY DEF Settling
<1>2. ASSUME NEW i \in a.seen
      PROVE  Newer(gl, a.seen, i) = Newer(fl, a.seen, i)
  BY <1>1 DEF Newer
<1>3. ASSUME a.does = "dismiss", ~ b.failed, NEW i \in a.seen, gl[i].player = a.player
      PROVE  \/ i \in b.ids \/ gl[i].dismissed
             \/ Cardinality(Newer(gl, a.seen, i)) >= ListLimit
  <2>1. fl[i].player = a.player /\ (fl[i].dismissed => gl[i].dismissed)
    BY <1>1, <1>3
  <2>2. \/ i \in a.ids \/ fl[i].dismissed
        \/ Cardinality(Newer(fl, a.seen, i)) >= ListLimit
    BY <1>3, <2>1 DEF Settling
  <2> QED
    BY <1>2, <1>3, <2>1, <2>2
<1>4. b.ids # {} => b.does \in Marks \cup {"dismiss"}
  BY DEF Settling
<1> QED
  BY <1>1, <1>3, <1>4 DEF Settling

\* Whether or not the INSERT succeeds, the scan counts the flag.
LEMMA RecordFlagStep ==
  ASSUME ScanInv, NEW t \in Scanners, RecordFlag(t)
  PROVE  ScanInv'
<1> DEFINE s == scan[t]
           p == s.player
           f == [player |-> p, rule |-> s.rule, at |-> s.at, dismissed |-> FALSE,
                 action |-> "none"]
           n == [s EXCEPT !.hits = @ - 1, !.found[p] = @ + Impact(s.rule)]
<1>1. /\ s \in ScanOf /\ s.hits \in Nat /\ s.at \in 0..MaxClock
      /\ s.pc \in {"lock", "rules"} => p \in Players
      /\ s.hits > 0 => s.pc = "rules" /\ s.rule \in Rules
  BY ScanParts DEF ScanOf
<1>2. s.hits > 0 /\ s.pc = "rules" /\ s.rule \in Rules /\ p \in Players
  BY <1>1 DEF RecordFlag
<1>3. /\ Goes(t, n) /\ trusted' = trusted /\ enabled' = enabled /\ admin' = admin
      /\ clock' = clock /\ late' = late
      /\ flags' = Append(flags, f) \/ flags' = flags
  BY DEF RecordFlag
<1>4. f \in Flags
  BY <1>1, <1>2 DEF Flags
<1>5. Impact(s.rule) \in Nat
  BY <1>2, ScanAssumption, ImpactIs
<1>6. t = "scheduler" => ActsOnce(s, late)
  BY DEF ScanInv
<1>7. flags \in Seq(Flags) /\ Len(flags) \in Nat /\ admin \in AdminOf /\ Settling(admin, flags)
  BY DEF ScanInv, Settling
<1>8. flags' \in Seq(Flags) /\ Settling(admin, flags')
  <2>1. CASE flags' = Append(flags, f)
    <3> HIDE DEF f
    <3>1. /\ flags' \in Seq(Flags) /\ Len(flags') = Len(flags) + 1
          /\ \A i \in 1..Len(flags) : flags'[i] = flags[i]
      BY <1>4, <1>7, <2>1
    <3>2. Len(flags') \in Nat /\ Len(flags) <= Len(flags')
      BY <1>7, <3>1
    <3>3. Settling(admin, flags')
      BY <1>7, <3>1, <3>2, SettlingStep
    <3> QED
      BY <3>1, <3>3
  <2>2. CASE flags' = flags
    BY <1>7, <2>2
  <2> QED
    BY <1>3, <2>1, <2>2
<1> HIDE DEF f, s, p
<1>9. /\ n \in ScanOf /\ n.player = p /\ n.pc = "rules" /\ n.rule = s.rule
      /\ n.blind = s.blind
      /\ n.found = [s.found EXCEPT ![p] = s.found[p] + Impact(s.rule)]
      /\ s.found \in [Players -> Nat]
  <2>1. s.hits - 1 \in Nat /\ s.found \in [Players -> Nat] /\ s.player = p
    BY <1>1, <1>2 DEF ScanOf, p
  <2>2. [s.found EXCEPT ![p] = s.found[p] + Impact(s.rule)] \in [Players -> Nat]
    BY <1>2, <1>5, <2>1
  <2>3. n = [[s EXCEPT !.hits = s.hits - 1]
               EXCEPT !.found = [s.found EXCEPT ![p] = s.found[p] + Impact(s.rule)]]
    BY <1>1 DEF ScanOf
  <2> HIDE DEF n
  <2> QED
    BY <1>1, <1>2, <2>1, <2>2, <2>3 DEF ScanOf
<1> HIDE DEF n
<1>10. Sound(n) /\ Fresh(t, n, trusted, late)
  BY <1>2, <1>9 DEF Sound, Fresh
<1>11. t = "scheduler" => ActsOnce(n, late)
  <2> SUFFICES ASSUME t = "scheduler", NEW q \in Players, <<"actions", q>> \in late
               PROVE  q \in n.blind \/ (n.found[q] = 0 /\ n.player # q)
    BY DEF ActsOnce
  <2>1. q \in s.blind \/ (s.found[q] = 0 /\ p # q)
    BY <1>2, <1>6 DEF ActsOnce, p
  <2> QED
    BY <1>9, <2>1
<1> QED
  BY <1>3, <1>8, <1>9, <1>10, <1>11, ScanGoes

\* Whoever is put on the whitelist has been met by nobody since.
LEMMA TrustStep ==
  ASSUME ScanInv, NEW p \in Players, Trust(p)
  PROVE  ScanInv'
<1>1. /\ flags' = flags /\ enabled' = enabled /\ admin' = admin /\ clock' = clock
      /\ scan' = scan /\ trusted \subseteq Players
      /\ late \subseteq (Scanners \cup {"actions"}) \X trusted
  BY DEF Trust, ScanInv
<1>2. CASE p \notin trusted /\ trusted' = trusted \cup {p} /\ late' = late
  <2>1. \A t \in Scanners : Fresh(t, scan[t], trusted', late)
    <3>1. \A t : <<t, p>> \notin late
      BY <1>1, <1>2
    <3>2. \A t \in Scanners : Fresh(t, scan[t], trusted, late)
      BY DEF ScanInv
    <3> QED
      BY <1>2, <3>1, <3>2 DEF Fresh
  <2>2. late' \subseteq (Scanners \cup {"actions"}) \X trusted' /\ trusted' \subseteq Players
    BY <1>1, <1>2
  <2> QED
    BY <1>1, <1>2, <2>1, <2>2 DEF ScanInv
<1>3. CASE trusted' = trusted \ {p} /\ late' = {l \in late : l[2] # p}
  <2>1. \A t \in Scanners : Fresh(t, scan[t], trusted', late')
    BY <1>3 DEF ScanInv, Fresh
  <2>2. ActsOnce(scan["scheduler"], late')
    BY <1>3 DEF ScanInv, ActsOnce
  <2>3. late' \subseteq (Scanners \cup {"actions"}) \X trusted' /\ trusted' \subseteq Players
    BY <1>1, <1>3
  <2> QED
    BY <1>1, <2>1, <2>2, <2>3 DEF ScanInv
<1>4. CASE UNCHANGED <<trusted, late>>
  BY <1>1, <1>4 DEF ScanInv
<1> QED
  BY <1>2, <1>3, <1>4 DEF Trust

LEMMA ToggleRuleStep ==
  ASSUME ScanInv, NEW r \in Rules, ToggleRule(r)
  PROVE  ScanInv'
BY DEF ToggleRule, ScanInv

LEMMA SecondPassesStep ==
  ASSUME ScanInv, SecondPasses
  PROVE  ScanInv'
<1>1. clock' \in 0..MaxClock
  BY ScanAssumption DEF SecondPasses, ScanInv
<1> QED
  BY <1>1 DEF SecondPasses, ScanInv

-----------------------------------------------------------------------------
(* The administrator.                                                      *)

LEMMA NoClickIs ==
  /\ NoClick \in AdminOf /\ NoClick.ids = {} /\ NoClick.seen = {}
  /\ NoClick.does = "nothing" /\ NoClick.does # "dismiss"
BY DEF NoClick, AdminOf

LEMMA NoClickIsSettled == \A fl : Settling(NoClick, fl)
BY NoClickIs DEF Settling

\* A flag a report does not list is behind as many as a report lists.
LEMMA UnlistedIsOlder ==
  ASSUME ScanInv, NEW listing \in Listings(Full), NEW i \in 1..Len(flags), i \notin listing
  PROVE  Cardinality(Newer(flags, 1..Len(flags), i)) >= ListLimit
<1> DEFINE all == 1..Len(flags)
           N == Newer(flags, all, i)
<1>1. flags \in Seq(Flags) /\ Len(flags) \in Nat /\ ListLimit \in Nat
  BY ScanAssumption DEF ScanInv
<1>2. /\ listing \in SUBSET all
      /\ Cardinality(listing) = IF Len(flags) < ListLimit THEN Len(flags) ELSE ListLimit
      /\ \A k \in listing, j \in all \ listing : flags[j].at <= flags[k].at
  BY DEF Listings, Full, kSubset
<1>3. IsFiniteSet(all) /\ Cardinality(all) = Len(flags)
  BY <1>1, FS_Interval
<1>4. Cardinality(listing) = ListLimit
  <2>1. Cardinality(listing) # Len(flags)
    BY <1>2, <1>3, FS_Subset
  <2> QED
    BY <1>2, <2>1
<1>5. listing \subseteq N
  <2> SUFFICES ASSUME NEW k \in listing PROVE k \in N
    OBVIOUS
  <2>1. k \in all /\ k # i /\ flags[i].at <= flags[k].at
    BY <1>2
  <2>2. flags[i].at \in Nat /\ flags[k].at \in Nat
    BY <1>1, <2>1, FlagParts
  <2> QED
    BY <2>1, <2>2 DEF Newer
<1>6. N \in SUBSET all
  BY DEF Newer
<1>7. Cardinality(listing) <= Cardinality(N) /\ Cardinality(N) \in Nat
  BY <1>3, <1>5, <1>6, FS_Subset, FS_CardinalityType
<1> QED
  BY <1>1, <1>4, <1>7

LEMMA ClickReportStep ==
  ASSUME ScanInv, NEW p \in Players, NEW does \in Marks \cup {"dismiss"}, ClickReport(p, does)
  PROVE  ScanInv'
<1>1. PICK n \in 1..Full : \E listing \in Listings(n) :
        admin' = [does |-> does, player |-> p, ids |-> ReportOf(p, listing),
                  seen |-> 1..Len(flags), failed |-> n # Full]
  BY DEF ClickReport
<1>2. PICK listing \in Listings(n) :
        admin' = [does |-> does, player |-> p, ids |-> ReportOf(p, listing),
                  seen |-> 1..Len(flags), failed |-> n # Full]
  BY <1>1
<1>3. /\ admin'.does = does /\ admin'.player = p /\ admin'.ids = ReportOf(p, listing)
      /\ admin'.seen = 1..Len(flags) /\ admin'.failed = (n # Full)
  BY <1>2
<1>4. listing \subseteq 1..Len(flags) /\ ReportOf(p, listing) \subseteq 1..Len(flags)
  BY DEF Listings, kSubset, ReportOf
<1>5. admin' \in AdminOf
  <2>1. 1..Len(flags) \subseteq Nat
    BY DEF ScanInv
  <2> QED
    BY <1>2, <1>4, <2>1 DEF AdminOf
<1>6. ASSUME n = Full, NEW i \in 1..Len(flags), flags[i].player = p
      PROVE  \/ i \in ReportOf(p, listing)
             \/ Cardinality(Newer(flags, 1..Len(flags), i)) >= ListLimit
  <2>1. CASE i \in listing
    BY <1>6, <2>1 DEF ReportOf
  <2>2. CASE i \notin listing
    BY <1>6, <2>2, UnlistedIsOlder
  <2> QED
    BY <2>1, <2>2
<1>7. Settling(admin', flags)
  BY <1>3, <1>4, <1>5, <1>6 DEF Settling
<1>8. flags' = flags /\ trusted' = trusted /\ enabled' = enabled /\ scan' = scan
      /\ clock' = clock /\ late' = late
  BY DEF ClickReport
<1> QED
  BY <1>7, <1>8 DEF ScanInv

\* A dismissal does what it should to its flag, or is one that has failed.
LEMMA UpdateFlagStep ==
  ASSUME ScanInv, NEW i \in admin.ids, UpdateFlag(i)
  PROVE  ScanInv'
<1>1. /\ admin \in AdminOf /\ Settling(admin, flags) /\ admin.ids \subseteq 1..Len(flags)
      /\ admin.does \in Marks \cup {"dismiss"} /\ flags \in Seq(Flags)
      /\ Len(flags) \in Nat /\ i \in 1..Len(flags)
  BY DEF ScanInv, Settling
<1> DEFINE f == IF admin.does = "dismiss" THEN [flags[i] EXCEPT !.dismissed = TRUE]
                ELSE [flags[i] EXCEPT !.action = admin.does]
<1>2. /\ trusted' = trusted /\ enabled' = enabled /\ scan' = scan /\ clock' = clock
      /\ late' = late
      /\ \/ /\ admin' = [admin EXCEPT !.ids = admin.ids \ {i}]
            /\ flags' = [flags EXCEPT ![i] = f]
         \/ /\ admin' = [admin EXCEPT !.ids = admin.ids \ {i}, !.failed = TRUE]
            /\ flags' = flags
  BY <1>1 DEF UpdateFlag
<1>3. /\ f \in Flags /\ f.player = flags[i].player /\ f.at = flags[i].at
      /\ (flags[i].dismissed => f.dismissed) /\ (admin.does = "dismiss" => f.dismissed)
  <2>1. flags[i] \in Flags
    BY <1>1
  <2> QED
    BY <1>1, <2>1 DEF Flags
<1> HIDE DEF f
<1>4. flags' \in Seq(Flags) /\ Len(flags') = Len(flags)
  BY <1>1, <1>2, <1>3
<1>5. ASSUME NEW k \in 1..Len(flags)
      PROVE  /\ flags'[k].player = flags[k].player /\ flags'[k].at = flags[k].at
             /\ flags[k].dismissed => flags'[k].dismissed
  <2>1. flags'[k] = flags[k] \/ (k = i /\ flags'[k] = f)
    BY <1>1, <1>2
  <2> QED
    BY <1>3, <2>1
<1>6. /\ admin' \in AdminOf /\ admin'.does = admin.does /\ admin'.player = admin.player
      /\ admin'.seen = admin.seen /\ admin'.ids = admin.ids \ {i}
      /\ admin.failed => admin'.failed
  BY <1>1, <1>2 DEF AdminOf
<1>7. admin.does = "dismiss" /\ ~ admin'.failed => flags'[i].dismissed
  <2>1. CASE flags' = [flags EXCEPT ![i] = f]
    <3>1. flags'[i] = f
      BY <1>1, <2>1
    <3> QED
      BY <1>3, <3>1
  <2>2. CASE admin' = [admin EXCEPT !.ids = admin.ids \ {i}, !.failed = TRUE]
    BY <1>1, <2>2 DEF AdminOf
  <2> QED
    BY <1>2, <2>1, <2>2
<1>8. Settling(admin', flags')
  <2>1. admin.does = "dismiss" /\ ~ admin'.failed =>
          \A k \in admin.ids \ admin'.ids : flags'[k].dismissed
    BY <1>6, <1>7
  <2>2. \A k \in 1..Len(flags) :
          /\ flags'[k].player = flags[k].player /\ flags'[k].at = flags[k].at
          /\ flags[k].dismissed => flags'[k].dismissed
    BY <1>5
  <2>3. admin'.ids \subseteq admin.ids /\ Len(flags') \in Nat /\ Len(flags) <= Len(flags')
    BY <1>1, <1>4, <1>6
  <2> QED
    BY <1>1, <1>6, <2>1, <2>2, <2>3, SettlingStep
<1> QED
  BY <1>2, <1>4, <1>8 DEF ScanInv

LEMMA ClickDoneStep ==
  ASSUME ScanInv, ClickDone
  PROVE  ScanInv'
<1>1. Settling(NoClick, flags)
  BY NoClickIsSettled
<1> QED
  BY <1>1 DEF ClickDone, ScanInv
-----------------------------------------------------------------------------

LEMMA ScanInitial == ScanInit => ScanInv
<1> SUFFICES ASSUME ScanInit PROVE ScanInv
  OBVIOUS
<1>1. /\ flags = <<>> /\ trusted \subseteq Players /\ enabled = Rules /\ clock = 0
      /\ scan = [t \in Scanners |-> NoScan] /\ admin = NoClick /\ late = {}
  BY DEF ScanInit
<1>2. flags \in Seq(Flags) /\ 0 \in 0..MaxClock
  BY <1>1, ScanAssumption
<1>3. /\ scan \in [Scanners -> ScanOf]
      /\ \A t \in Scanners : Sound(scan[t]) /\ Fresh(t, scan[t], trusted, late)
      /\ ActsOnce(scan["scheduler"], late)
  BY <1>1, Threads, NoScanIs, NoScanIsSound
<1> QED
  BY <1>1, <1>2, <1>3, NoClickIsSettled DEF ScanInv

LEMMA ScanStep ==
  ASSUME ScanInv, [ScanNext]_scanVars
  PROVE  ScanInv'
<1>1. CASE UNCHANGED scanVars
  BY <1>1 DEF ScanInv, scanVars
<1>2. ASSUME NEW t \in Scanners, NEW who \in {Players} \cup {{p} : p \in Players},
             BeginScan(t, who)
      PROVE  ScanInv'
  BY <1>2, BeginScanStep
<1>3. CASE ScanNext
  BY <1>2, <1>3, CheckTrustedStep, LockEngineStep, EvaluateStep, RecordFlagStep,
     UnlockEngineStep, EndScanStep, EndActionsStep, ActOnPlayerStep, TrustStep,
     ToggleRuleStep, SecondPassesStep, ClickReportStep, UpdateFlagStep, ClickDoneStep
  DEF ScanNext
<1> QED
  BY <1>1, <1>3

-----------------------------------------------------------------------------

LEMMA ScanTypes == ScanInv => ScanTypeOK
<1> SUFFICES ASSUME ScanInv PROVE ScanTypeOK
  OBVIOUS
<1>1. ASSUME NEW t \in Scanners
      PROVE  /\ scan[t].pc \in {"off", "next", "lock", "rules", "act"}
             /\ scan[t].player \in Players \cup {"none"} /\ scan[t].at \in 0..MaxClock
             /\ scan[t].left \cup scan[t].blind \subseteq Players
             /\ scan[t].todo \subseteq Rules
             /\ scan[t].rule \in Rules \cup {"none"} /\ scan[t].hits \in Nat
  <2>1. scan[t] \in ScanOf
    BY ScanParts
  <2> QED
    BY <2>1 DEF ScanOf
<1>2. admin.ids \subseteq 1..Len(flags) /\ admin.failed \in BOOLEAN
  BY DEF ScanInv, Settling, AdminOf
<1> QED
  BY <1>1, <1>2 DEF ScanInv, ScanTypeOK

\* The first time since he is trusted: for the thread that takes the lock, and for the
\* automatic actions.
LEMMA TrustedStep ==
  ASSUME ScanInv
  PROVE  /\ \A t \in Scanners :
              LockEngine(t) /\ scan[t].player \in trusted \ scan[t].blind =>
                <<t, scan[t].player>> \notin late
         /\ \A p \in trusted \ scan["scheduler"].blind :
              ActOnPlayer(p) /\ AutoAction(scan["scheduler"].found[p]) # "nothing" =>
                <<"actions", p>> \notin late
<1>1. ASSUME NEW t \in Scanners, LockEngine(t), scan[t].player \in trusted \ scan[t].blind
      PROVE  <<t, scan[t].player>> \notin late
  <2>1. scan[t].pc = "lock"
    BY <1>1 DEF LockEngine
  <2> QED
    BY <1>1, <2>1 DEF ScanInv, Fresh
<1>2. ASSUME NEW p \in trusted \ scan["scheduler"].blind, ActOnPlayer(p),
             AutoAction(scan["scheduler"].found[p]) # "nothing"
      PROVE  <<"actions", p>> \notin late
  <2>1. p \in Players /\ scan["scheduler"].pc = "act" /\ p \in scan["scheduler"].left
    BY <1>2 DEF ScanInv, ActOnPlayer
  <2>2. scan["scheduler"].found[p] # 0
    BY <1>2 DEF AutoAction
  <2> QED
    BY <1>2, <2>1, <2>2 DEF ScanInv, ActsOnce
<1> QED
  BY <1>1, <1>2

\* A dismissal is over when nothing of the report is left to dismiss.
LEMMA DismissalStep ==
  ASSUME ScanInv, ScanNext
  PROVE  Dismissed =>
           LET left == {i \in 1..Len(flags) :
                          /\ flags[i].player = admin.player
                          /\ i \in admin.seen => Cardinality(AsNewAs(i)) >= ListLimit}
           IN Score(admin.player) <= ImpactOf(left)
<1> SUFFICES ASSUME admin.does = "dismiss", ~ admin.failed, admin' = NoClick
             PROVE  LET left == {i \in 1..Len(flags) :
                                   /\ flags[i].player = admin.player
                                   /\ i \in admin.seen => Cardinality(AsNewAs(i)) >= ListLimit}
                    IN Score(admin.player) <= ImpactOf(left)
  BY DEF Dismissed
<1>1. admin.ids = {}
  <2>1. admin # NoClick /\ admin' # admin
    BY NoClickIs
  <2>2. ASSUME NEW i, UpdateFlag(i) PROVE FALSE
    <3>1. admin \in AdminOf
      BY DEF ScanInv, Settling
    <3>2. admin'.does = "dismiss"
      BY <2>2, <3>1 DEF UpdateFlag, AdminOf
    <3> QED
      BY <3>2, NoClickIs
  <2>3. ClickDone
    BY <2>1, <2>2
    DEF ScanNext, BeginScan, CheckTrusted, LockEngine, RecordFlag, UnlockEngine, EndScan,
        Evaluate, EndActions, SecondPasses, ActOnPlayer, Trust, ClickReport, Click, ToggleRule
  <2> QED
    BY <2>3 DEF ClickDone
<1> DEFINE open == {i \in 1..Len(flags) : flags[i].player = admin.player /\ ~ flags[i].dismissed}
           left == {i \in 1..Len(flags) :
                      /\ flags[i].player = admin.player
                      /\ i \in admin.seen =>
                           Cardinality(Newer(flags, admin.seen, i)) >= ListLimit}
<1>2. open \in SUBSET left /\ left \in SUBSET (1..Len(flags))
  <2>1. Settling(admin, flags)
    BY DEF ScanInv
  <2> QED
    BY <1>1, <2>1 DEF Settling
<1>3. Worth(flags, open) <= Worth(flags, left)
  <2> HIDE DEF open, left
  <2> QED
    BY <1>2, WorthGrows DEF ScanInv
<1> QED
  BY <1>3 DEF Score, ImpactOf, Worth, Newer, AsNewAs

\* For any players, contexts, rules, threads and limits: every variable keeps its type.
THEOREM ScansKeepTypes == ScanSpec => []ScanTypeOK
  BY ScanInitial, ScanStep, ScanTypes, PTL DEF ScanSpec

\* For any players, contexts and limits, any number of threads that scan, a threshold of
\* any sign, and statements that fail at any time: from when a player is put on the
\* whitelist, each thread evaluates him at most once more and the automatic actions meet
\* him at most once more, but for scans that got no answer about him.
THEOREM TrustIsKept == ScanSpec => TrustTakesEffect
<1>1. ScanInv /\ [ScanNext]_scanVars =>
        [/\ \A t \in Scanners :
              LockEngine(t) /\ scan[t].player \in trusted \ scan[t].blind =>
                <<t, scan[t].player>> \notin late
         /\ \A p \in trusted \ scan["scheduler"].blind :
              ActOnPlayer(p) /\ AutoAction(scan["scheduler"].found[p]) # "nothing" =>
                <<"actions", p>> \notin late]_scanVars
  BY TrustedStep
<1> QED
  BY <1>1, ScanInitial, ScanStep, PTL DEF ScanSpec, TrustTakesEffect

\* For any players, contexts and limits, scans going on meanwhile and INSERTs that fail: a
\* dismissal none of whose statements fails leaves its player no suspicion score in the
\* database but that of the flags it could not list.
THEOREM DismissalsSettle == ScanSpec => DismissedIsSettled
<1>1. ScanInv /\ [ScanNext]_scanVars =>
        [Dismissed =>
           LET left == {i \in 1..Len(flags) :
                          /\ flags[i].player = admin.player
                          /\ i \in admin.seen => Cardinality(AsNewAs(i)) >= ListLimit}
           IN Score(admin.player) <= ImpactOf(left)]_scanVars
  BY DismissalStep
<1> QED
  BY <1>1, ScanInitial, ScanStep, PTL DEF ScanSpec, DismissedIsSettled

-----------------------------------------------------------------------------
(* The review queue.                                                       *)

Queued ==
  [id : 1..MaxQueued, player : Culprits, rule : ScanRules, at : 0..MaxDay,
   dismissed : BOOLEAN]

\* What is in the queue was announced after what was taken from it.
QueueInv ==
  /\ queue \in Seq(Queued) /\ taken \in Seq(1..MaxQueued) /\ announced \in Seq(1..MaxQueued)
  /\ day \in 0..MaxDay
  /\ \A i \in 1..Len(queue) : queue[i].at <= day /\ queue[i].id <= Len(announced)
  /\ \A i \in 1..Len(taken) : taken[i] <= Len(announced)
  /\ \A i, j \in 1..Len(queue) : i < j => queue[i].id < queue[j].id
  /\ \A i, j \in 1..Len(taken) : i < j => taken[i] < taken[j]
  /\ \A i \in 1..Len(taken), j \in 1..Len(queue) : taken[i] < queue[j].id

\* The scores of any queue on any day.
Unreviewed(q) == {i \in DOMAIN q : ~ q[i].dismissed}
PointsOf(f, d) ==
  (Weight(f) * Decay[d - f.at] * (IF f.at + 1 >= d THEN 3 ELSE 2)) \div 2
Decayed(q, d) == SumFunctionOnSet([i \in Unreviewed(q) |-> PointsOf(q[i], d)], Unreviewed(q))
Plain(q) == SumFunctionOnSet([i \in Unreviewed(q) |-> 1000 * Weight(q[i])], Unreviewed(q))

LEMMA PlacesMakeSeq ==
  ASSUME NEW T, NEW n \in Nat, NEW f \in [1..n -> T]
  PROVE  f \in Seq(T) /\ Len(f) = n
OBVIOUS

LEMMA QueueInitial == QueueInit => QueueInv
<1> SUFFICES ASSUME QueueInit PROVE QueueInv
  OBVIOUS
<1>1. queue = <<>> /\ taken = <<>> /\ announced = <<>> /\ day = 0
  BY DEF QueueInit
<1>2. /\ queue \in Seq(Queued) /\ taken \in Seq(1..MaxQueued) /\ Len(queue) = 0
      /\ announced \in Seq(1..MaxQueued) /\ Len(taken) = 0 /\ 1..0 = {}
  BY <1>1
<1>3. day \in 0..MaxDay
  BY <1>1, QueueAssumption
<1> QED
  BY <1>2, <1>3 DEF QueueInv

LEMMA QueuedParts ==
  \A f \in Queued : /\ f.id \in Nat /\ f.rule \in ScanRules /\ f.at \in Nat /\ f.at \in 0..MaxDay
                    /\ f.dismissed \in BOOLEAN /\ f.id \in 1..MaxQueued
<1>1. 1..MaxQueued \subseteq Nat /\ 0..MaxDay \subseteq Nat
  OBVIOUS
<1> QED
  BY <1>1 DEF Queued

\* A batch is one flag or two, of the day, and numbered on.
LEMMA BatchIs ==
  ASSUME QueueInv, NEW new \in Batches, Enqueue(new)
  PROVE  /\ new \in Seq(Queued) /\ Len(new) \in {1, 2}
         /\ \A i \in 1..Len(new) : new[i].id = Len(announced) + i /\ new[i].at = day
<1>1. PICK p \in Culprits, rs \in {<<r>> : r \in ScanRules}
                                  \cup {<<r, q>> : r \in ScanRules, q \in ScanRules} :
        new = [i \in 1..Len(rs) |-> NewFlag(Len(announced) + i, p, rs[i])]
  BY DEF Batches
<1>2. Len(rs) \in {1, 2} /\ \A i \in 1..Len(rs) : rs[i] \in ScanRules
  <2>1. CASE rs \in {<<r>> : r \in ScanRules}
    BY <2>1
  <2>2. CASE rs \in {<<r, q>> : r \in ScanRules, q \in ScanRules}
    BY <2>2
  <2> QED
    BY <2>1, <2>2
<1>3. Len(new) = Len(rs) /\ DOMAIN new = 1..Len(rs)
  BY <1>1, <1>2
<1>4. Len(announced) \in Nat /\ MaxQueued \in Nat /\ day \in 0..MaxDay
      /\ Len(announced) + Len(new) <= MaxQueued
  BY QueueAssumption DEF QueueInv, Enqueue
<1>5. ASSUME NEW i \in 1..Len(rs)
      PROVE  new[i] \in Queued /\ new[i].id = Len(announced) + i /\ new[i].at = day
  <2>1. new[i] = [id |-> Len(announced) + i, player |-> p, rule |-> rs[i], at |-> day,
                  dismissed |-> FALSE]
    BY <1>1 DEF NewFlag
  <2>2. Len(announced) + i \in 1..MaxQueued
    BY <1>2, <1>3, <1>4
  <2> QED
    BY <1>2, <1>4, <2>1, <2>2 DEF Queued
<1>6. new \in [1..Len(rs) -> Queued]
  BY <1>1, <1>5
<1> QED
  BY <1>2, <1>3, <1>5, <1>6

LEMMA EnqueueStep ==
  ASSUME QueueInv, NEW new \in Batches, Enqueue(new)
  PROVE  QueueInv' /\ announced' # announced
<1>1. /\ new \in Seq(Queued) /\ Len(new) \in {1, 2}
      /\ \A i \in 1..Len(new) : new[i].id = Len(announced) + i /\ new[i].at = day
  BY BatchIs
<1> DEFINE ids == [i \in DOMAIN new |-> new[i].id]
<1>2. /\ queue' = queue \o new /\ announced' = announced \o ids /\ taken' = taken
      /\ day' = day
  BY DEF Enqueue
<1>3. /\ queue \in Seq(Queued) /\ announced \in Seq(1..MaxQueued) /\ Len(queue) \in Nat
      /\ Len(announced) \in Nat /\ day \in Nat
  BY DEF QueueInv
<1>4. ids \in Seq(1..MaxQueued) /\ Len(ids) = Len(new)
  <2>1. \A i \in 1..Len(new) : new[i] \in Queued
    BY <1>1
  <2>2. ids \in [1..Len(new) -> 1..MaxQueued]
    BY <1>1, <2>1, QueuedParts
  <2>3. Len(new) \in Nat
    BY <1>1
  <2> HIDE DEF ids
  <2> QED
    BY <2>2, <2>3, PlacesMakeSeq
<1> HIDE DEF ids
<1>5. /\ queue' \in Seq(Queued) /\ Len(queue') = Len(queue) + Len(new)
      /\ \A i \in 1..Len(queue) : queue'[i] = queue[i]
      /\ \A i \in 1..Len(new) : queue'[Len(queue) + i] = new[i]
  BY <1>1, <1>2, <1>3
<1>6. /\ announced' \in Seq(1..MaxQueued) /\ Len(announced') = Len(announced) + Len(new)
  <2>1. \A T : \A a, b \in Seq(T) : a \o b \in Seq(T) /\ Len(a \o b) = Len(a) + Len(b)
    BY ConcatProperties
  <2>2. /\ announced \o ids \in Seq(1..MaxQueued)
        /\ Len(announced \o ids) = Len(announced) + Len(ids)
    BY <1>3, <1>4, <2>1
  <2> QED
    BY <1>2, <1>4, <2>2
<1>7. ASSUME NEW k \in 1..Len(queue')
      PROVE  \/ k \in 1..Len(queue) /\ queue'[k] = queue[k]
             \/ /\ k > Len(queue) /\ queue'[k].id = Len(announced) + (k - Len(queue))
                /\ queue'[k].at = day
  <2>1. CASE k <= Len(queue)
    BY <1>3, <1>5, <2>1
  <2>2. CASE k > Len(queue)
    <3>1. k - Len(queue) \in 1..Len(new) /\ Len(queue) + (k - Len(queue)) = k
      BY <1>1, <1>3, <1>5, <2>2
    <3>2. queue'[k] = new[k - Len(queue)]
      BY <1>5, <3>1
    <3> QED
      BY <1>1, <2>2, <3>1, <3>2
  <2> QED
    BY <1>3, <1>5, <2>1, <2>2
<1>8. \A k \in 1..Len(queue) : /\ queue[k].id \in Nat /\ queue[k].id <= Len(announced)
                               /\ queue[k].at <= day
  BY <1>3, QueuedParts DEF QueueInv
<1>9. \A k \in 1..Len(taken) : taken[k] \in Nat /\ taken[k] <= Len(announced)
  <2>1. \A T : \A q \in Seq(T) : \A k \in 1..Len(q) : q[k] \in T
    OBVIOUS
  <2>2. \A k \in 1..Len(taken) : taken[k] \in 1..MaxQueued
    BY <2>1 DEF QueueInv
  <2> QED
    BY <2>2 DEF QueueInv
<1>10. \A k \in 1..Len(queue') : queue'[k].at <= day' /\ queue'[k].id <= Len(announced')
  <2> SUFFICES ASSUME NEW k \in 1..Len(queue')
               PROVE  queue'[k].at <= day' /\ queue'[k].id <= Len(announced')
    OBVIOUS
  <2>1. CASE k \in 1..Len(queue) /\ queue'[k] = queue[k]
    BY <1>1, <1>2, <1>3, <1>6, <1>8, <2>1
  <2>2. CASE /\ k > Len(queue) /\ queue'[k].id = Len(announced) + (k - Len(queue))
             /\ queue'[k].at = day
    BY <1>1, <1>2, <1>3, <1>5, <1>6, <2>2
  <2> QED
    BY <1>7, <2>1, <2>2
<1>11. \A j, k \in 1..Len(queue') : j < k => queue'[j].id < queue'[k].id
  <2> SUFFICES ASSUME NEW j \in 1..Len(queue'), NEW k \in 1..Len(queue'), j < k
               PROVE  queue'[j].id < queue'[k].id
    OBVIOUS
  <2>1. CASE k \in 1..Len(queue)
    <3>1. j \in 1..Len(queue) /\ queue'[k] = queue[k] /\ queue'[j] = queue[j]
      BY <1>3, <1>5, <2>1
    <3> QED
      BY <2>1, <3>1 DEF QueueInv
  <2>2. CASE k \notin 1..Len(queue)
    <3>1. k > Len(queue) /\ queue'[k].id = Len(announced) + (k - Len(queue))
      BY <1>7, <2>2
    <3>2. CASE j \in 1..Len(queue) /\ queue'[j] = queue[j]
      BY <1>3, <1>5, <1>8, <3>1, <3>2
    <3>3. CASE queue'[j].id = Len(announced) + (j - Len(queue))
      BY <1>3, <1>5, <3>1, <3>3
    <3> QED
      BY <1>7, <3>2, <3>3
  <2> QED
    BY <2>1, <2>2
<1>12. \A i \in 1..Len(taken'), k \in 1..Len(queue') : taken'[i] < queue'[k].id
  <2> SUFFICES ASSUME NEW i \in 1..Len(taken), NEW k \in 1..Len(queue')
               PROVE  taken[i] < queue'[k].id
    BY <1>2
  <2>1. CASE k \in 1..Len(queue) /\ queue'[k] = queue[k]
    BY <2>1 DEF QueueInv
  <2>2. CASE k > Len(queue) /\ queue'[k].id = Len(announced) + (k - Len(queue))
    BY <1>3, <1>5, <1>9, <2>2
  <2> QED
    BY <1>7, <2>1, <2>2
<1>13. \A i \in 1..Len(taken') : taken'[i] <= Len(announced')
  BY <1>1, <1>2, <1>3, <1>6, <1>9
<1>14. announced' # announced
  <2>1. \A k \in Nat : k + 1 # k /\ k + 2 # k
    OBVIOUS
  <2>2. Len(announced') # Len(announced)
    BY <1>1, <1>3, <1>6, <2>1
  <2> QED
    BY <2>2
<1> QED
  BY <1>2, <1>5, <1>6, <1>10, <1>11, <1>12, <1>13, <1>14 DEF QueueInv

LEMMA DequeueIs ==
  ASSUME QueueInv, Dequeue
  PROVE  /\ QueueInv'
         /\ queue' \in Seq(Queued) /\ Len(queue') = Len(queue) - 1 /\ Len(queue) \in Nat
         /\ \A i \in 1..Len(queue') : i + 1 \in 1..Len(queue) /\ queue'[i] = queue[i + 1]
<1>1. /\ queue \in Seq(Queued) /\ queue # <<>> /\ queue' = Tail(queue)
      /\ taken' = Append(taken, Head(queue).id) /\ taken \in Seq(1..MaxQueued)
      /\ announced' = announced /\ day' = day
  BY DEF QueueInv, Dequeue
<1>2. Len(queue) \in Nat /\ 1 \in 1..Len(queue) /\ Head(queue) = queue[1]
  BY <1>1
<1>3. /\ queue' \in Seq(Queued) /\ Len(queue') = Len(queue) - 1
      /\ \A i \in 1..Len(queue') : i + 1 \in 1..Len(queue) /\ queue'[i] = queue[i + 1]
  BY <1>1, <1>2
<1>4. queue[1].id \in 1..MaxQueued
  <2>1. queue[1] \in Queued
    BY <1>1, <1>2
  <2> QED
    BY <2>1, QueuedParts
<1>5. /\ taken' \in Seq(1..MaxQueued) /\ Len(taken') = Len(taken) + 1 /\ Len(taken) \in Nat
      /\ taken'[Len(taken) + 1] = queue[1].id
      /\ \A i \in 1..Len(taken) : taken'[i] = taken[i]
  BY <1>1, <1>2, <1>4
<1>6. \A i \in 1..Len(taken') : i \in 1..Len(taken) \/ i = Len(taken) + 1
  BY <1>5
<1>7. \A i \in 1..Len(queue') : queue'[i].at <= day' /\ queue'[i].id <= Len(announced')
  BY <1>1, <1>3 DEF QueueInv
<1>8. \A i \in 1..Len(taken') : taken'[i] <= Len(announced')
  BY <1>1, <1>2, <1>5, <1>6 DEF QueueInv
<1>9. \A i, j \in 1..Len(queue') : i < j => queue'[i].id < queue'[j].id
  <2>1. \A i, j \in 1..Len(queue') : i < j => i + 1 < j + 1
    BY <1>2, <1>3
  <2> QED
    BY <1>3, <2>1 DEF QueueInv
<1>10. \A i, j \in 1..Len(taken') : i < j => taken'[i] < taken'[j]
  <2> SUFFICES ASSUME NEW i \in 1..Len(taken'), NEW j \in 1..Len(taken'), i < j
               PROVE  taken'[i] < taken'[j]
    OBVIOUS
  <2>1. i \in 1..Len(taken)
    BY <1>5
  <2>2. CASE j \in 1..Len(taken)
    BY <1>5, <2>1, <2>2 DEF QueueInv
  <2>3. CASE j = Len(taken) + 1
    BY <1>2, <1>5, <2>1, <2>3 DEF QueueInv
  <2> QED
    BY <1>6, <2>2, <2>3
<1>11. \A i \in 1..Len(taken'), j \in 1..Len(queue') : taken'[i] < queue'[j].id
  <2> SUFFICES ASSUME NEW i \in 1..Len(taken'), NEW j \in 1..Len(queue')
               PROVE  taken'[i] < queue'[j].id
    OBVIOUS
  <2>1. j + 1 \in 1..Len(queue) /\ queue'[j] = queue[j + 1] /\ 1 < j + 1
    BY <1>3
  <2>2. CASE i \in 1..Len(taken)
    BY <1>5, <2>1, <2>2 DEF QueueInv
  <2>3. CASE i = Len(taken) + 1
    BY <1>2, <1>5, <2>1, <2>3 DEF QueueInv
  <2> QED
    BY <1>6, <2>2, <2>3
<1>12. QueueInv'
  BY <1>1, <1>3, <1>5, <1>7, <1>8, <1>9, <1>10, <1>11 DEF QueueInv
<1> QED
  BY <1>2, <1>3, <1>12

LEMMA ClearStep ==
  ASSUME QueueInv, Clear
  PROVE  QueueInv'
<1>1. queue' = <<>> /\ taken' = taken /\ announced' = announced /\ day' = day
  BY DEF Clear
<1>2. queue' \in Seq(Queued) /\ Len(queue') = 0 /\ 1..0 = {}
  BY <1>1
<1> QED
  BY <1>1, <1>2 DEF QueueInv

\* A review changes nothing but what is dismissed.
LEMMA ReviewIs ==
  ASSUME QueueInv,
         (\E p \in Culprits : DismissAll(p)) \/ (\E r \in ScanRules : DismissByRule(r))
  PROVE  /\ QueueInv'
         /\ queue' \in Seq(Queued) /\ Len(queue') = Len(queue) /\ day' = day
         /\ \A i \in 1..Len(queue) :
              /\ queue'[i].rule = queue[i].rule /\ queue'[i].at = queue[i].at
              /\ queue[i].dismissed => queue'[i].dismissed
<1>1. queue \in Seq(Queued) /\ DOMAIN queue = 1..Len(queue) /\ Len(queue) \in Nat
  BY DEF QueueInv
<1>2. /\ DOMAIN queue' = 1..Len(queue)
      /\ \A i \in 1..Len(queue) :
           queue'[i] = queue[i] \/ queue'[i] = [queue[i] EXCEPT !.dismissed = TRUE]
      /\ queue' = [i \in 1..Len(queue) |-> queue'[i]]
      /\ announced' = announced /\ taken' = taken /\ day' = day
  BY <1>1 DEF DismissAll, DismissByRule, DismissWhere
<1>3. ASSUME NEW i \in 1..Len(queue)
      PROVE  /\ queue'[i] \in Queued /\ queue'[i].rule = queue[i].rule
             /\ queue'[i].at = queue[i].at /\ queue'[i].id = queue[i].id
             /\ queue[i].dismissed => queue'[i].dismissed
  <2>1. queue[i] \in Queued
    BY <1>1
  <2> QED
    BY <1>2, <2>1 DEF Queued
<1>4. queue' \in Seq(Queued) /\ Len(queue') = Len(queue)
  <2>1. queue' \in [1..Len(queue) -> Queued]
    BY <1>2, <1>3
  <2> QED
    BY <1>1, <2>1, PlacesMakeSeq
<1>5. QueueInv'
  BY <1>2, <1>3, <1>4 DEF QueueInv
<1> QED
  BY <1>2, <1>3, <1>4, <1>5

LEMMA DayPassesStep ==
  ASSUME QueueInv, DayPasses
  PROVE  QueueInv' /\ day' = day + 1 /\ queue' = queue
<1>1. /\ queue' = queue /\ taken' = taken /\ announced' = announced /\ day' = day + 1
      /\ day' \in 0..MaxDay /\ day \in Nat
  BY QueueAssumption DEF QueueInv, DayPasses
<1>2. \A i \in 1..Len(queue) : queue[i].at <= day + 1
  <2>1. \A i \in 1..Len(queue) : queue[i] \in Queued
    BY DEF QueueInv
  <2>2. \A i \in 1..Len(queue) : queue[i].at \in Nat /\ queue[i].at <= day
    BY <2>1, QueuedParts DEF QueueInv
  <2> QED
    BY <1>1, <2>2
<1> QED
  BY <1>1, <1>2 DEF QueueInv

LEMMA QueueStep ==
  ASSUME QueueInv, [QueueNext]_queueVars
  PROVE  QueueInv'
<1>1. CASE UNCHANGED queueVars
  BY <1>1 DEF QueueInv, queueVars
<1>2. CASE QueueNext
  BY <1>2, EnqueueStep, DequeueIs, ClearStep, ReviewIs, DayPassesStep DEF QueueNext
<1> QED
  BY <1>1, <1>2

LEMMA QueueTypes == QueueInv => QueueTypeOK
BY DEF QueueInv, QueueTypeOK, Queued

LEMMA JoinedIs ==
  ASSUME NEW T, NEW a \in Seq(T), NEW b \in Seq(T)
  PROVE  /\ Len(a \o b) = Len(a) + Len(b) /\ DOMAIN (a \o b) = 1..Len(a \o b)
         /\ \A i \in 1..Len(a) : (a \o b)[i] = a[i]
         /\ \A i \in 1..Len(b) : (a \o b)[Len(a) + i] = b[i]
OBVIOUS

LEMMA OrderIsKept == QueueInv => TakenInOrder
<1> SUFFICES ASSUME QueueInv PROVE TakenInOrder
  OBVIOUS
<1> DEFINE ids == [i \in DOMAIN queue |-> queue[i].id]
           order == taken \o ids
<1>1. queue \in Seq(Queued) /\ taken \in Seq(1..MaxQueued) /\ Len(queue) \in Nat
      /\ Len(taken) \in Nat /\ DOMAIN queue = 1..Len(queue)
  BY DEF QueueInv
<1>2. ids \in Seq(1..MaxQueued) /\ Len(ids) = Len(queue)
  <2>1. ids \in [1..Len(queue) -> 1..MaxQueued]
    BY <1>1, QueuedParts
  <2> HIDE DEF ids
  <2> QED
    BY <1>1, <2>1, PlacesMakeSeq
<1>3. \A i \in 1..Len(queue) : ids[i] = queue[i].id
  BY <1>1
<1> HIDE DEF ids
<1>4. /\ Len(order) = Len(taken) + Len(queue) /\ DOMAIN order = 1..Len(order)
      /\ \A i \in 1..Len(taken) : order[i] = taken[i]
      /\ \A i \in 1..Len(queue) : order[Len(taken) + i] = queue[i].id
  <2>1. /\ Len(order) = Len(taken) + Len(ids) /\ DOMAIN order = 1..Len(order)
        /\ \A i \in 1..Len(taken) : order[i] = taken[i]
        /\ \A i \in 1..Len(ids) : order[Len(taken) + i] = ids[i]
    <3> DEFINE T == 1..MaxQueued
    <3>1. taken \in Seq(T) /\ ids \in Seq(T)
      BY <1>1, <1>2
    <3> HIDE DEF T
    <3>2. Len(order) = Len(taken) + Len(ids) /\ DOMAIN order = 1..Len(order)
      BY <3>1, JoinedIs
    <3>3. \A i \in 1..Len(taken) : order[i] = taken[i]
      BY <3>1, JoinedIs
    <3>4. \A i \in 1..Len(ids) : order[Len(taken) + i] = ids[i]
      BY <3>1, JoinedIs
    <3> QED
      BY <3>2, <3>3, <3>4
  <2> QED
    BY <1>2, <1>3, <2>1
<1> HIDE DEF order
<1>5. ASSUME NEW k \in DOMAIN order
      PROVE  \/ k \in 1..Len(taken) /\ order[k] = taken[k]
             \/ /\ k > Len(taken) /\ k - Len(taken) \in 1..Len(queue)
                /\ order[k] = queue[k - Len(taken)].id
  <2>1. CASE k <= Len(taken)
    BY <1>1, <1>4, <2>1
  <2>2. CASE k > Len(taken)
    <3>1. k - Len(taken) \in 1..Len(queue) /\ Len(taken) + (k - Len(taken)) = k
      BY <1>1, <1>4, <2>2
    <3> QED
      BY <1>4, <2>2, <3>1
  <2> QED
    BY <1>1, <1>4, <2>1, <2>2
<1>6. ASSUME NEW i \in DOMAIN order, NEW j \in DOMAIN order, i < j
      PROVE  order[i] < order[j]
  <2>1. CASE j \in 1..Len(taken) /\ order[j] = taken[j]
    <3>1. i \in 1..Len(taken)
      BY <1>1, <1>4, <1>6, <2>1
    <3> QED
      BY <1>4, <1>6, <2>1, <3>1 DEF QueueInv
  <2>2. CASE /\ j > Len(taken) /\ j - Len(taken) \in 1..Len(queue)
             /\ order[j] = queue[j - Len(taken)].id
    <3>1. CASE i \in 1..Len(taken) /\ order[i] = taken[i]
      BY <2>2, <3>1 DEF QueueInv
    <3>2. CASE /\ i - Len(taken) \in 1..Len(queue)
               /\ order[i] = queue[i - Len(taken)].id
      <4>1. i - Len(taken) < j - Len(taken)
        BY <1>1, <1>4, <1>6
      <4> QED
        BY <2>2, <3>2, <4>1 DEF QueueInv
    <3> QED
      BY <1>5, <3>1, <3>2
  <2> QED
    BY <1>5, <2>1, <2>2
<1> QED
  BY <1>6 DEF TakenInOrder, order, ids

-----------------------------------------------------------------------------
(* The scores.                                                             *)

LEMMA WeightIs == \A k \in 0..4 : Weights[k + 1] \in {1, 5, 15, 30, 50}
<1>1. \A k \in 0..4 : k = 0 \/ k = 1 \/ k = 2 \/ k = 3 \/ k = 4
  OBVIOUS
<1>2. /\ Weights[0 + 1] = 1 /\ Weights[1 + 1] = 5 /\ Weights[2 + 1] = 15
      /\ Weights[3 + 1] = 30 /\ Weights[4 + 1] = 50
  BY DEF Weights
<1> QED
  BY <1>1, <1>2

\* A factor of a half to one and a half, and its rounding.
LEMMA PointsBounded ==
  ASSUME NEW w \in {1, 5, 15, 30, 50}, NEW d \in 100..1000, NEW b \in {2, 3}
  PROVE  /\ (w * d * b) \div 2 \in Nat
         /\ 1000 * w <= 10 * ((w * d * b) \div 2)
         /\ 2 * ((w * d * b) \div 2) <= 3 * (1000 * w)
<1> SUFFICES ASSUME NEW v \in Int, v = (w * d * b) \div 2
             PROVE  v \in Nat /\ 1000 * w <= 10 * v /\ 2 * v <= 3 * (1000 * w)
  <2>1. w * d * b \in Int
    OBVIOUS
  <2>2. (w * d * b) \div 2 \in Int
    BY <2>1
  <2> QED
    BY <2>2
<1>1. \A u \in Int : 2 * (u \div 2) <= u /\ u <= 2 * (u \div 2) + 1
  OBVIOUS
<1>2. 2 * v <= w * d * b /\ w * d * b <= 2 * v + 1 /\ w * d * b \in Int
  <2>1. w * d * b \in Int
    OBVIOUS
  <2> QED
    BY <1>1, <2>1
<1>3. ASSUME NEW k \in {1, 5, 15, 30, 50}, w = k, b = 2
      PROVE  v \in Nat /\ 1000 * w <= 10 * v /\ 2 * v <= 3 * (1000 * w)
  BY <1>2, <1>3
<1>4. ASSUME NEW k \in {1, 5, 15, 30, 50}, w = k, b = 3
      PROVE  v \in Nat /\ 1000 * w <= 10 * v /\ 2 * v <= 3 * (1000 * w)
  BY <1>2, <1>4
<1> QED
  BY <1>3, <1>4

LEMMA DecayIs ==
  /\ \A a \in 0..MaxDay : Decay[a] \in 100..1000
  /\ \A a, b \in 0..MaxDay : a <= b => Decay[b] <= Decay[a]
<1>1. Decay \in [0..MaxDay -> 100..1000]
  BY QueueAssumption, Zenon
<1>2. \A a, b \in 0..MaxDay : a <= b => Decay[a] >= Decay[b]
  BY QueueAssumption
<1>3. \A a \in 0..MaxDay : Decay[a] \in 100..1000
  <2> DEFINE shares == 100..1000
  <2>1. Decay \in [0..MaxDay -> shares]
    BY <1>1
  <2> HIDE DEF shares
  <2>2. \A a \in 0..MaxDay : Decay[a] \in shares
    BY <2>1
  <2> QED
    BY <2>2 DEF shares
<1>4. \A a, b \in 0..MaxDay : a <= b => Decay[b] <= Decay[a]
  BY <1>2, <1>3
<1> QED
  BY <1>3, <1>4

\* What a flag gives on the day d.
LEMMA PointsAre ==
  ASSUME NEW f \in Queued, NEW d \in 0..MaxDay, f.at <= d
  PROVE  /\ PointsOf(f, d) \in Nat /\ 1000 * Weight(f) \in Nat
         /\ 1000 * Weight(f) <= 10 * PointsOf(f, d)
         /\ 2 * PointsOf(f, d) <= 3 * (1000 * Weight(f))
<1>1. Weight(f) \in {1, 5, 15, 30, 50}
  <2>1. SeverityOf[f.rule] \in 0..4
    BY QueueAssumption, QueuedParts
  <2> QED
    BY <2>1, WeightIs DEF Weight
<1>2. d - f.at \in 0..MaxDay
  BY QueueAssumption, QueuedParts
<1>3. Decay[d - f.at] \in 100..1000
  <2> DEFINE a == d - f.at
  <2>1. a \in 0..MaxDay
    BY <1>2
  <2> HIDE DEF a
  <2>2. Decay[a] \in 100..1000
    BY <2>1, DecayIs
  <2> QED
    BY <2>2 DEF a
<1> DEFINE b == IF f.at + 1 >= d THEN 3 ELSE 2
<1>4. b \in {2, 3}
  OBVIOUS
<1>5. PointsOf(f, d) = (Weight(f) * Decay[d - f.at] * b) \div 2
  BY DEF PointsOf
<1>6. 1000 * Weight(f) \in Nat
  BY <1>1
<1> DEFINE w == Weight(f)
           e == Decay[d - f.at]
<1>7. w \in {1, 5, 15, 30, 50} /\ e \in 100..1000 /\ PointsOf(f, d) = (w * e * b) \div 2
  <2> HIDE DEF b
  <2> QED
    BY <1>1, <1>3, <1>5
<1> HIDE DEF b, e
<1>8. /\ (w * e * b) \div 2 \in Nat /\ 1000 * w <= 10 * ((w * e * b) \div 2)
      /\ 2 * ((w * e * b) \div 2) <= 3 * (1000 * w)
  <2> HIDE DEF w
  <2> QED
    BY <1>4, <1>7, PointsBounded
<1> QED
  BY <1>6, <1>7, <1>8

\* A day later it gives no more.
LEMMA PointsAge ==
  ASSUME NEW f \in Queued, NEW d \in 0..MaxDay, f.at <= d, d + 1 \in 0..MaxDay
  PROVE  PointsOf(f, d + 1) <= PointsOf(f, d)
<1>1. Weight(f) \in {1, 5, 15, 30, 50}
  <2>1. SeverityOf[f.rule] \in 0..4
    BY QueueAssumption, QueuedParts
  <2> QED
    BY <2>1, WeightIs DEF Weight
<1>2. f.at \in Nat /\ d \in Nat /\ MaxDay \in Nat
  BY QueueAssumption, QueuedParts
<1>3. d - f.at \in 0..MaxDay /\ (d + 1) - f.at \in 0..MaxDay /\ d - f.at <= (d + 1) - f.at
  BY <1>2
<1>4. /\ Decay[d - f.at] \in 100..1000 /\ Decay[(d + 1) - f.at] \in 100..1000
      /\ Decay[(d + 1) - f.at] <= Decay[d - f.at]
  <2> DEFINE a == d - f.at
             n == (d + 1) - f.at
  <2>1. a \in 0..MaxDay /\ n \in 0..MaxDay /\ a <= n
    BY <1>3
  <2> HIDE DEF a, n
  <2>2. Decay[a] \in 100..1000 /\ Decay[n] \in 100..1000 /\ Decay[n] <= Decay[a]
    BY <2>1, DecayIs
  <2> QED
    BY <2>2 DEF a, n
<1> DEFINE b == IF f.at + 1 >= d + 1 THEN 3 ELSE 2
           c == IF f.at + 1 >= d THEN 3 ELSE 2
<1>5. b \in {2, 3} /\ c \in {2, 3} /\ b <= c
  BY <1>2
<1>6. /\ PointsOf(f, d + 1) = (Weight(f) * Decay[(d + 1) - f.at] * b) \div 2
      /\ PointsOf(f, d) = (Weight(f) * Decay[d - f.at] * c) \div 2
  BY DEF PointsOf
<1> DEFINE w == Weight(f)
           e == Decay[d - f.at]
           l == Decay[(d + 1) - f.at]
<1>7. /\ w \in {1, 5, 15, 30, 50} /\ e \in 100..1000 /\ l \in 100..1000 /\ l <= e
      /\ PointsOf(f, d + 1) = (w * l * b) \div 2 /\ PointsOf(f, d) = (w * e * c) \div 2
  <2> HIDE DEF b, c
  <2>1. w \in {1, 5, 15, 30, 50}
    BY <1>1
  <2>2. e \in 100..1000 /\ l \in 100..1000 /\ l <= e
    BY <1>4
  <2>3. PointsOf(f, d + 1) = (w * l * b) \div 2 /\ PointsOf(f, d) = (w * e * c) \div 2
    BY <1>6
  <2> HIDE DEF w, e, l
  <2> QED
    BY <2>1, <2>2, <2>3
<1> HIDE DEF b, c, w, e, l
<1>8. (w * l * b) \div 2 <= (w * e * c) \div 2
  <2>1. w * l <= w * e /\ w * l \in Nat /\ w * e \in Nat
    BY <1>7
  <2>2. \A m, n \in Nat : m <= n => m * 2 <= n * 2 /\ m * 2 <= n * 3 /\ m * 3 <= n * 3
    OBVIOUS
  <2>3. w * l * b <= w * e * c /\ w * l * b \in Int /\ w * e * c \in Int
    BY <1>5, <2>1, <2>2
  <2>4. \A m, n \in Int : m <= n => m \div 2 <= n \div 2
    OBVIOUS
  <2> QED
    BY <2>3, <2>4
<1> QED
  BY <1>7, <1>8

\* A queue whose flags are not of the future.
Past(q, d) == q \in Seq(Queued) /\ d \in 0..MaxDay /\ \A i \in 1..Len(q) : q[i].at <= d

LEMMA OpenIs ==
  ASSUME NEW q, NEW d, Past(q, d)
  PROVE  /\ Unreviewed(q) \subseteq 1..Len(q) /\ Len(q) \in Nat /\ IsFiniteSet(Unreviewed(q))
         /\ \A i \in Unreviewed(q) :
              /\ q[i] \in Queued /\ PointsOf(q[i], d) \in Nat /\ 1000 * Weight(q[i]) \in Nat
              /\ 1000 * Weight(q[i]) <= 10 * PointsOf(q[i], d)
              /\ 2 * PointsOf(q[i], d) <= 3 * (1000 * Weight(q[i]))
<1>1. q \in Seq(Queued) /\ Len(q) \in Nat /\ DOMAIN q = 1..Len(q)
  BY DEF Past
<1>2. Unreviewed(q) \subseteq 1..Len(q)
  BY <1>1 DEF Unreviewed
<1>3. IsFiniteSet(Unreviewed(q))
  BY <1>1, <1>2, PlacesAreFinite
<1>4. \A i \in Unreviewed(q) : q[i] \in Queued /\ q[i].at <= d /\ d \in 0..MaxDay
  BY <1>1, <1>2 DEF Past
<1> QED
  BY <1>1, <1>2, <1>3, <1>4, PointsAre

\* Decay and boost leave a tenth to one and a half times the plain score.
LEMMA ScoresAreBounded ==
  ASSUME NEW q, NEW d, Past(q, d)
  PROVE  /\ Decayed(q, d) \in Nat /\ Plain(q) \in Nat
         /\ Plain(q) <= 10 * Decayed(q, d) /\ 2 * Decayed(q, d) <= 3 * Plain(q)
<1> DEFINE S == Unreviewed(q)
           g == [i \in S |-> PointsOf(q[i], d)]
           h == [i \in S |-> 1000 * Weight(q[i])]
<1>1. IsFiniteSet(S)
  BY OpenIs
<1>2. \A i \in S : g[i] = PointsOf(q[i], d) /\ h[i] = 1000 * Weight(q[i])
  OBVIOUS
<1>3. Decayed(q, d) = SumFunctionOnSet(g, S) /\ Plain(q) = SumFunctionOnSet(h, S)
  BY DEF Decayed, Plain
<1> HIDE DEF g, h
<1>4. \A i \in S : g[i] \in Nat /\ h[i] \in Nat /\ h[i] <= 10 * g[i] /\ 2 * g[i] <= 3 * h[i]
  BY <1>2, OpenIs
<1> HIDE DEF S
<1>5. SumFunctionOnSet(g, S) \in Nat /\ SumFunctionOnSet(h, S) \in Nat
  BY <1>1, <1>4, SumNat
<1>6. 1 * SumFunctionOnSet(h, S) <= 10 * SumFunctionOnSet(g, S)
  <2>1. \A i \in S : h[i] \in Int /\ g[i] \in Int /\ 1 * h[i] <= 10 * g[i]
    BY <1>4
  <2>2. 1 \in Nat /\ 10 \in Nat
    OBVIOUS
  <2> QED
    BY <1>1, <2>1, <2>2, SumScaled
<1>7. 2 * SumFunctionOnSet(g, S) <= 3 * SumFunctionOnSet(h, S)
  <2>1. \A i \in S : h[i] \in Int /\ g[i] \in Int /\ 2 * g[i] <= 3 * h[i]
    BY <1>4
  <2>2. 2 \in Nat /\ 3 \in Nat
    OBVIOUS
  <2> QED
    BY <1>1, <2>1, <2>2, SumScaled
<1> QED
  BY <1>3, <1>5, <1>6, <1>7

\* A queue each of whose open flags has one of its own in another, where it gives no less.
LEMMA ScoreShrinks ==
  ASSUME NEW q, NEW d, Past(q, d), NEW r, NEW e, Past(r, e), NEW h,
         \A i \in Unreviewed(r) : h[i] \in Unreviewed(q) /\ PointsOf(r[i], e) <= PointsOf(q[h[i]], d),
         \A i, j \in Unreviewed(r) : h[i] = h[j] => i = j
  PROVE  Decayed(r, e) <= Decayed(q, d)
<1> DEFINE S == Unreviewed(q)
           T == Unreviewed(r)
           U == {h[i] : i \in T}
           f == [i \in S |-> PointsOf(q[i], d)]
           g == [i \in T |-> PointsOf(r[i], e)]
           k == [i \in T |-> PointsOf(q[h[i]], d)]
<1>1. IsFiniteSet(S) /\ IsFiniteSet(T) /\ U \subseteq S
  BY OpenIs
<1>2. IsFiniteSet(U)
  <2> HIDE DEF U, S
  <2> QED
    BY <1>1, FS_Subset
<1>3. \A i \in S : f[i] \in Nat
  BY OpenIs
<1>4. \A i \in T : g[i] \in Int /\ k[i] \in Int /\ g[i] <= k[i] /\ h[i] \in U /\ f[h[i]] = k[i]
  <2> SUFFICES ASSUME NEW i \in T
               PROVE  /\ g[i] \in Int /\ k[i] \in Int /\ g[i] <= k[i] /\ h[i] \in U
                      /\ f[h[i]] = k[i]
    OBVIOUS
  <2>1. g[i] = PointsOf(r[i], e) /\ k[i] = PointsOf(q[h[i]], d)
    OBVIOUS
  <2>2. h[i] \in S /\ h[i] \in U /\ f[h[i]] = PointsOf(q[h[i]], d)
    OBVIOUS
  <2>3. PointsOf(r[i], e) \in Nat /\ PointsOf(q[h[i]], d) \in Nat
    <3>1. \A j \in Unreviewed(r) : PointsOf(r[j], e) \in Nat
      BY OpenIs
    <3>2. \A j \in Unreviewed(q) : PointsOf(q[j], d) \in Nat
      BY OpenIs
    <3> HIDE DEF f, g, k
    <3> QED
      BY <2>2, <3>1, <3>2
  <2>4. PointsOf(r[i], e) <= PointsOf(q[h[i]], d)
    OBVIOUS
  <2> QED
    BY <2>1, <2>2, <2>3, <2>4
<1>5. \A y \in U : \E i \in T : y = h[i]
  OBVIOUS
<1>6. \A i, j \in T : h[i] = h[j] => i = j
  OBVIOUS
<1>7. Decayed(r, e) = SumFunctionOnSet(g, T) /\ Decayed(q, d) = SumFunctionOnSet(f, S)
  BY DEF Decayed
<1> HIDE DEF S, T, U, f, g, k
<1>8. 1 * SumFunctionOnSet(g, T) <= 1 * SumFunctionOnSet(k, T)
  <2>1. \A i \in T : g[i] \in Int /\ k[i] \in Int /\ 1 * g[i] <= 1 * k[i]
    BY <1>4
  <2> QED
    BY <1>1, <2>1, SumScaled
<1>9. SumFunctionOnSet(k, T) = SumFunctionOnSet(f, U)
  BY <1>1, <1>2, <1>4, <1>5, <1>6, SumRenamed
<1>10. SumFunctionOnSet(f, U) <= SumFunctionOnSet(f, S)
  BY <1>1, <1>3, SumGrows
<1>11. /\ SumFunctionOnSet(g, T) \in Int /\ SumFunctionOnSet(k, T) \in Int
       /\ SumFunctionOnSet(f, S) \in Int
  <2>1. SumFunctionOnSet(g, T) \in Int /\ SumFunctionOnSet(k, T) \in Int
    BY <1>1, <1>4, SumAny
  <2>2. SumFunctionOnSet(f, S) \in Nat
    BY <1>1, <1>3, SumNat
  <2> QED
    BY <2>1, <2>2
<1> QED
  BY <1>7, <1>8, <1>9, <1>10, <1>11

\* A lower score is never recommended more.
LEMMA RecommendedShrinks ==
  ASSUME NEW a \in Nat, NEW b \in Nat, a <= b
  PROVE  Recommended(a) <= Recommended(b)
<1> DEFINE steps == {5, 20, 50, 100, 150}
           A == {t \in steps : a >= 1000 * t}
           B == {t \in steps : b >= 1000 * t}
<1>1. A \subseteq B /\ B \subseteq 5..150
  OBVIOUS
<1>2. IsFiniteSet(5..150)
  <2>1. 5 \in Int /\ 150 \in Int
    OBVIOUS
  <2> QED
    BY <2>1, FS_Interval
<1>3. Recommended(a) = Cardinality(A) /\ Recommended(b) = Cardinality(B)
  BY DEF Recommended
<1> HIDE DEF A, B
<1> QED
  BY <1>1, <1>2, <1>3, FS_Subset

\* Only a new flag raises a score.
LEMMA ScoreStep ==
  ASSUME QueueInv, QueueNext, announced' = announced
  PROVE  Decayed(queue', day') <= Decayed(queue, day)
<1>1. /\ Past(queue, day) /\ Past(queue', day') /\ day \in Nat
      /\ queue \in Seq(Queued) /\ queue' \in Seq(Queued)
      /\ Len(queue) \in Nat /\ Len(queue') \in Nat
      /\ DOMAIN queue = 1..Len(queue) /\ DOMAIN queue' = 1..Len(queue')
  <2>1. QueueInv'
    BY QueueStep
  <2> QED
    BY <2>1 DEF QueueInv, Past
<1>2. ASSUME NEW new \in Batches, Enqueue(new) PROVE FALSE
  BY <1>2, EnqueueStep
<1>3. CASE Dequeue
  <2> DEFINE h == [i \in Unreviewed(queue') |-> i + 1]
  <2>1. /\ \A i \in 1..Len(queue') : i + 1 \in 1..Len(queue) /\ queue'[i] = queue[i + 1]
        /\ day' = day
    BY <1>3, DequeueIs DEF Dequeue
  <2>2. \A i \in Unreviewed(queue') : i \in 1..Len(queue') /\ i \in Nat /\ ~ queue'[i].dismissed
    BY <1>1 DEF Unreviewed
  <2>3. \A i \in Unreviewed(queue') : h[i] \in Unreviewed(queue) /\ queue'[i] = queue[h[i]]
    BY <1>1, <2>1, <2>2 DEF Unreviewed
  <2>4. \A i \in Unreviewed(queue') : PointsOf(queue'[i], day') \in Nat
    <3>1. Past(queue', day')
      BY <1>1
    <3> QED
      BY <3>1, OpenIs
  <2>5. \A i \in Unreviewed(queue') :
          h[i] \in Unreviewed(queue) /\ PointsOf(queue'[i], day') <= PointsOf(queue[h[i]], day)
    <3> HIDE DEF h
    <3>1. \A n \in Nat : n <= n
      OBVIOUS
    <3>2. \A i \in Unreviewed(queue') : PointsOf(queue'[i], day') = PointsOf(queue[h[i]], day)
      BY <2>1, <2>3
    <3> QED
      BY <2>3, <2>4, <3>1, <3>2
  <2>6. \A i, j \in Unreviewed(queue') : h[i] = h[j] => i = j
    BY <2>2
  <2> HIDE DEF h
  <2> QED
    BY <1>1, <2>5, <2>6, ScoreShrinks
<1>4. ASSUME \A i \in Unreviewed(queue') :
               i \in Unreviewed(queue) /\ PointsOf(queue'[i], day') <= PointsOf(queue[i], day)
      PROVE  Decayed(queue', day') <= Decayed(queue, day)
  <2> DEFINE h == [i \in Unreviewed(queue') |-> i]
  <2>1. \A i \in Unreviewed(queue') : h[i] = i
    OBVIOUS
  <2> HIDE DEF h
  <2>2. /\ \A i \in Unreviewed(queue') :
             h[i] \in Unreviewed(queue) /\ PointsOf(queue'[i], day') <= PointsOf(queue[h[i]], day)
        /\ \A i, j \in Unreviewed(queue') : h[i] = h[j] => i = j
    BY <1>4, <2>1
  <2> QED
    BY <1>1, <2>2, ScoreShrinks
<1>5. CASE Clear
  <2>1. Unreviewed(queue') = {}
    BY <1>5 DEF Clear, Unreviewed
  <2> QED
    BY <1>4, <2>1
<1>6. CASE (\E p \in Culprits : DismissAll(p)) \/ (\E r \in ScanRules : DismissByRule(r))
  <2>1. /\ Len(queue') = Len(queue) /\ day' = day
        /\ \A i \in 1..Len(queue) :
             /\ queue'[i].rule = queue[i].rule /\ queue'[i].at = queue[i].at
             /\ queue[i].dismissed => queue'[i].dismissed
    BY <1>6, ReviewIs
  <2>2. ASSUME NEW i \in Unreviewed(queue')
        PROVE  i \in Unreviewed(queue) /\ PointsOf(queue'[i], day') <= PointsOf(queue[i], day)
    <3>1. i \in Unreviewed(queue) /\ i \in 1..Len(queue)
      BY <1>1, <2>1 DEF Unreviewed
    <3>2. PointsOf(queue'[i], day') = PointsOf(queue[i], day)
      BY <2>1, <3>1 DEF PointsOf, Weight
    <3>3. \A j \in Unreviewed(queue) : PointsOf(queue[j], day) \in Nat
      <4>1. Past(queue, day)
        BY <1>1
      <4> QED
        BY <4>1, OpenIs
    <3>4. \A n \in Nat : n <= n
      OBVIOUS
    <3> QED
      BY <3>1, <3>2, <3>3, <3>4
  <2> QED
    BY <1>4, <2>2
<1>7. CASE DayPasses
  <2>1. queue' = queue /\ day' = day + 1 /\ day' \in 0..MaxDay /\ day \in 0..MaxDay
    BY <1>1, <1>7, DayPassesStep DEF Past
  <2>2. ASSUME NEW i \in Unreviewed(queue)
        PROVE  PointsOf(queue[i], day + 1) <= PointsOf(queue[i], day)
    <3>1. queue[i] \in Queued /\ queue[i].at <= day
      BY <1>1 DEF Unreviewed, Past
    <3> QED
      BY <2>1, <3>1, PointsAge
  <2> QED
    BY <1>4, <2>1, <2>2
<1> QED
  BY <1>2, <1>3, <1>5, <1>6, <1>7 DEF QueueNext

\* The model's scores are those of its queue on its day.
LEMMA ScoresAre ==
  /\ PlainScore = Plain(queue) /\ ScoreWithDecay = Decayed(queue, day)
  /\ Undismissed = Unreviewed(queue)
BY DEF PlainScore, Plain, ScoreWithDecay, Decayed, PointsOf, RecencyBoost, Total,
       Undismissed, Unreviewed

-----------------------------------------------------------------------------
(* The most severe rule.                                                   *)

\* What getBreakdown's loop has found after the first m flags.
Finding(best, q, m, none) ==
  best = [n \in 0..m |->
           IF n = 0 THEN <<0, none>>
           ELSE IF n \in Unreviewed(q) /\ SeverityOf[q[n].rule] > best[n - 1][1]
                  THEN <<SeverityOf[q[n].rule], q[n].rule>> ELSE best[n - 1]]

LEMMA FindingExists ==
  ASSUME NEW q, NEW m \in Nat, NEW none
  PROVE  \E best : Finding(best, q, m, none)
<1> DEFINE Bad == {n \in Nat : ~ \E best : Finding(best, q, n, none)}
<1> SUFFICES ASSUME Bad # {} PROVE FALSE
  OBVIOUS
<1>1. PICK n \in Bad : \A k \in Bad : n <= k
  <2> HIDE DEF Bad
  <2> QED
    BY SmallestNat, Bad \subseteq Nat DEF Bad
<1>2. n # 0
  <2> DEFINE f == [k \in 0..0 |-> <<0, none>>]
  <2>1. \A k \in 0..0 : k = 0
    OBVIOUS
  <2>2. Finding(f, q, 0, none)
    BY <2>1 DEF Finding
  <2> HIDE DEF f
  <2> QED
    BY <2>2
<1>3. PICK f : Finding(f, q, n - 1, none)
  BY <1>1, <1>2
<1> DEFINE Next1(k, before) ==
             IF k \in Unreviewed(q) /\ SeverityOf[q[k].rule] > before[1]
               THEN <<SeverityOf[q[k].rule], q[k].rule>> ELSE before
           g == [k \in 0..n |-> IF k < n THEN f[k] ELSE Next1(n, f[n - 1])]
<1>4. Finding(g, q, n, none)
  <2>1. ASSUME NEW k \in 0..n
        PROVE  g[k] = IF k = 0 THEN <<0, none>> ELSE Next1(k, g[k - 1])
    <3>1. CASE k < n
      <4>1. g[k] = f[k] /\ (k # 0 => g[k - 1] = f[k - 1]) /\ k \in 0..(n - 1)
        BY <3>1
      <4>2. f[k] = IF k = 0 THEN <<0, none>> ELSE Next1(k, f[k - 1])
        BY <1>3, <4>1 DEF Finding
      <4> HIDE DEF Next1, g
      <4> QED
        BY <4>1, <4>2
    <3>2. CASE k = n
      <4>1. g[n - 1] = f[n - 1] /\ g[n] = Next1(n, f[n - 1])
        BY <1>2
      <4> HIDE DEF Next1, g
      <4> QED
        BY <1>2, <3>2, <4>1
    <3>3. k < n \/ k = n
      OBVIOUS
    <3> HIDE DEF Next1, g
    <3> QED
      BY <3>1, <3>2, <3>3
  <2>2. g = [k \in 0..n |-> g[k]]
    OBVIOUS
  <2> HIDE DEF g
  <2> QED
    BY <2>1, <2>2 DEF Finding
<1> QED
  BY <1>4


\* The places of O that have its highest severity, if that is above 0.
Worst(O, sev) == {i \in O : sev[i] > 0 /\ \A j \in O : sev[j] <= sev[i]}

\* A loop over 1..m keeps, of the places in O, the highest severity so far and the name
\* of the first place that has it.
Loop(m, O, sev, rule, top, name, none) ==
  /\ top[0] = 0 /\ name[0] = none /\ \A i \in O : sev[i] \in Nat
  /\ \A n \in 1..m : IF n \in O /\ sev[n] > top[n - 1]
                       THEN top[n] = sev[n] /\ name[n] = rule[n]
                       ELSE top[n] = top[n - 1] /\ name[n] = name[n - 1]

NamesFirst(m, O, sev, rule, name, none) ==
  IF Worst(O, sev) = {} THEN name[m] = none
  ELSE \E i \in Worst(O, sev) : name[m] = rule[i] /\ \A j \in Worst(O, sev) : i <= j

\* Such a loop ends with the name of the first of the worst.
LEMMA FirstOfWorst ==
  ASSUME NEW m \in Nat, NEW O \in SUBSET (1..m), NEW sev, NEW rule, NEW top, NEW name,
         NEW none, Loop(m, O, sev, rule, top, name, none)
  PROVE  NamesFirst(m, O, sev, rule, name, none)
<1> DEFINE None(n) == top[n] = 0 /\ name[n] = none /\ \A j \in O : j <= n => sev[j] = 0
           First(n, i) == /\ i <= n /\ sev[i] > 0 /\ top[n] = sev[i] /\ name[n] = rule[i]
                          /\ \A j \in O : j <= n => sev[j] <= sev[i]
                          /\ \A j \in O : j < i => sev[j] < sev[i]
           Good(n) == None(n) \/ \E i \in O : First(n, i)
           Bad == {n \in 0..m : ~ Good(n)}
<1>00. /\ top[0] = 0 /\ name[0] = none /\ \A i \in O : sev[i] \in Nat
       /\ \A n \in 1..m : IF n \in O /\ sev[n] > top[n - 1]
                            THEN top[n] = sev[n] /\ name[n] = rule[n]
                            ELSE top[n] = top[n - 1] /\ name[n] = name[n - 1]
  BY DEF Loop
<1> USE <1>00
<1>0. \A i \in 1..m : i \in Nat /\ 1 <= i /\ i <= m
  OBVIOUS
<1>1. \A i \in O : i \in Nat /\ 1 <= i /\ i <= m
  BY <1>0
<1>2. Bad = {}
  <2> SUFFICES ASSUME Bad # {} PROVE FALSE
    OBVIOUS
  <2>1. PICK n \in Bad : \A k \in Bad : n <= k
    <3>1. Bad \subseteq Nat
      OBVIOUS
    <3> HIDE DEF Bad
    <3> QED
      BY <3>1, SmallestNat
  <2>2. n # 0
    <3>1. \A j \in O : ~ (j <= 0)
      BY <1>1
    <3>2. None(0)
      BY <3>1
    <3> QED
      BY <2>1, <3>2
  <2>3. n \in 1..m /\ n - 1 \in 0..m /\ n - 1 \notin Bad /\ ~ Good(n) /\ n \in Nat
    BY <2>1, <2>2
  <2>4. Good(n - 1)
    BY <2>3
  <2>5. \A j \in O : j <= n => j <= n - 1 \/ j = n
    <3>1. \A j \in Nat : j <= n => j <= n - 1 \/ j = n
      BY <2>3
    <3> QED
      BY <1>1, <3>1
  <2>6. \A j \in O : j < n => j <= n - 1
    <3>1. \A j \in Nat : j < n => j <= n - 1
      BY <2>3
    <3> QED
      BY <1>1, <3>1
  <2>7. IF n \in O /\ sev[n] > top[n - 1]
          THEN top[n] = sev[n] /\ name[n] = rule[n]
          ELSE top[n] = top[n - 1] /\ name[n] = name[n - 1]
    BY <2>3
  <2> HIDE DEF Bad
  <2>8. CASE None(n - 1)
    <3>1. CASE n \in O /\ sev[n] > 0
      <4>1. top[n] = sev[n] /\ name[n] = rule[n] /\ n <= n /\ sev[n] \in Nat
        BY <2>3, <2>7, <2>8, <3>1
      <4>2. /\ \A j \in O : j <= n => sev[j] <= sev[n]
            /\ \A j \in O : j < n => sev[j] < sev[n]
        <5>1. \A j \in O : j <= n - 1 => sev[j] = 0
          BY <2>8
        <5>2. 0 < sev[n] /\ 0 <= sev[n] /\ sev[n] <= sev[n]
          BY <3>1, <4>1
        <5> QED
          BY <2>5, <2>6, <5>1, <5>2
      <4>3. First(n, n)
        BY <3>1, <4>1, <4>2
      <4> QED
        BY <2>3, <3>1, <4>3
    <3>2. CASE ~ (n \in O /\ sev[n] > 0)
      <4>1. top[n] = 0 /\ name[n] = none
        BY <2>7, <2>8, <3>2
      <4>2. n \in O => sev[n] = 0
        <5>1. n \in O => sev[n] \in Nat
          OBVIOUS
        <5> QED
          BY <3>2, <5>1
      <4>3. None(n)
        BY <2>5, <2>8, <4>1, <4>2
      <4> QED
        BY <2>3, <4>3
    <3> QED
      BY <3>1, <3>2
  <2>9. CASE \E i \in O : First(n - 1, i)
    <3>1. PICK i \in O : First(n - 1, i)
      BY <2>9
    <3>2. top[n - 1] = sev[i] /\ i \in Nat /\ i <= n - 1 /\ i <= n /\ sev[i] \in Nat
      BY <1>1, <2>3, <3>1
    <3>3. CASE n \in O /\ sev[n] > sev[i]
      <4>1. top[n] = sev[n] /\ name[n] = rule[n] /\ n <= n /\ sev[n] \in Nat /\ sev[n] > 0
        BY <2>3, <2>7, <3>2, <3>3
      <4>2. \A j \in O : j <= n - 1 => sev[j] < sev[n]
        <5>1. \A j \in O : j <= n - 1 => sev[j] <= sev[i] /\ sev[j] \in Nat
          BY <3>1
        <5>2. \A u \in Nat : u <= sev[i] => u < sev[n]
          BY <3>2, <3>3, <4>1
        <5> QED
          BY <5>1, <5>2
      <4>3. /\ \A j \in O : j <= n => sev[j] <= sev[n]
            /\ \A j \in O : j < n => sev[j] < sev[n]
        BY <2>5, <2>6, <4>1, <4>2
      <4>4. First(n, n)
        BY <4>1, <4>3
      <4> QED
        BY <2>3, <3>3, <4>4
    <3>4. CASE ~ (n \in O /\ sev[n] > sev[i])
      <4>1. top[n] = sev[i] /\ name[n] = rule[i]
        BY <2>7, <3>1, <3>2, <3>4
      <4>2. n \in O => sev[n] <= sev[i]
        <5>1. n \in O => sev[n] \in Nat
          OBVIOUS
        <5> QED
          BY <3>2, <3>4, <5>1
      <4>3. \A j \in O : j <= n => sev[j] <= sev[i]
        BY <2>5, <3>1, <4>2
      <4>4. First(n, i)
        BY <3>1, <3>2, <4>1, <4>3
      <4> QED
        BY <2>3, <4>4
    <3> QED
      BY <3>3, <3>4
  <2> QED
    BY <2>4, <2>8, <2>9
<1>3. Good(m)
  <2>1. m \in 0..m
    OBVIOUS
  <2> QED
    BY <1>2, <2>1
<1> HIDE DEF Bad
<1> DEFINE worst == Worst(O, sev)
<1>4. CASE None(m)
  <2>1. worst = {}
    <3>1. \A j \in O : sev[j] = 0
      BY <1>1, <1>4
    <3>2. ASSUME NEW i \in worst PROVE FALSE
      <4>1. i \in O /\ sev[i] > 0
        BY DEF Worst
      <4>2. sev[i] = 0
        BY <3>1, <4>1
      <4> QED
        BY <4>1, <4>2
    <3> HIDE DEF worst
    <3> QED
      BY <3>2
  <2> QED
    BY <1>4, <2>1 DEF NamesFirst
<1>5. CASE \E i \in O : First(m, i)
  <2>1. PICK i \in O : First(m, i)
    BY <1>5
  <2>2. i \in worst /\ name[m] = rule[i]
    BY <1>1, <2>1 DEF Worst
  <2>3. ASSUME NEW j \in worst PROVE i <= j
    <3>1. j \in O /\ sev[i] <= sev[j] /\ i \in Nat /\ j \in Nat /\ sev[i] \in Nat
          /\ sev[j] \in Nat
      BY <1>1, <2>1 DEF Worst
    <3>2. j < i => sev[j] < sev[i]
      BY <2>1, <3>1
    <3> QED
      BY <3>1, <3>2
  <2> QED
    BY <2>2, <2>3 DEF NamesFirst
<1> QED
  BY <1>3, <1>4, <1>5

\* The loop in FirstOfWorst's terms.
LEMMA FindingIs ==
  ASSUME NEW q, NEW d, Past(q, d), NEW none, NEW best, Finding(best, q, Len(q), none)
  PROVE  LET severity(i) == SeverityOf[q[i].rule]
             worst == {i \in Unreviewed(q) : severity(i) > 0 /\
                         \A j \in Unreviewed(q) : severity(j) <= severity(i)}
         IN  IF worst = {} THEN best[Len(q)][2] = none
             ELSE \E i \in worst : /\ best[Len(q)][2] = q[i].rule
                                   /\ \A j \in worst : i <= j
<1> DEFINE m == Len(q)
           O == Unreviewed(q)
           sev == [i \in 1..m |-> SeverityOf[q[i].rule]]
           rule == [i \in 1..m |-> q[i].rule]
           top == [i \in 0..m |-> best[i][1]]
           name == [i \in 0..m |-> best[i][2]]
<1>1. m \in Nat /\ O \subseteq 1..m /\ \A i \in O : q[i] \in Queued
  BY OpenIs
<1>2. \A i \in O : sev[i] \in Nat /\ sev[i] = SeverityOf[q[i].rule] /\ rule[i] = q[i].rule
  <2>1. SeverityOf \in [ScanRules -> 0..4]
    BY QueueAssumption
  <2>2. \A i \in O : SeverityOf[q[i].rule] \in 0..4
    BY <1>1, <2>1, QueuedParts
  <2>3. \A i \in O : sev[i] = SeverityOf[q[i].rule] /\ rule[i] = q[i].rule
    BY <1>1
  <2> HIDE DEF sev, rule
  <2> QED
    BY <2>2, <2>3
<1>3. \A n \in 0..m : best[n] =
         IF n = 0 THEN <<0, none>>
         ELSE IF n \in O /\ SeverityOf[q[n].rule] > best[n - 1][1]
                THEN <<SeverityOf[q[n].rule], q[n].rule>> ELSE best[n - 1]
  BY DEF Finding
<1>4. \A n \in 0..m : top[n] = best[n][1] /\ name[n] = best[n][2]
  OBVIOUS
<1>5. top[0] = 0 /\ name[0] = none
  <2>1. 0 \in 0..m
    BY <1>1
  <2>2. best[0] = <<0, none>>
    BY <1>3, <2>1
  <2> HIDE DEF top, name
  <2> QED
    BY <1>4, <2>1, <2>2, Pairs
<1>6. ASSUME NEW n \in 1..m
      PROVE  IF n \in O /\ sev[n] > top[n - 1]
               THEN top[n] = sev[n] /\ name[n] = rule[n]
               ELSE top[n] = top[n - 1] /\ name[n] = name[n - 1]
  <2>1. n \in 0..m /\ n - 1 \in 0..m /\ n # 0
    BY <1>1
  <2>2. /\ sev[n] = SeverityOf[q[n].rule] /\ rule[n] = q[n].rule
        /\ top[n] = best[n][1] /\ name[n] = best[n][2]
        /\ top[n - 1] = best[n - 1][1] /\ name[n - 1] = best[n - 1][2]
    BY <2>1
  <2>3. best[n] = IF n \in O /\ SeverityOf[q[n].rule] > best[n - 1][1]
                    THEN <<SeverityOf[q[n].rule], q[n].rule>> ELSE best[n - 1]
    BY <1>3, <2>1
  <2> HIDE DEF top, name, sev, rule, O
  <2>4. CASE n \in O /\ SeverityOf[q[n].rule] > best[n - 1][1]
    BY <2>2, <2>3, <2>4, Pairs
  <2>5. CASE ~ (n \in O /\ SeverityOf[q[n].rule] > best[n - 1][1])
    BY <2>2, <2>3, <2>5
  <2> QED
    BY <2>4, <2>5
<1> DEFINE worst == Worst(O, sev)
<1>7. IF worst = {} THEN name[m] = none
      ELSE \E i \in worst : name[m] = rule[i] /\ \A j \in worst : i <= j
  <2> HIDE DEF top, name, sev, rule, O, m
  <2>1. O \in SUBSET (1..m) /\ m \in Nat /\ \A i \in O : sev[i] \in Nat
    BY <1>1, <1>2
  <2>2. \A n \in 1..m : IF n \in O /\ sev[n] > top[n - 1]
                         THEN top[n] = sev[n] /\ name[n] = rule[n]
                         ELSE top[n] = top[n - 1] /\ name[n] = name[n - 1]
    BY <1>6
  <2>3. Loop(m, O, sev, rule, top, name, none)
    BY <1>5, <2>1, <2>2 DEF Loop
  <2>4. NamesFirst(m, O, sev, rule, name, none)
    BY <2>1, <2>3, FirstOfWorst
  <2> QED
    BY <2>4 DEF NamesFirst
<1>8. name[m] = best[m][2]
  BY <1>1, <1>4
<1>9. worst = {i \in O : SeverityOf[q[i].rule] > 0 /\
                 \A j \in O : SeverityOf[q[j].rule] <= SeverityOf[q[i].rule]}
  <2> HIDE DEF sev, rule, O
  <2> QED
    BY <1>2 DEF Worst
<1>10. \A i \in worst : rule[i] = q[i].rule
  BY <1>2 DEF Worst
<1> HIDE DEF name, rule, sev, top, worst
<1> QED
  BY <1>7, <1>8, <1>9, <1>10

LEMMA PastQueue == QueueInv => Past(queue, day)
BY DEF QueueInv, Past

LEMMA ScoreIsSound == QueueInv => ScoreIsBounded
<1> SUFFICES ASSUME QueueInv PROVE ScoreIsBounded
  OBVIOUS
<1>1. Past(queue, day) /\ Len(queue) \in Nat
  BY PastQueue, OpenIs
<1>2. PlainScore <= 10 * ScoreWithDecay /\ 2 * ScoreWithDecay <= 3 * PlainScore
  BY <1>1, ScoresAreBounded, ScoresAre
<1> DEFINE best == CHOOSE b : Finding(b, queue, Len(queue), "")
<1>3. Finding(best, queue, Len(queue), "")
  <2>1. \E b : Finding(b, queue, Len(queue), "")
    BY <1>1, FindingExists
  <2> QED
    BY <2>1, Zenon
<1>4. HighestSeverityRule = best[Len(queue)][2]
  BY Zenon DEF HighestSeverityRule, Finding, Undismissed, Unreviewed
<1> HIDE DEF best
<1>5. LET severity(i) == SeverityOf[queue[i].rule]
          worst == {i \in Unreviewed(queue) : severity(i) > 0 /\
                      \A j \in Unreviewed(queue) : severity(j) <= severity(i)}
      IN  IF worst = {} THEN best[Len(queue)][2] = ""
          ELSE \E i \in worst : /\ best[Len(queue)][2] = queue[i].rule
                                /\ \A j \in worst : i <= j
  BY <1>1, <1>3, FindingIs, Zenon
<1> QED
  BY <1>2, <1>4, <1>5, ScoresAre, Zenon DEF ScoreIsBounded

\* For any players, rules, severities and decay: every variable of the queue keeps its type.
THEOREM QueueTypesKept == QueueSpec => []QueueTypeOK
  BY QueueInitial, QueueStep, QueueTypes, PTL DEF QueueSpec

LEMMA NextScoreIs == ScoreWithDecay' = Decayed(queue', day')
BY DEF ScoreWithDecay, Decayed, PointsOf, RecencyBoost, Total, Undismissed, Unreviewed

\* Without a new flag neither the score nor what it recommends goes up.
LEMMA ScoreActionStep ==
  QueueInv /\ [QueueNext]_queueVars =>
    [announced' = announced => /\ ScoreWithDecay' <= ScoreWithDecay
                               /\ Recommended(ScoreWithDecay') <= Recommended(ScoreWithDecay)]_queueVars
<1> SUFFICES ASSUME QueueInv, QueueNext, announced' = announced
             PROVE  /\ ScoreWithDecay' <= ScoreWithDecay
                    /\ Recommended(ScoreWithDecay') <= Recommended(ScoreWithDecay)
  OBVIOUS
<1>1. QueueInv'
  BY QueueStep
<1>2. Past(queue, day) /\ Past(queue', day')
  BY <1>1, PastQueue DEF QueueInv, Past
<1>3. Decayed(queue, day) \in Nat /\ Decayed(queue', day') \in Nat
  BY <1>2, ScoresAreBounded
<1>4. Decayed(queue', day') <= Decayed(queue, day)
  BY ScoreStep
<1>5. Recommended(Decayed(queue', day')) <= Recommended(Decayed(queue, day))
  BY <1>3, <1>4, RecommendedShrinks
<1> QED
  BY <1>4, <1>5, ScoresAre, NextScoreIs

\* For any players, rules, severities and decay: flags leave in the order of their
\* announcement, the score stays between a tenth and one and a half times the plain one,
\* the rule reported is the first of the most severe, and a player's standing only gets
\* worse by a new flag.
THEOREM QueueIsKept == QueueSpec => QueueKept
<1>1. QueueSpec => []QueueInv
  BY QueueInitial, QueueStep, PTL DEF QueueSpec
<1>2. QueueInv => TakenInOrder /\ ScoreIsBounded
  BY OrderIsKept, ScoreIsSound
<1>3. QueueInv /\ [QueueNext]_queueVars =>
        [announced' = announced =>
           /\ ScoreWithDecay' <= ScoreWithDecay
           /\ Recommended(ScoreWithDecay') <= Recommended(ScoreWithDecay)]_queueVars
  BY ScoreActionStep
<1> QED
  BY <1>1, <1>2, <1>3, PTL DEF QueueSpec, QueueKept, ScoreOnlyRisesByFlags

-----------------------------------------------------------------------------
(* The composition.                                                        *)

\* Each component's variables change only by its own steps.
LEMMA ComponentsStep ==
  [Next]_<<focus, othersVars>> =>
    /\ [SettingsNext]_settingsVars /\ [RefreshNext]_refreshVars /\ [ScanNext]_scanVars
    /\ [ConsoleNext]_consoleVars /\ [PanelNext]_panelVars /\ [MapNext]_mapVars
    /\ [ProfilesNext]_profilesVars /\ [QueueNext]_queueVars /\ [NoticesNext]_noticesVars
<1> SUFFICES ASSUME [Next]_<<focus, othersVars>>
             PROVE  /\ [SettingsNext]_settingsVars /\ [RefreshNext]_refreshVars
                    /\ [ScanNext]_scanVars /\ [ConsoleNext]_consoleVars
                    /\ [PanelNext]_panelVars /\ [MapNext]_mapVars
                    /\ [ProfilesNext]_profilesVars /\ [QueueNext]_queueVars
                    /\ [NoticesNext]_noticesVars
  OBVIOUS
<1>1. CASE Settings1
  BY <1>1, Zenon DEF Settings1
<1>2. CASE Refresh1
  BY <1>2, Zenon DEF Refresh1
<1>3. CASE Console1
  BY <1>3, Zenon DEF Console1
<1>4. CASE Panel1
  BY <1>4, Zenon DEF Panel1
<1>5. CASE Map1
  BY <1>5, Zenon DEF Map1
<1>6. CASE Profiles1
  BY <1>6, Zenon DEF Profiles1
<1>7. CASE Queue1
  BY <1>7, Zenon DEF Queue1
<1>8. CASE Notices1
  BY <1>8, Zenon DEF Notices1
<1>9. CASE Whitelist1
  BY <1>9, Zenon DEF Whitelist1
<1>10. CASE Reports1
  BY <1>10, Zenon DEF Reports1
<1>11. CASE UNCHANGED <<focus, othersVars>>
  BY <1>11, Zenon DEF othersVars
<1> QED
  BY <1>1, <1>2, <1>3, <1>4, <1>5, <1>6, <1>7, <1>8, <1>9, <1>10, <1>11 DEF Next

\* Every behaviour of the composition is one of each of its components; of the refresh,
\* whose fairness is assumed only while it runs, as far as its steps go.
THEOREM ComponentsKeepTheirSpecs ==
  Spec => /\ SettingsSpec /\ ConsoleSpec /\ PanelSpec /\ MapSpec
          /\ ProfilesSpec /\ QueueSpec /\ NoticesSpec /\ ScanSpec
          /\ RefreshInit /\ [][RefreshNext]_refreshVars
<1>1. Init => /\ SettingsInit /\ RefreshInit /\ ScanInit /\ ConsoleInit /\ PanelInit
              /\ MapInit /\ ProfilesInit /\ QueueInit /\ NoticesInit
  BY DEF Init
<1> QED
  BY <1>1, ComponentsStep, PTL
  DEF Spec, SettingsSpec, ConsoleSpec, PanelSpec, MapSpec, ProfilesSpec,
      QueueSpec, NoticesSpec, ScanSpec

\* For any parameters: every variable of every component keeps its type.
THEOREM InterfaceTypes == Spec => []InterfaceTypeOK
<1>1. Spec => []RefreshTypeOK
  <2>1. RefreshInv => RefreshTypeOK
    BY DEF RefreshInv
  <2> QED
    BY <2>1, ComponentsKeepTheirSpecs, RefreshInitial, RefreshStepKeeps, PTL
<1>2. SettingsTypeOK /\ RefreshTypeOK /\ ScanTypeOK /\ ConsoleTypeOK /\ PanelTypeOK
      /\ MapTypeOK /\ ProfilesTypeOK /\ QueueTypeOK /\ NoticesTypeOK => InterfaceTypeOK
  BY DEF InterfaceTypeOK
<1> QED
  BY <1>1, <1>2, ComponentsKeepTheirSpecs, SettingsTypes, ScansKeepTypes, ConsoleTypes,
     PanelTypes, MapTypes, ActiveProfileIsListed, QueueTypesKept, NoticesAreBounded, PTL

\* For any parameters: within the composition too, settings, scans, pages and the review
\* queue keep what each promises alone, the panel's dialogs act on the player they name, the map
\* is held where it is taken, what nobody saw is not dropped without a flood, a profile of
\* the list is active but for the two exceptions, and the refresh keeps its history in order.
THEOREM InterfaceKeeps ==
  Spec => /\ SettingsKept /\ ConsoleKept /\ QueueKept /\ []HistoryInOrder
          /\ TrustTakesEffect /\ DismissedIsSettled
          /\ PanelKept /\ PointIsHeld /\ SeenUnlessFlooded /\ []ActiveIsListed
<1>1. RefreshInv => HistoryInOrder
  BY DEF RefreshInv
<1> QED
  BY <1>1, ComponentsKeepTheirSpecs, SettingsAreKept, ConsoleIsKept, QueueIsKept,
     TrustIsKept, DismissalsSettle,
     PanelIsKept, MapIsHeld, NoticesAreSeen, ActiveProfileIsListed, RefreshInitial,
     RefreshStepKeeps, PTL
=============================================================================
