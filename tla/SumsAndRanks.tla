---------------------------- MODULE SumsAndRanks ----------------------------
(***************************************************************************)
(* Sums and ranks over finite sets, for the proofs about totalLiabilities, *)
(* the sums of points_ledger, the pages of GitHub's search and those of    *)
(* the boards.  An induction is carried by a set: of the subsets that      *)
(* break a claim take a smallest one.                                      *)
(***************************************************************************)
EXTENDS Integers, FiniteSets, Functions, FiniteSetTheorems, FunctionTheorems, TLAPS

-----------------------------------------------------------------------------
(* Sums.                                                                   *)

\* The member a fold takes out first.
AnyOf(s) == CHOOSE x \in s : TRUE

\* g is the recursion behind SumFunctionOnSet, on the subsets of S.
Sums(g, f, S) ==
    g = [s \in SUBSET S |-> IF s = {} THEN 0 ELSE f[AnyOf(s)] + g[s \ {AnyOf(s)}]]

\* The one that the definition chooses.
SumsChosen(f, S) == CHOOSE g : Sums(g, f, S)

\* SumFunctionOnSet, of the community modules, is that recursion's value.
LEMMA SumIsChosen ==
    ASSUME NEW f, NEW S
    PROVE  SumFunctionOnSet(f, S) = SumsChosen(f, S)[S]
BY DEF SumFunctionOnSet, FoldFunctionOnSet, MapThenFoldSet, SumsChosen, Sums, AnyOf

\* Induction over finite sets: of the subsets that break a claim there is one
\* none of whose strict subsets does.
LEMMA SmallestSubset ==
    ASSUME NEW S, IsFiniteSet(S), NEW Broken, Broken \subseteq SUBSET S, Broken # {}
    PROVE  \E T \in Broken : /\ IsFiniteSet(T)
                             /\ \A U \in Broken : U \subseteq T => U = T
<1>1. IsWellFoundedOn(StrictSubsetOrdering(S), FiniteSubsetsOf(S))
  BY FS_StrictSubsetOrderingWellFounded
<1>2. FiniteSubsetsOf(S) = SUBSET S
  BY FS_FiniteSubsetsOfFinite
<1>3. PICK T \in Broken : \A U \in Broken : <<U, T>> \notin StrictSubsetOrdering(S)
  BY <1>1, <1>2, WFMin
<1>4. IsFiniteSet(T)
  BY FS_Subset
<1>5. ASSUME NEW U \in Broken, U \subseteq T PROVE U = T
  BY <1>3, <1>5 DEF StrictSubsetOrdering
<1> QED BY <1>4, <1>5

\* What is taken out of a set was in it.
LEMMA AnyOfIsIn == ASSUME NEW s, s # {} PROVE AnyOf(s) \in s
BY DEF AnyOf

\* Two such recursions agree where both are defined.
LEMMA SumsAgree ==
    ASSUME NEW f, NEW S, IsFiniteSet(S), NEW R, S \subseteq R,
           NEW g, Sums(g, f, R), NEW h, Sums(h, f, S)
    PROVE  \A T \in SUBSET S : g[T] = h[T]
<1>1. ASSUME NEW T \in SUBSET S
      PROVE  /\ g[T] = IF T = {} THEN 0 ELSE f[AnyOf(T)] + g[T \ {AnyOf(T)}]
             /\ h[T] = IF T = {} THEN 0 ELSE f[AnyOf(T)] + h[T \ {AnyOf(T)}]
  <2>1. T \in SUBSET R
    OBVIOUS
  <2>2. g[T] = IF T = {} THEN 0 ELSE f[AnyOf(T)] + g[T \ {AnyOf(T)}]
    BY <2>1 DEF Sums
  <2>3. h[T] = IF T = {} THEN 0 ELSE f[AnyOf(T)] + h[T \ {AnyOf(T)}]
    BY DEF Sums
  <2> QED BY <2>2, <2>3
<1> DEFINE Broken == {T \in SUBSET S : g[T] # h[T]}
<1>2. SUFFICES ASSUME Broken # {} PROVE FALSE
  OBVIOUS
<1>3. PICK T \in Broken : \A U \in Broken : U \subseteq T => U = T
  <2>1. Broken \subseteq SUBSET S
    OBVIOUS
  <2> HIDE DEF Broken
  <2> QED BY <1>2, <2>1, SmallestSubset
<1>4. /\ g[T] = IF T = {} THEN 0 ELSE f[AnyOf(T)] + g[T \ {AnyOf(T)}]
      /\ h[T] = IF T = {} THEN 0 ELSE f[AnyOf(T)] + h[T \ {AnyOf(T)}]
  BY <1>1
<1>5. T # {}
  BY <1>4
<1>6. AnyOf(T) \in T
  BY <1>5, AnyOfIsIn
<1>7. T \ {AnyOf(T)} \notin Broken
  BY <1>3, <1>6
<1>8. g[T \ {AnyOf(T)}] = h[T \ {AnyOf(T)}]
  BY <1>7
<1> QED BY <1>4, <1>5, <1>8

\* There is such a recursion on every finite set: the choice is not of nothing.
LEMMA SumsExist ==
    ASSUME NEW f, NEW S, IsFiniteSet(S)
    PROVE  \A T \in SUBSET S : Sums(SumsChosen(f, T), f, T)
<1> DEFINE Broken == {T \in SUBSET S : ~ \E g : Sums(g, f, T)}
<1>1. ASSUME Broken # {} PROVE FALSE
  <2>1. PICK T \in Broken : IsFiniteSet(T) /\ \A U \in Broken : U \subseteq T => U = T
    <3>1. Broken \subseteq SUBSET S
      OBVIOUS
    <3> HIDE DEF Broken
    <3> QED BY <1>1, <3>1, SmallestSubset
  <2>2. ASSUME NEW U \in SUBSET T, U # T PROVE IsFiniteSet(U) /\ Sums(SumsChosen(f, U), f, U)
    <3>1. \E g : Sums(g, f, U)
      BY <2>1, <2>2
    <3>2. IsFiniteSet(U)
      BY <2>1, FS_Subset
    <3> QED BY <3>1, <3>2 DEF SumsChosen
  <2> DEFINE value(U) == SumsChosen(f, U)[U]
             h == [s \in SUBSET T |-> IF s = {} THEN 0
                                      ELSE f[AnyOf(s)] + value(s \ {AnyOf(s)})]
  <2>3. ASSUME NEW U \in SUBSET T, U # T PROVE h[U] = value(U)
    <3>1. CASE U = {}
      BY <2>2, <2>3, <3>1 DEF Sums
    <3>2. CASE U # {}
      <4> DEFINE V == U \ {AnyOf(U)}
      <4>1. AnyOf(U) \in U
        BY <3>2, AnyOfIsIn
      <4>2. V \in SUBSET T /\ V # T /\ V \subseteq U
        BY <4>1
      <4>3. /\ IsFiniteSet(V) /\ Sums(SumsChosen(f, V), f, V)
            /\ Sums(SumsChosen(f, U), f, U)
        BY <2>2, <2>3, <4>2
      <4> HIDE DEF V
      <4>4. SumsChosen(f, U)[V] = SumsChosen(f, V)[V]
        BY <4>2, <4>3, SumsAgree
      <4>5. SumsChosen(f, U)[U] = f[AnyOf(U)] + SumsChosen(f, U)[V]
        BY <3>2, <4>3 DEF Sums, V
      <4>6. h[U] = f[AnyOf(U)] + value(V)
        BY <3>2 DEF V
      <4> QED BY <4>4, <4>5, <4>6
    <3> QED BY <3>1, <3>2
  <2>4. ASSUME NEW s \in SUBSET T, s # {} PROVE value(s \ {AnyOf(s)}) = h[s \ {AnyOf(s)}]
    <3>1. AnyOf(s) \in s
      BY <2>4, AnyOfIsIn
    <3> QED BY <2>3, <3>1
  <2> HIDE DEF value
  <2>5. h = [s \in SUBSET T |-> IF s = {} THEN 0 ELSE f[AnyOf(s)] + h[s \ {AnyOf(s)}]]
    BY <2>4
  <2>6. Sums(h, f, T)
    BY <2>5 DEF Sums
  <2> QED BY <2>1, <2>6
<1>2. ASSUME NEW T \in SUBSET S PROVE Sums(SumsChosen(f, T), f, T)
  <2>1. \E g : Sums(g, f, T)
    BY <1>1
  <2> QED BY <2>1 DEF SumsChosen
<1> QED BY <1>2

\* So the sum follows its recursion equation.
LEMMA SumUnfolds ==
    ASSUME NEW f, NEW S, IsFiniteSet(S)
    PROVE  SumFunctionOnSet(f, S) =
               IF S = {} THEN 0 ELSE f[AnyOf(S)] + SumFunctionOnSet(f, S \ {AnyOf(S)})
<1> DEFINE V == S \ {AnyOf(S)}
<1>1. IsFiniteSet(V) /\ V \in SUBSET S
  BY FS_Subset
<1>2. Sums(SumsChosen(f, S), f, S) /\ Sums(SumsChosen(f, V), f, V)
  BY <1>1, SumsExist
<1> HIDE DEF V
<1>3. SumsChosen(f, S)[V] = SumsChosen(f, V)[V]
  BY <1>1, <1>2, SumsAgree
<1>4. SumsChosen(f, S)[S] = IF S = {} THEN 0 ELSE f[AnyOf(S)] + SumsChosen(f, S)[V]
  <2>1. S \in SUBSET S
    OBVIOUS
  <2>2. Sums(SumsChosen(f, S), f, S)
    BY <1>2
  <2>3. SumsChosen(f, S)[S] = IF S = {} THEN 0 ELSE f[AnyOf(S)] + SumsChosen(f, S)[S \ {AnyOf(S)}]
    BY <2>1, <2>2 DEF Sums
  <2> QED BY <2>3 DEF V
<1> QED BY <1>3, <1>4, SumIsChosen DEF V

\* Nothing sums to zero.
LEMMA SumOfNone == ASSUME NEW f PROVE SumFunctionOnSet(f, {}) = 0
BY SumUnfolds, FS_EmptySet

\* A sum of integers is an integer.
LEMMA SumIsInt ==
    ASSUME NEW f, NEW S, IsFiniteSet(S), \A x \in S : f[x] \in Int
    PROVE  SumFunctionOnSet(f, S) \in Int
<1> DEFINE Broken == {T \in SUBSET S : SumFunctionOnSet(f, T) \notin Int}
<1>1. SUFFICES ASSUME Broken # {} PROVE FALSE
  OBVIOUS
<1>2. PICK T \in Broken : IsFiniteSet(T) /\ \A U \in Broken : U \subseteq T => U = T
  <2>1. Broken \subseteq SUBSET S
    OBVIOUS
  <2> HIDE DEF Broken
  <2> QED BY <1>1, <2>1, SmallestSubset
<1>3. T # {}
  BY SumOfNone
<1>4. AnyOf(T) \in T
  BY <1>3, AnyOfIsIn
<1>5. SumFunctionOnSet(f, T \ {AnyOf(T)}) \in Int
  BY <1>2, <1>4
<1>6. SumFunctionOnSet(f, T) = f[AnyOf(T)] + SumFunctionOnSet(f, T \ {AnyOf(T)})
  BY <1>2, <1>3, SumUnfolds
<1>7. f[AnyOf(T)] \in Int
  BY <1>4
<1> QED BY <1>5, <1>6, <1>7

\* Any member may be taken out first: the sum does not depend on an order.
LEMMA SumTakesOut ==
    ASSUME NEW f, NEW S, IsFiniteSet(S), \A x \in S : f[x] \in Int, NEW m \in S
    PROVE  SumFunctionOnSet(f, S) = f[m] + SumFunctionOnSet(f, S \ {m})
<1> DEFINE Claim(T, x) == SumFunctionOnSet(f, T) = f[x] + SumFunctionOnSet(f, T \ {x})
           Broken == {T \in SUBSET S : \E x \in T : ~ Claim(T, x)}
<1>1. SUFFICES ASSUME Broken # {} PROVE FALSE
  <2>1. S \notin Broken
    BY <1>1
  <2> QED BY <2>1
<1>2. PICK T \in Broken : IsFiniteSet(T) /\ \A U \in Broken : U \subseteq T => U = T
  <2>1. Broken \subseteq SUBSET S
    OBVIOUS
  <2> HIDE DEF Broken
  <2> QED BY <1>1, <2>1, SmallestSubset
<1>3. PICK x \in T : ~ Claim(T, x)
  OBVIOUS
<1> DEFINE o == AnyOf(T)
<1>4. o \in T
  BY AnyOfIsIn
<1>5. SumFunctionOnSet(f, T) = f[o] + SumFunctionOnSet(f, T \ {o})
  BY <1>2, <1>4, SumUnfolds
<1> HIDE DEF o
<1>6. o # x
  BY <1>3, <1>5
<1>7. SumFunctionOnSet(f, T \ {o}) = f[x] + SumFunctionOnSet(f, (T \ {o}) \ {x})
  <2>1. T \ {o} \notin Broken /\ T \ {o} \in SUBSET S /\ x \in T \ {o}
    BY <1>2, <1>4, <1>6
  <2> QED BY <2>1
<1>8. SumFunctionOnSet(f, T \ {x}) = f[o] + SumFunctionOnSet(f, (T \ {x}) \ {o})
  <2>1. T \ {x} \notin Broken /\ T \ {x} \in SUBSET S /\ o \in T \ {x}
    BY <1>2, <1>4, <1>6
  <2> QED BY <2>1
<1>9. (T \ {x}) \ {o} = (T \ {o}) \ {x}
  OBVIOUS
<1>10. /\ f[x] \in Int /\ f[o] \in Int
       /\ SumFunctionOnSet(f, (T \ {o}) \ {x}) \in Int
  <2>1. IsFiniteSet((T \ {o}) \ {x}) /\ \A y \in (T \ {o}) \ {x} : f[y] \in Int
    BY <1>2, FS_Subset
  <2> QED BY <1>4, <2>1, SumIsInt
<1>11. SumFunctionOnSet(f, T) # f[x] + SumFunctionOnSet(f, T \ {x})
  BY <1>3
<1> QED BY <1>5, <1>7, <1>8, <1>9, <1>10, <1>11

\* One member more.
LEMMA SumAdds ==
    ASSUME NEW f, NEW S, IsFiniteSet(S), NEW m, m \notin S, \A x \in S \cup {m} : f[x] \in Int
    PROVE  SumFunctionOnSet(f, S \cup {m}) = f[m] + SumFunctionOnSet(f, S)
<1>1. IsFiniteSet(S \cup {m}) /\ (S \cup {m}) \ {m} = S
  BY FS_AddElement
<1> QED BY <1>1, SumTakesOut

\* What functions are off the set does not matter.
LEMMA SumSame ==
    ASSUME NEW f, NEW g, NEW S, IsFiniteSet(S), \A x \in S : f[x] = g[x]
    PROVE  SumFunctionOnSet(f, S) = SumFunctionOnSet(g, S)
<1> DEFINE Broken == {T \in SUBSET S : SumFunctionOnSet(f, T) # SumFunctionOnSet(g, T)}
<1>1. SUFFICES ASSUME Broken # {} PROVE FALSE
  <2>1. S \notin Broken
    BY <1>1
  <2> QED BY <2>1
<1>2. PICK T \in Broken : IsFiniteSet(T) /\ \A U \in Broken : U \subseteq T => U = T
  <2>1. Broken \subseteq SUBSET S
    OBVIOUS
  <2> HIDE DEF Broken
  <2> QED BY <1>1, <2>1, SmallestSubset
<1>3. T # {}
  BY SumOfNone
<1>4. AnyOf(T) \in T
  BY <1>3, AnyOfIsIn
<1>5. SumFunctionOnSet(f, T \ {AnyOf(T)}) = SumFunctionOnSet(g, T \ {AnyOf(T)})
  BY <1>2, <1>4
<1> QED BY <1>2, <1>3, <1>4, <1>5, SumUnfolds

\* A sum of naturals is a natural.
LEMMA SumIsNat ==
    ASSUME NEW f, NEW S, IsFiniteSet(S), \A x \in S : f[x] \in Nat
    PROVE  SumFunctionOnSet(f, S) \in Nat
<1> DEFINE Broken == {T \in SUBSET S : SumFunctionOnSet(f, T) \notin Nat}
<1>1. SUFFICES ASSUME Broken # {} PROVE FALSE
  OBVIOUS
<1>2. PICK T \in Broken : IsFiniteSet(T) /\ \A U \in Broken : U \subseteq T => U = T
  <2>1. Broken \subseteq SUBSET S
    OBVIOUS
  <2> HIDE DEF Broken
  <2> QED BY <1>1, <2>1, SmallestSubset
<1>3. T # {}
  BY SumOfNone
<1>4. AnyOf(T) \in T
  BY <1>3, AnyOfIsIn
<1>5. SumFunctionOnSet(f, T \ {AnyOf(T)}) \in Nat
  BY <1>2, <1>4
<1>6. SumFunctionOnSet(f, T) = f[AnyOf(T)] + SumFunctionOnSet(f, T \ {AnyOf(T)})
  BY <1>2, <1>3, SumUnfolds
<1>7. f[AnyOf(T)] \in Nat
  BY <1>4
<1> QED BY <1>5, <1>6, <1>7

\* No member is more than the sum of naturals it is in.
LEMMA MemberWithin ==
    ASSUME NEW f, NEW S, IsFiniteSet(S), \A x \in S : f[x] \in Nat, NEW m \in S
    PROVE  SumFunctionOnSet(f, S) >= f[m]
<1>1. SumFunctionOnSet(f, S) = f[m] + SumFunctionOnSet(f, S \ {m})
  BY SumTakesOut
<1>2. SumFunctionOnSet(f, S \ {m}) \in Nat
  BY FS_Subset, SumIsNat
<1> QED BY <1>1, <1>2

\* Members of V take back what members of A gave: A and V together sum to what
\* each member of A gave, less so much for each that took it back.
LEMMA TakenBack ==
    ASSUME NEW A, IsFiniteSet(A), NEW V, IsFiniteSet(V), A \cap V = {},
           NEW f, \A x \in A \cup V : f[x] \in Int,
           NEW of \in [V -> A], \A v \in V : f[v] + f[of[v]] = 0
    PROVE  SumFunctionOnSet(f, A \cup V)
               = SumFunctionOnSet([a \in A |-> f[a] * (1 - Cardinality({v \in V : of[v] = a}))], A)
<1> DEFINE takers(W, a) == {v \in W : of[v] = a}
           left(W) == [a \in A |-> f[a] * (1 - Cardinality(takers(W, a)))]
           claim(W) == SumFunctionOnSet(f, A \cup W) = SumFunctionOnSet(left(W), A)
           Broken == {W \in SUBSET V : ~ claim(W)}
<1>1. SUFFICES ASSUME Broken # {} PROVE FALSE
  <2>1. V \notin Broken
    BY <1>1
  <2> QED BY <2>1
<1>2. PICK W \in Broken : IsFiniteSet(W) /\ \A U \in Broken : U \subseteq W => U = W
  <2>1. Broken \subseteq SUBSET V
    OBVIOUS
  <2> HIDE DEF Broken
  <2> QED BY <1>1, <2>1, SmallestSubset
<1>3. W \in SUBSET V /\ ~ claim(W)
  OBVIOUS
<1>4. ASSUME NEW U \in SUBSET V, NEW a \in A
      PROVE  /\ IsFiniteSet(takers(U, a)) /\ Cardinality(takers(U, a)) \in Nat
             /\ left(U)[a] = f[a] * (1 - Cardinality(takers(U, a)))
             /\ left(U)[a] \in Int
  <2>1. IsFiniteSet(takers(U, a)) /\ Cardinality(takers(U, a)) \in Nat
    BY FS_Subset, FS_CardinalityType
  <2>2. left(U)[a] = f[a] * (1 - Cardinality(takers(U, a)))
    OBVIOUS
  <2>3. PICK c \in Nat : c = Cardinality(takers(U, a))
    BY <2>1
  <2>4. PICK i \in Int : i = f[a]
    OBVIOUS
  <2>5. i * (1 - c) \in Int
    OBVIOUS
  <2> HIDE DEF takers, left
  <2> QED BY <2>1, <2>2, <2>3, <2>4, <2>5
<1>5. CASE W = {}
  <2>1. \A a \in A : takers({}, a) = {}
    OBVIOUS
  <2>2. \A a \in A : left({})[a] = f[a] * (1 - Cardinality(takers({}, a)))
    OBVIOUS
  <2> HIDE DEF takers, left
  <2>3. ASSUME NEW a \in A PROVE left({})[a] = f[a]
    <3>1. Cardinality(takers({}, a)) = 0
      BY <2>1, FS_EmptySet
    <3>2. f[a] \in Int /\ f[a] * (1 - 0) = f[a]
      OBVIOUS
    <3> QED BY <2>2, <3>1, <3>2
  <2>4. SumFunctionOnSet(f, A) = SumFunctionOnSet(left({}), A)
    BY <2>3, SumSame
  <2>5. A \cup W = A
    BY <1>5
  <2> QED BY <1>3, <1>5, <2>4, <2>5
<1>6. CASE W # {}
  <2>1. PICK m \in W : TRUE
    BY <1>6
  <2> DEFINE U == W \ {m}
             t == of[m]
  <2>2. U \in SUBSET V /\ m \in V /\ t \in A /\ m \notin A \cup U /\ A \cup W = (A \cup U) \cup {m}
    BY <1>3, <2>1
  <2>3. claim(U)
    <3>1. U \notin Broken
      BY <1>2, <2>1
    <3> QED BY <2>2, <3>1
  <2>4. SumFunctionOnSet(f, A \cup W) = f[m] + SumFunctionOnSet(f, A \cup U)
    <3>1. IsFiniteSet(A \cup U) /\ \A x \in (A \cup U) \cup {m} : f[x] \in Int
      BY <2>2, FS_Subset, FS_Union
    <3> QED BY <2>2, <3>1, SumAdds
  <2>5. ASSUME NEW a \in A, a # t PROVE takers(W, a) = takers(U, a)
    BY <2>5
  <2>6. takers(W, t) = takers(U, t) \cup {m} /\ m \notin takers(U, t)
    BY <2>1
  <2> HIDE DEF U, t, takers
  <2>7. Cardinality(takers(W, t)) = Cardinality(takers(U, t)) + 1
    BY <1>4, <2>2, <2>6, FS_AddElement
  <2>8. \A a \in A \ {t} : left(W)[a] = left(U)[a]
    BY <2>5
  <2>9. left(W)[t] = left(U)[t] - f[t] /\ left(U)[t] \in Int /\ f[t] \in Int
    <3>1. PICK c \in Nat : c = Cardinality(takers(U, t))
      BY <1>4, <2>2
    <3>2. PICK i \in Int : i = f[t]
      BY <2>2
    <3>3. left(W)[t] = i * (1 - (c + 1)) /\ left(U)[t] = i * (1 - c)
      BY <2>2, <2>7, <3>1, <3>2
    <3>4. i * (1 - (c + 1)) = i * (1 - c) - i /\ i * (1 - c) \in Int
      OBVIOUS
    <3> HIDE DEF left
    <3> QED BY <3>2, <3>3, <3>4
  <2>10. (\A a \in A : left(W)[a] \in Int) /\ (\A a \in A : left(U)[a] \in Int)
    BY <1>3, <1>4, <2>2
  <2> HIDE DEF left
  <2>11. PICK g, h : g = left(U) /\ h = left(W)
    OBVIOUS
  <2>12. /\ \A a \in A : g[a] \in Int /\ h[a] \in Int
         /\ \A a \in A \ {t} : h[a] = g[a]
         /\ h[t] = g[t] - f[t] /\ f[t] \in Int /\ f[m] \in Int /\ f[m] + f[t] = 0
    BY <2>2, <2>8, <2>9, <2>10, <2>11 DEF t
  <2>13. /\ SumFunctionOnSet(h, A) = h[t] + SumFunctionOnSet(h, A \ {t})
         /\ SumFunctionOnSet(g, A) = g[t] + SumFunctionOnSet(g, A \ {t})
    BY <2>2, <2>12, SumTakesOut
  <2>14. SumFunctionOnSet(h, A \ {t}) = SumFunctionOnSet(g, A \ {t})
    BY <2>12, FS_Subset, SumSame
  <2>15. SumFunctionOnSet(g, A \ {t}) \in Int /\ g[t] \in Int
    <3>1. IsFiniteSet(A \ {t}) /\ \A a \in A \ {t} : g[a] \in Int
      BY <2>12, FS_Subset
    <3> QED BY <2>2, <2>12, <3>1, SumIsInt
  <2>16. SumFunctionOnSet(h, A) = f[m] + SumFunctionOnSet(g, A)
    <3>1. PICK x \in Int : x = SumFunctionOnSet(g, A \ {t})
      BY <2>15
    <3>2. PICK y \in Int, z \in Int : y = g[t] /\ z = f[t]
      BY <2>12, <2>15
    <3>3. f[m] = -z
      BY <2>12, <3>2
    <3>4. SumFunctionOnSet(h, A) = (y - z) + x /\ SumFunctionOnSet(g, A) = y + x
      BY <2>12, <2>13, <2>14, <3>1, <3>2
    <3> QED BY <3>3, <3>4
  <2>17. SumFunctionOnSet(f, A \cup W) = SumFunctionOnSet(h, A)
    BY <2>3, <2>4, <2>11, <2>16
  <2>18. claim(W)
    BY <2>11, <2>17
  <2> QED BY <1>3, <2>18
<1> QED BY <1>5, <1>6

-----------------------------------------------------------------------------
(* Ranks.  The rank of a member is the size of the set it heads: U[p] is p *)
(* and whoever comes before it, one of two such sets within the other.     *)

Heads(S, U) ==
    /\ U \in [S -> SUBSET S]
    /\ \A p \in S : p \in U[p]
    /\ \A p, q \in S : p # q => U[p] # U[q]
    /\ \A p, q \in S : U[p] \subseteq U[q] \/ U[q] \subseteq U[p]

Ranks(S, U) == [p \in S |-> Cardinality(U[p])]

\* The ranks of n members are 1 to n, each the rank of one of them.
LEMMA RanksAreAll ==
    ASSUME NEW S, IsFiniteSet(S), NEW U, Heads(S, U)
    PROVE  Ranks(S, U) \in Bijection(S, 1..Cardinality(S))
<1> DEFINE n == Cardinality(S)
           rank == Ranks(S, U)
<1>1. n \in Nat /\ IsFiniteSet(1..n) /\ Cardinality(1..n) = n
  BY FS_CardinalityType, FS_Interval
<1>2. ASSUME NEW p \in S PROVE /\ IsFiniteSet(U[p])
                               /\ rank[p] = Cardinality(U[p]) /\ rank[p] \in 1..n
  <2>1. U[p] \in SUBSET S /\ p \in U[p]
    BY DEF Heads
  <2>2. IsFiniteSet(U[p]) /\ Cardinality(U[p]) <= n
    BY <2>1, FS_Subset
  <2>3. Cardinality(U[p]) \in Nat /\ Cardinality(U[p]) # 0
    BY <2>1, <2>2, FS_CardinalityType, FS_EmptySet
  <2>4. rank[p] = Cardinality(U[p])
    BY DEF Ranks
  <2> QED BY <1>1, <2>2, <2>3, <2>4
<1>3. ASSUME NEW p \in S, NEW q \in S, p # q PROVE rank[p] # rank[q]
  <2>1. U[p] # U[q] /\ (U[p] \in SUBSET U[q] \/ U[q] \in SUBSET U[p])
    BY <1>3 DEF Heads
  <2>2. Cardinality(U[p]) # Cardinality(U[q])
    BY <1>2, <2>1, FS_Subset
  <2> QED BY <1>2, <2>2
<1>4. rank \in [S -> 1..n]
  <2>1. rank = [p \in S |-> rank[p]]
    BY DEF Ranks
  <2> HIDE DEF rank
  <2> QED BY <1>2, <2>1
<1> HIDE DEF rank, n
<1>5. rank \in Injection(S, 1..n)
  BY <1>3, <1>4, Fun_IsInj
<1>6. rank \in Surjection(S, 1..n)
  BY <1>1, <1>5, FS_Injection DEF n
<1> QED BY <1>5, <1>6 DEF Bijection, rank, n

\* Of a page of ranks, a..b within 1..n, nobody is missing.
LEMMA PageIsFull ==
    ASSUME NEW S, IsFiniteSet(S), NEW U, Heads(S, U),
           NEW a \in Nat, NEW b \in Nat, a <= b, b <= Cardinality(S)
    PROVE  /\ IsFiniteSet({p \in S : Cardinality(U[p]) > a /\ Cardinality(U[p]) <= b})
           /\ Cardinality({p \in S : Cardinality(U[p]) > a /\ Cardinality(U[p]) <= b}) = b - a
<1> DEFINE n == Cardinality(S)
           rank == Ranks(S, U)
           page == {p \in S : Cardinality(U[p]) > a /\ Cardinality(U[p]) <= b}
           part == [p \in page |-> rank[p]]
<1>1. n \in Nat
  BY FS_CardinalityType
<1>2. /\ rank \in [S -> 1..n]
      /\ \A p, q \in S : rank[p] = rank[q] => p = q
      /\ \A k \in 1..n : \E p \in S : rank[p] = k
  <2>1. rank \in Bijection(S, 1..n)
    BY RanksAreAll
  <2> HIDE DEF rank, n
  <2>2. rank \in Injection(S, 1..n) /\ rank \in Surjection(S, 1..n)
    BY <2>1, Fun_BijectionProperties
  <2>3. rank \in [S -> 1..n] /\ \A p, q \in S : rank[p] = rank[q] => p = q
    BY <2>2, Fun_InjectionProperties
  <2>4. \A k \in 1..n : \E p \in S : rank[p] = k
    BY <2>2, Fun_SurjectionProperties
  <2> QED BY <2>3, <2>4
<1>3. \A p \in S : rank[p] = Cardinality(U[p])
  BY DEF Ranks
<1> HIDE DEF rank
<1>4. \A p \in S : p \in page <=> rank[p] \in (a + 1)..b
  BY <1>1, <1>2, <1>3
<1>5. page \subseteq S
  OBVIOUS
<1> HIDE DEF page, n
<1>6. part \in [page -> (a + 1)..b]
  BY <1>4, <1>5
<1>7. \A p, q \in page : part[p] = part[q] => p = q
  BY <1>2, <1>5
<1>8. ASSUME NEW k \in (a + 1)..b PROVE \E p \in page : part[p] = k
  <2>1. k \in 1..n
    BY <1>1 DEF n
  <2>2. PICK p \in S : rank[p] = k
    BY <1>2, <2>1
  <2> QED BY <1>4, <2>2
<1> HIDE DEF part
<1>9. part \in Bijection(page, (a + 1)..b)
  BY <1>6, <1>7, <1>8, Fun_IsBij
<1>10. ExistsBijection((a + 1)..b, page)
  BY <1>9, Fun_ExistsBijSymmetric DEF ExistsBijection
<1>11. IsFiniteSet((a + 1)..b) /\ Cardinality((a + 1)..b) = b - a
  <2>1. a + 1 \in Int /\ b \in Int
    OBVIOUS
  <2>2. /\ IsFiniteSet((a + 1)..b)
        /\ Cardinality((a + 1)..b) = IF a + 1 > b THEN 0 ELSE b - (a + 1) + 1
    BY <2>1, FS_Interval
  <2>3. (IF a + 1 > b THEN 0 ELSE b - (a + 1) + 1) = b - a
    OBVIOUS
  <2> QED BY <2>2, <2>3
<1>12. IsFiniteSet(page) /\ Cardinality(page) = b - a
  BY <1>10, <1>11, FS_Bijection
<1> QED BY <1>12 DEF page

-----------------------------------------------------------------------------
(* The greatest of finitely many.                                          *)

\* Of finitely many naturals one is the greatest.
LEMMA GreatestIn ==
    ASSUME NEW S, IsFiniteSet(S), S # {}, NEW f, \A x \in S : f[x] \in Nat
    PROVE  \E x \in S : \A y \in S : f[y] <= f[x]
<1> DEFINE Broken == {T \in SUBSET S : T # {} /\ ~ \E x \in T : \A y \in T : f[y] <= f[x]}
<1>1. SUFFICES ASSUME Broken # {} PROVE FALSE
  <2>1. S \notin Broken
    BY <1>1
  <2> QED BY <2>1
<1>2. PICK T \in Broken : \A U \in Broken : U \subseteq T => U = T
  <2>1. Broken \subseteq SUBSET S
    OBVIOUS
  <2> HIDE DEF Broken
  <2> QED BY <1>1, <2>1, SmallestSubset
<1>3. PICK x \in T : TRUE
  OBVIOUS
<1>4. T \ {x} # {}
  <2>1. SUFFICES ASSUME T = {x} PROVE FALSE
    BY <1>3
  <2>2. f[x] \in Nat
    BY <1>3
  <2> QED BY <1>3, <2>1, <2>2
<1>5. PICK z \in T \ {x} : \A y \in T \ {x} : f[y] <= f[z]
  <2>1. T \ {x} \notin Broken
    BY <1>2, <1>3
  <2> QED BY <1>4, <2>1
<1>6. \A y \in T : f[y] \in Nat
  OBVIOUS
<1>7. CASE f[x] <= f[z]
  <2>1. \A y \in T : f[y] <= f[z]
    BY <1>5, <1>7
  <2> QED BY <1>5, <2>1
<1>8. CASE f[z] <= f[x]
  <2>1. \A y \in T : f[y] <= f[x]
    BY <1>5, <1>6, <1>8
  <2> QED BY <1>3, <2>1
<1> QED BY <1>3, <1>5, <1>6, <1>7, <1>8

-----------------------------------------------------------------------------
(* Images.                                                                 *)

\* What a function makes of a finite set is finite.
LEMMA ImageIsFinite ==
    ASSUME NEW f, NEW S, IsFiniteSet(S)
    PROVE  IsFiniteSet({f[x] : x \in S})
<1> DEFINE T == {f[x] : x \in S}
           g == [x \in S |-> f[x]]
<1>1. g \in [S -> T]
  OBVIOUS
<1>2. \A t \in T : \E x \in S : g[x] = t
  OBVIOUS
<1>3. g \in Surjection(S, T)
  <2> HIDE DEF g, T
  <2> QED BY <1>1, <1>2, Fun_IsSurj
<1> QED BY <1>3, FS_Surjection
=============================================================================
