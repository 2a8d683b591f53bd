----------------------------- MODULE FiniteSums -----------------------------
(***************************************************************************)
(* What SumFunctionOnSet of the community modules computes: the sum over a *)
(* set grows by the value of an element that is added to the set.          *)
(*                                                                         *)
(* The sum is a recursive function on the subsets of the set that takes    *)
(* whatever element CHOOSE takes, so it has to be shown that there is such *)
(* a function, that there is only one, and that the order does not matter. *)
(* Every induction over a finite set is written as the search for a        *)
(* smallest counterexample among its subsets.                              *)
(***************************************************************************)
EXTENDS Integers, FiniteSets, Functions, FiniteSetTheorems, TLAPS

\* A set of subsets of a finite set has a smallest member.
LEMMA Smallest ==
  ASSUME NEW T, IsFiniteSet(T), NEW D, D \subseteq SUBSET T, D # {}
  PROVE  \E m \in D : \A s \in D : s \subseteq m => s = m
<1>1. IsWellFoundedOn(StrictSubsetOrdering(T), SUBSET T)
  BY FS_StrictSubsetOrderingWellFounded, FS_FiniteSubsetsOfFinite
<1>2. PICK m \in D : \A s \in D : ~(<<s, m>> \in StrictSubsetOrdering(T))
  BY <1>1, WFMin
<1>3. ASSUME NEW s \in D, s \subseteq m
      PROVE  s = m
  BY <1>2, <1>3 DEF StrictSubsetOrdering
<1> QED BY <1>3

-----------------------------------------------------------------------------
(* The recursion.                                                          *)

Pick(s) == CHOOSE x \in s : TRUE

\* An element is picked from every set that has one.
LEMMA Picked == \A s : s # {} => Pick(s) \in s
BY DEF Pick

Adding(g, v, T) ==
  g = [s \in SUBSET T |-> IF s = {} THEN 0 ELSE v[Pick(s)] + g[s \ {Pick(s)}]]

\* The sum is the value of some such function.
LEMMA SumIsRecursive ==
  ASSUME NEW v, NEW T
  PROVE  SumFunctionOnSet(v, T) = (CHOOSE g : Adding(g, v, T))[T]
BY DEF SumFunctionOnSet, FoldFunctionOnSet, MapThenFoldSet, Adding, Pick

\* There is at most one such function.
LEMMA OneAdding ==
  ASSUME NEW T, IsFiniteSet(T), NEW v, NEW g, NEW h, Adding(g, v, T), Adding(h, v, T)
  PROVE  g = h
<1> DEFINE D == {s \in SUBSET T : g[s] # h[s]}
<1>1. \A s \in SUBSET T : /\ g[s] = IF s = {} THEN 0 ELSE v[Pick(s)] + g[s \ {Pick(s)}]
                          /\ h[s] = IF s = {} THEN 0 ELSE v[Pick(s)] + h[s \ {Pick(s)}]
  BY DEF Adding
<1>2. ASSUME D # {} PROVE FALSE
  <2>1. PICK m \in D : \A s \in D : s \subseteq m => s = m
    <3>1. D \subseteq SUBSET T
      OBVIOUS
    <3> HIDE DEF D
    <3> QED BY <1>2, <3>1, Smallest
  <2>2. m \in SUBSET T /\ g[m] # h[m]
    BY <2>1
  <2>3. m # {}
    BY <1>1, <2>2
  <2>4. m \ {Pick(m)} \in SUBSET T /\ m \ {Pick(m)} \subseteq m /\ m \ {Pick(m)} # m
    BY <2>2, <2>3, Picked
  <2>5. g[m \ {Pick(m)}] = h[m \ {Pick(m)}]
    BY <2>1, <2>4
  <2> QED BY <1>1, <2>2, <2>3, <2>5
<1>3. \A s \in SUBSET T : g[s] = h[s]
  BY <1>2
<1>4. g = [s \in SUBSET T |-> g[s]] /\ h = [s \in SUBSET T |-> h[s]]
  BY DEF Adding
<1> QED BY <1>3, <1>4

\* Such a function for a set has one for every subset in it.
LEMMA AddingOnSubset ==
  ASSUME NEW T, NEW v, NEW g, Adding(g, v, T), NEW U \in SUBSET T
  PROVE  Adding([s \in SUBSET U |-> g[s]], v, U)
<1> DEFINE h == [s \in SUBSET U |-> g[s]]
<1>1. \A s \in SUBSET U : s \in SUBSET T /\ s \ {Pick(s)} \in SUBSET U
  OBVIOUS
<1>2. \A s \in SUBSET T : g[s] = IF s = {} THEN 0 ELSE v[Pick(s)] + g[s \ {Pick(s)}]
  BY DEF Adding
<1>3. \A s \in SUBSET U : h[s] = IF s = {} THEN 0 ELSE v[Pick(s)] + h[s \ {Pick(s)}]
  BY <1>1, <1>2
<1>4. h = [s \in SUBSET U |-> h[s]]
  OBVIOUS
<1> HIDE DEF h
<1>5. h = [s \in SUBSET U |-> IF s = {} THEN 0 ELSE v[Pick(s)] + h[s \ {Pick(s)}]]
  BY <1>3, <1>4
<1> QED BY <1>5 DEF Adding, h

TheAdding(v, T) == CHOOSE g : Adding(g, v, T)

\* Where there are such functions for two sets, one of them in the other, they
\* agree on the smaller set.
LEMMA AddingsAgree ==
  ASSUME NEW T, IsFiniteSet(T), NEW v, \E g : Adding(g, v, T), NEW U \in SUBSET T
  PROVE  /\ Adding(TheAdding(v, T), v, T)
         /\ TheAdding(v, T)[U] = TheAdding(v, U)[U]
<1>1. Adding(TheAdding(v, T), v, T)
  BY DEF TheAdding
<1> DEFINE h == [s \in SUBSET U |-> TheAdding(v, T)[s]]
<1>2. Adding(h, v, U)
  BY <1>1, AddingOnSubset
<1>3. h[U] = TheAdding(v, T)[U]
  OBVIOUS
<1> HIDE DEF h
<1>4. Adding(TheAdding(v, U), v, U)
  BY <1>2 DEF TheAdding
<1>5. IsFiniteSet(U)
  BY FS_Subset
<1>6. TheAdding(v, U) = h
  BY <1>2, <1>4, <1>5, OneAdding
<1> QED BY <1>1, <1>3, <1>6

\* There is such a function for every finite set.
LEMMA SomeAdding ==
  ASSUME NEW T, IsFiniteSet(T), NEW v
  PROVE  \E g : Adding(g, v, T)
<1> DEFINE D == {s \in SUBSET T : ~\E g : Adding(g, v, s)}
<1>1. ASSUME D # {} PROVE FALSE
  <2>1. PICK m \in D : \A s \in D : s \subseteq m => s = m
    <3>1. D \subseteq SUBSET T
      OBVIOUS
    <3> HIDE DEF D
    <3> QED BY <1>1, <3>1, Smallest
  <2>2. m \in SUBSET T /\ ~\E g : Adding(g, v, m)
    BY <2>1
  <2>3. IsFiniteSet(m)
    BY <2>2, FS_Subset
  <2>4. \A s \in SUBSET m : s # m => \E g : Adding(g, v, s)
    BY <2>1, <2>2
  <2> DEFINE Step(s) == IF s = {} THEN 0
                        ELSE v[Pick(s)] + TheAdding(v, s \ {Pick(s)})[s \ {Pick(s)}]
             g == [s \in SUBSET m |-> Step(s)]
  <2>5. ASSUME NEW s \in SUBSET m, s # m
        PROVE  Step(s) = TheAdding(v, s)[s]
    <3>1. IsFiniteSet(s) /\ \E f : Adding(f, v, s)
      BY <2>3, <2>4, <2>5, FS_Subset
    <3>2. Adding(TheAdding(v, s), v, s)
      BY <3>1, AddingsAgree
    <3>3. TheAdding(v, s)[s] = IF s = {} THEN 0 ELSE v[Pick(s)] + TheAdding(v, s)[s \ {Pick(s)}]
      <4> DEFINE f == TheAdding(v, s)
      <4>1. f = [u \in SUBSET s |-> IF u = {} THEN 0 ELSE v[Pick(u)] + f[u \ {Pick(u)}]]
        BY <3>2 DEF Adding
      <4> HIDE DEF f
      <4>2. f[s] = IF s = {} THEN 0 ELSE v[Pick(s)] + f[s \ {Pick(s)}]
        BY <4>1
      <4> QED BY <4>2 DEF f
    <3>4. TheAdding(v, s)[s \ {Pick(s)}] = TheAdding(v, s \ {Pick(s)})[s \ {Pick(s)}]
      <4>1. s \ {Pick(s)} \in SUBSET s
        OBVIOUS
      <4> QED BY <3>1, <4>1, AddingsAgree
    <3> QED BY <3>3, <3>4
  <2>6. ASSUME NEW s \in SUBSET m
        PROVE  g[s] = IF s = {} THEN 0 ELSE v[Pick(s)] + g[s \ {Pick(s)}]
    <3>1. CASE s = {}
      BY <3>1
    <3>2. CASE s # {}
      <4> DEFINE u == s \ {Pick(s)}
      <4>1. u \in SUBSET m /\ u # m
        BY <3>2, Picked
      <4>2. g[u] = Step(u)
        BY <4>1
      <4>3. Step(u) = TheAdding(v, u)[u]
        BY <2>5, <4>1
      <4>4. g[s] = v[Pick(s)] + TheAdding(v, u)[u]
        BY <3>2
      <4> QED BY <3>2, <4>2, <4>3, <4>4
    <3> QED BY <3>1, <3>2
  <2>7. g = [s \in SUBSET m |-> g[s]]
    OBVIOUS
  <2> HIDE DEF g
  <2>8. Adding(g, v, m)
    BY <2>6, <2>7 DEF Adding
  <2> QED BY <2>2, <2>8
<1>2. T \in SUBSET T
  OBVIOUS
<1> QED BY <1>1, <1>2

-----------------------------------------------------------------------------
(* The sum.                                                                *)

\* The sum of an element that is picked and of the rest.
LEMMA SumOfPicked ==
  ASSUME NEW T, IsFiniteSet(T), NEW v
  PROVE  SumFunctionOnSet(v, T) =
           IF T = {} THEN 0 ELSE v[Pick(T)] + SumFunctionOnSet(v, T \ {Pick(T)})
<1> DEFINE U == T \ {Pick(T)}
           f == TheAdding(v, T)
<1>1. U \in SUBSET T /\ T \in SUBSET T
  OBVIOUS
<1>2. Adding(f, v, T) /\ f[U] = TheAdding(v, U)[U]
  BY <1>1, SomeAdding, AddingsAgree
<1>3. SumFunctionOnSet(v, T) = f[T] /\ SumFunctionOnSet(v, U) = TheAdding(v, U)[U]
  BY SumIsRecursive DEF TheAdding
<1> HIDE DEF f
<1>4. f = [s \in SUBSET T |-> IF s = {} THEN 0 ELSE v[Pick(s)] + f[s \ {Pick(s)}]]
  BY <1>2 DEF Adding
<1>5. f[T] = IF T = {} THEN 0 ELSE v[Pick(T)] + f[U]
  BY <1>1, <1>4
<1> QED BY <1>2, <1>3, <1>5

\* Nothing adds up to zero.
LEMMA SumOfNothing ==
  ASSUME NEW v
  PROVE  SumFunctionOnSet(v, {}) = 0
BY SumOfPicked, FS_EmptySet

\* A sum of integers is an integer.
LEMMA SumTyped ==
  ASSUME NEW T, IsFiniteSet(T), NEW v, \A x \in T : v[x] \in Int
  PROVE  SumFunctionOnSet(v, T) \in Int
<1> DEFINE D == {s \in SUBSET T : SumFunctionOnSet(v, s) \notin Int}
<1>1. ASSUME D # {} PROVE FALSE
  <2>1. PICK m \in D : \A s \in D : s \subseteq m => s = m
    <3>1. D \subseteq SUBSET T
      OBVIOUS
    <3> HIDE DEF D
    <3> QED BY <1>1, <3>1, Smallest
  <2>2. m \in SUBSET T /\ SumFunctionOnSet(v, m) \notin Int
    BY <2>1
  <2>3. SumFunctionOnSet(v, m) =
          IF m = {} THEN 0 ELSE v[Pick(m)] + SumFunctionOnSet(v, m \ {Pick(m)})
    BY <2>2, FS_Subset, SumOfPicked
  <2>4. m # {}
    BY <2>2, <2>3
  <2>5. Pick(m) \in T /\ m \ {Pick(m)} \in SUBSET T /\ m \ {Pick(m)} \subseteq m /\ m \ {Pick(m)} # m
    BY <2>2, <2>4, Picked
  <2>6. SumFunctionOnSet(v, m \ {Pick(m)}) \in Int
    BY <2>1, <2>5
  <2> QED BY <2>2, <2>3, <2>4, <2>5, <2>6
<1>2. T \in SUBSET T
  OBVIOUS
<1> QED BY <1>1, <1>2

\* Whatever element is taken first, the sum is the same.
LEMMA SumOfAny ==
  ASSUME NEW T, IsFiniteSet(T), NEW v, \A y \in T : v[y] \in Int, NEW x \in T
  PROVE  SumFunctionOnSet(v, T) = v[x] + SumFunctionOnSet(v, T \ {x})
<1> DEFINE Sum(s) == SumFunctionOnSet(v, s)
           D == {s \in SUBSET T : \E y \in s : Sum(s) # v[y] + Sum(s \ {y})}
<1>1. \A s \in SUBSET T : Sum(s) \in Int /\ Sum(s) = IF s = {} THEN 0 ELSE v[Pick(s)] + Sum(s \ {Pick(s)})
  BY FS_Subset, SumTyped, SumOfPicked
<1> HIDE DEF Sum
<1>2. ASSUME D # {} PROVE FALSE
  <2>1. PICK m \in D : \A s \in D : s \subseteq m => s = m
    <3>1. D \subseteq SUBSET T
      OBVIOUS
    <3> HIDE DEF D
    <3> QED BY <1>2, <3>1, Smallest
  <2>2. PICK y \in m : Sum(m) # v[y] + Sum(m \ {y})
    BY <2>1
  <2> DEFINE p == Pick(m)
  <2>3. m \in SUBSET T /\ p \in m
    BY <2>1, <2>2, Picked
  <2>4. Sum(m) = v[p] + Sum(m \ {p})
    BY <1>1, <2>3
  <2>5. y # p
    BY <2>2, <2>4
  <2> HIDE DEF p
  <2>6. /\ m \ {p} \in SUBSET T /\ m \ {p} \subseteq m /\ m \ {p} # m /\ y \in m \ {p}
        /\ m \ {y} \in SUBSET T /\ m \ {y} \subseteq m /\ m \ {y} # m /\ p \in m \ {y}
    BY <2>3, <2>5
  <2>7. m \ {p} \notin D /\ m \ {y} \notin D
    BY <2>1, <2>6
  <2>8. Sum(m \ {p}) = v[y] + Sum((m \ {p}) \ {y}) /\ Sum(m \ {y}) = v[p] + Sum((m \ {y}) \ {p})
    BY <2>6, <2>7
  <2>9. (m \ {p}) \ {y} = (m \ {y}) \ {p} /\ (m \ {p}) \ {y} \in SUBSET T
    BY <2>6
  <2>10. v[p] \in Int /\ v[y] \in Int /\ Sum((m \ {p}) \ {y}) \in Int
    BY <1>1, <2>3, <2>9
  <2> DEFINE vp == v[p]
             vy == v[y]
             rest == Sum((m \ {p}) \ {y})
  <2>11. /\ vp \in Int /\ vy \in Int /\ rest \in Int
         /\ Sum(m) = vp + (vy + rest) /\ Sum(m \ {y}) = vp + rest
    BY <2>4, <2>8, <2>9, <2>10
  <2> HIDE DEF vp, rest
  <2>12. vp + (vy + rest) = vy + (vp + rest)
    BY <2>11
  <2> QED BY <2>2, <2>11, <2>12
<1>3. T \notin D /\ T \in SUBSET T
  BY <1>2
<1>4. Sum(T) = v[x] + Sum(T \ {x})
  BY <1>3
<1> QED BY <1>4 DEF Sum

\* A sum grows by what is added to the set.
THEOREM SumGrows ==
  ASSUME NEW T, IsFiniteSet(T), NEW x, x \notin T,
         NEW v, \A y \in T \cup {x} : v[y] \in Int
  PROVE  SumFunctionOnSet(v, T \cup {x}) = SumFunctionOnSet(v, T) + v[x]
<1>1. IsFiniteSet(T \cup {x}) /\ (T \cup {x}) \ {x} = T
  BY FS_AddElement
<1>2. SumFunctionOnSet(v, T \cup {x}) = v[x] + SumFunctionOnSet(v, (T \cup {x}) \ {x})
  BY <1>1, SumOfAny
<1>3. SumFunctionOnSet(v, T) \in Int /\ v[x] \in Int
  BY SumTyped
<1>4. \A a, b \in Int : a + b = b + a
  OBVIOUS
<1> QED BY <1>1, <1>2, <1>3, <1>4
=============================================================================
