---------------------------- MODULE SumTheorems ----------------------------
(***************************************************************************)
(* Facts about SumFunctionOnSet, the sum of a function over a finite set,  *)
(* with which the components keep their books.  It is a fold, a recursive  *)
(* function, and the recursion has to be shown to define something before  *)
(* anything is known of the sum: that is FoldExists.  The inductions are   *)
(* by a smallest counterexample (LeastSubset) among the subsets of S.      *)
(*                                                                         *)
(* In the same way: a finite set of numbers can be listed in order         *)
(* (CanBeListed, AscendingLists), and what the sizes of sets say of        *)
(* functions between them (Pigeons, Holes).                                *)
(***************************************************************************)
EXTENDS Functions, FiniteSetTheorems, TLAPS

\* The element the fold takes out first.
Pick(s) == CHOOSE x \in s : TRUE

\* g computes the sums of f over the subsets of S, the way the fold does.
IsFold(g, f, S) ==
  g = [s \in SUBSET S |-> IF s = {} THEN 0 ELSE f[Pick(s)] + g[s \ {Pick(s)}]]

\* A set of subsets of a finite set has a member with no other one inside it.
LEMMA LeastSubset ==
  ASSUME NEW S, IsFiniteSet(S), NEW T, T \subseteq SUBSET S, T # {}
  PROVE  \E s \in T : \A t \in T : ~ (t \subseteq s /\ t # s)
<1>1. IsWellFoundedOn(StrictSubsetOrdering(S), SUBSET S)
  BY FS_StrictSubsetOrderingWellFounded, FS_FiniteSubsetsOfFinite
<1>2. PICK s \in T : \A t \in T : ~ (<<t, s>> \in StrictSubsetOrdering(S))
  BY <1>1, WFMin
<1> QED
  BY <1>2 DEF StrictSubsetOrdering

\* What is picked of a set is in it.
LEMMA PickOne == ASSUME NEW s, s # {} PROVE Pick(s) \in s
  BY DEF Pick

\* Two folds of f agree on what they both define.
LEMMA FoldsAgree ==
  ASSUME NEW f, NEW S, NEW T, NEW g, NEW h, IsFiniteSet(S),
         IsFold(g, f, S), IsFold(h, f, T), T \subseteq S
  PROVE  \A s \in SUBSET T : g[s] = h[s]
<1> DEFINE Bad == {s \in SUBSET T : g[s] # h[s]}
<1> SUFFICES ASSUME Bad # {} PROVE FALSE
  OBVIOUS
<1>1. PICK s \in Bad : \A t \in Bad : ~ (t \subseteq s /\ t # s)
  <2> Bad \subseteq SUBSET S
    OBVIOUS
  <2> HIDE DEF Bad
  <2> QED
    BY LeastSubset
<1>2. g[s] = IF s = {} THEN 0 ELSE f[Pick(s)] + g[s \ {Pick(s)}]
  BY s \in SUBSET S DEF IsFold
<1>3. h[s] = IF s = {} THEN 0 ELSE f[Pick(s)] + h[s \ {Pick(s)}]
  BY s \in SUBSET T DEF IsFold
<1>4. s # {} /\ s \ {Pick(s)} \in SUBSET T /\ s \ {Pick(s)} # s
  BY <1>2, <1>3, PickOne
<1>5. g[s \ {Pick(s)}] = h[s \ {Pick(s)}]
  BY <1>1, <1>4
<1> QED
  BY <1>2, <1>3, <1>5

\* Every finite set has a fold: the recursion is well-founded.
LEMMA FoldExists ==
  ASSUME NEW f, NEW S, IsFiniteSet(S)
  PROVE  \E g : IsFold(g, f, S)
<1> DEFINE Bad == {s \in SUBSET S : ~ \E g : IsFold(g, f, s)}
<1> SUFFICES ASSUME Bad # {} PROVE FALSE
  OBVIOUS
<1>1. PICK T \in Bad : \A t \in Bad : ~ (t \subseteq T /\ t # T)
  <2> Bad \subseteq SUBSET S
    OBVIOUS
  <2> HIDE DEF Bad
  <2> QED
    BY LeastSubset
<1> DEFINE H(s) == CHOOSE h : IsFold(h, f, s)
           g == [s \in SUBSET T |-> IF s = {} THEN 0
                                    ELSE f[Pick(s)] + H(s \ {Pick(s)})[s \ {Pick(s)}]]
<1>2. \A s \in SUBSET T : s # T => IsFold(H(s), f, s)
  BY <1>1
<1>3. ASSUME NEW s \in SUBSET T, s # {}
      PROVE  g[s \ {Pick(s)}] = H(s \ {Pick(s)})[s \ {Pick(s)}]
  <2> DEFINE u == s \ {Pick(s)}
  <2>1. u \in SUBSET T /\ u # T
    BY <1>3, PickOne
  <2>2. IsFold(H(u), f, u)
    BY <1>2, <2>1
  <2>3. g[u] = IF u = {} THEN 0 ELSE f[Pick(u)] + H(u \ {Pick(u)})[u \ {Pick(u)}]
    BY <2>1
  <2>4. H(u)[u] = IF u = {} THEN 0 ELSE f[Pick(u)] + H(u)[u \ {Pick(u)}]
    <3> HIDE DEF H
    <3> QED BY <2>2 DEF IsFold
  <2>5. u # {} => H(u)[u \ {Pick(u)}] = H(u \ {Pick(u)})[u \ {Pick(u)}]
    <3> SUFFICES ASSUME u # {} PROVE H(u)[u \ {Pick(u)}] = H(u \ {Pick(u)})[u \ {Pick(u)}]
      OBVIOUS
    <3>1. u \ {Pick(u)} \in SUBSET T /\ u \ {Pick(u)} # T /\ u \ {Pick(u)} \subseteq u
      BY <2>1, PickOne
    <3>2. IsFold(H(u \ {Pick(u)}), f, u \ {Pick(u)})
      BY <1>2, <3>1
    <3>3. IsFiniteSet(u)
      BY <2>1, FS_Subset
    <3> HIDE DEF H, u
    <3> QED
      BY <2>2, <3>1, <3>2, <3>3, FoldsAgree
  <2> HIDE DEF H, g
  <2> QED
    BY <2>3, <2>4, <2>5
<1>4. IsFold(g, f, T)
  <2>1. \A s \in SUBSET T :
          (IF s = {} THEN 0 ELSE f[Pick(s)] + H(s \ {Pick(s)})[s \ {Pick(s)}])
            = IF s = {} THEN 0 ELSE f[Pick(s)] + g[s \ {Pick(s)}]
    <3> HIDE DEF g, H
    <3> QED
      BY <1>3
  <2>2. g = [s \in SUBSET T |-> IF s = {} THEN 0 ELSE f[Pick(s)] + g[s \ {Pick(s)}]]
    <3> DEFINE G(s) == IF s = {} THEN 0 ELSE f[Pick(s)] + H(s \ {Pick(s)})[s \ {Pick(s)}]
               K(s) == IF s = {} THEN 0 ELSE f[Pick(s)] + g[s \ {Pick(s)}]
    <3>1. \A s \in SUBSET T : G(s) = K(s)
      BY <2>1
    <3>2. g = [s \in SUBSET T |-> G(s)]
      OBVIOUS
    <3> HIDE DEF G, K
    <3>3. [s \in SUBSET T |-> G(s)] = [s \in SUBSET T |-> K(s)]
      BY <3>1
    <3>4. g = [s \in SUBSET T |-> K(s)]
      BY <3>2, <3>3
    <3> HIDE DEF g
    <3> QED
      BY <3>4 DEF K
  <2> HIDE DEF g
  <2> QED
    BY <2>2 DEF IsFold
<1> QED
  BY <1>4
-----------------------------------------------------------------------------
FoldOf(f, S) == CHOOSE g : IsFold(g, f, S)

\* The community modules' sum is the value of that recursive function.
LEMMA SumIsFold ==
  ASSUME NEW f, NEW S
  PROVE  SumFunctionOnSet(f, S) = FoldOf(f, S)[S]
  BY DEF SumFunctionOnSet, FoldFunctionOnSet, MapThenFoldSet, FoldOf, IsFold, Pick

\* The recursive function obeys its equation.
LEMMA FoldOfIsFold ==
  ASSUME NEW f, NEW S, IsFiniteSet(S)
  PROVE  IsFold(FoldOf(f, S), f, S)
  BY FoldExists DEF FoldOf

\* The sum over nothing is 0.
LEMMA SumEmpty ==
  ASSUME NEW f
  PROVE  SumFunctionOnSet(f, {}) = 0
<1>1. IsFold(FoldOf(f, {}), f, {})
  BY FoldOfIsFold, FS_EmptySet
<1>2. FoldOf(f, {})[{}] = 0
  BY <1>1 DEF IsFold
<1> QED
  BY <1>2, SumIsFold

\* The sum is what is picked first and the sum of the rest.
LEMMA SumPick ==
  ASSUME NEW f, NEW S, IsFiniteSet(S), S # {}
  PROVE  SumFunctionOnSet(f, S) = f[Pick(S)] + SumFunctionOnSet(f, S \ {Pick(S)})
<1> DEFINE R == S \ {Pick(S)}
<1>1. IsFiniteSet(R) /\ R \subseteq S /\ R \in SUBSET S
  BY FS_Subset
<1>2. IsFold(FoldOf(f, S), f, S) /\ IsFold(FoldOf(f, R), f, R)
  BY <1>1, FoldOfIsFold
<1>3. FoldOf(f, S)[R] = FoldOf(f, R)[R]
  <2> HIDE DEF R
  <2> QED
    BY <1>1, <1>2, FoldsAgree
<1>4. FoldOf(f, S)[S] = f[Pick(S)] + FoldOf(f, S)[R]
  BY <1>2 DEF IsFold
<1> QED
  BY <1>3, <1>4, SumIsFold

\* A sum of integers is an integer.
LEMMA SumInt ==
  ASSUME NEW f, NEW S, IsFiniteSet(S), \A x \in S : f[x] \in Int
  PROVE  SumFunctionOnSet(f, S) \in Int
<1> DEFINE Bad == {s \in SUBSET S : SumFunctionOnSet(f, s) \notin Int}
<1> SUFFICES ASSUME Bad # {} PROVE FALSE
  OBVIOUS
<1>1. PICK s \in Bad : \A t \in Bad : ~ (t \subseteq s /\ t # s)
  <2> Bad \subseteq SUBSET S
    OBVIOUS
  <2> HIDE DEF Bad
  <2> QED
    BY LeastSubset
<1>2. s # {} /\ IsFiniteSet(s)
  <2>1. s \in SUBSET S
    OBVIOUS
  <2>2. IsFiniteSet(s)
    BY <2>1, FS_Subset
  <2>3. s # {}
    BY SumEmpty
  <2> QED
    BY <2>2, <2>3
<1>3. SumFunctionOnSet(f, s \ {Pick(s)}) \in Int
  BY <1>1, <1>2, PickOne
<1>4. SumFunctionOnSet(f, s) = f[Pick(s)] + SumFunctionOnSet(f, s \ {Pick(s)})
  BY <1>2, SumPick
<1>5. f[Pick(s)] \in Int
  BY <1>2, PickOne
<1> QED
  BY <1>3, <1>4, <1>5

\* Any element can be taken out first.
LEMMA SumRemove ==
  ASSUME NEW f, NEW S, IsFiniteSet(S), \A x \in S : f[x] \in Int, NEW x \in S
  PROVE  SumFunctionOnSet(f, S) = f[x] + SumFunctionOnSet(f, S \ {x})
<1> DEFINE Bad == {s \in SUBSET S : \E y \in s :
                     SumFunctionOnSet(f, s) # f[y] + SumFunctionOnSet(f, s \ {y})}
<1> SUFFICES ASSUME Bad # {} PROVE FALSE
  OBVIOUS
<1>1. PICK s \in Bad : \A t \in Bad : ~ (t \subseteq s /\ t # s)
  <2> Bad \subseteq SUBSET S
    OBVIOUS
  <2> HIDE DEF Bad
  <2> QED
    BY LeastSubset
<1>2. PICK y \in s : SumFunctionOnSet(f, s) # f[y] + SumFunctionOnSet(f, s \ {y})
  OBVIOUS
<1> DEFINE p == Pick(s)
           r == s \ {p}
<1>3. p \in s /\ IsFiniteSet(s) /\ s \in SUBSET S
  BY PickOne, FS_Subset
<1>4. SumFunctionOnSet(f, s) = f[p] + SumFunctionOnSet(f, r)
  BY <1>3, SumPick
<1>5. p # y
  BY <1>2, <1>4
<1>6. SumFunctionOnSet(f, r) = f[y] + SumFunctionOnSet(f, r \ {y})
  <2>1. r \in SUBSET S /\ r \subseteq s /\ r # s /\ y \in r
    BY <1>3, <1>5
  <2>2. r \notin Bad
    <3> HIDE DEF Bad, r
    <3> QED
      BY <1>1, <2>1
  <2> QED
    BY <2>1, <2>2
<1>7. SumFunctionOnSet(f, s \ {y}) = f[p] + SumFunctionOnSet(f, r \ {y})
  <2>1. s \ {y} \in SUBSET S /\ s \ {y} \subseteq s /\ s \ {y} # s /\ p \in s \ {y}
    BY <1>3, <1>5
  <2>2. s \ {y} \notin Bad
    <3> HIDE DEF Bad
    <3> QED
      BY <1>1, <2>1
  <2>3. SumFunctionOnSet(f, s \ {y}) = f[p] + SumFunctionOnSet(f, (s \ {y}) \ {p})
    BY <2>1, <2>2
  <2>4. (s \ {y}) \ {p} = r \ {y}
    OBVIOUS
  <2> HIDE DEF r
  <2> QED
    BY <2>3, <2>4
<1>8. f[p] \in Int /\ f[y] \in Int /\ SumFunctionOnSet(f, r \ {y}) \in Int
  <2>1. r \ {y} \in SUBSET S
    BY <1>3
  <2>2. IsFiniteSet(r \ {y})
    BY <2>1, FS_Subset
  <2> QED
    BY <1>3, <2>1, <2>2, SumInt
<1> HIDE DEF p, r, Bad
<1> QED
  BY <1>2, <1>4, <1>6, <1>7, <1>8

\* The sum depends on f over S only.
LEMMA SumEqual ==
  ASSUME NEW f, NEW g, NEW S, IsFiniteSet(S), \A x \in S : f[x] = g[x]
  PROVE  SumFunctionOnSet(f, S) = SumFunctionOnSet(g, S)
<1> DEFINE Bad == {s \in SUBSET S : SumFunctionOnSet(f, s) # SumFunctionOnSet(g, s)}
<1> SUFFICES ASSUME Bad # {} PROVE FALSE
  OBVIOUS
<1>1. PICK s \in Bad : \A t \in Bad : ~ (t \subseteq s /\ t # s)
  <2> Bad \subseteq SUBSET S
    OBVIOUS
  <2> HIDE DEF Bad
  <2> QED
    BY LeastSubset
<1>2. s # {} /\ IsFiniteSet(s)
  <2>1. s \in SUBSET S
    OBVIOUS
  <2>2. IsFiniteSet(s)
    BY <2>1, FS_Subset
  <2>3. s # {}
    BY SumEmpty
  <2> QED
    BY <2>2, <2>3
<1>3. SumFunctionOnSet(f, s \ {Pick(s)}) = SumFunctionOnSet(g, s \ {Pick(s)})
  BY <1>1, <1>2, PickOne
<1>4. /\ SumFunctionOnSet(f, s) = f[Pick(s)] + SumFunctionOnSet(f, s \ {Pick(s)})
      /\ SumFunctionOnSet(g, s) = g[Pick(s)] + SumFunctionOnSet(g, s \ {Pick(s)})
  BY <1>2, SumPick
<1> QED
  BY <1>2, <1>3, <1>4, PickOne

\* A sum grows with what is summed.
LEMMA SumMonotone ==
  ASSUME NEW f, NEW g, NEW S, IsFiniteSet(S),
         \A x \in S : f[x] \in Int /\ g[x] \in Int /\ f[x] <= g[x]
  PROVE  SumFunctionOnSet(f, S) <= SumFunctionOnSet(g, S)
<1> DEFINE Bad == {s \in SUBSET S : ~ (SumFunctionOnSet(f, s) <= SumFunctionOnSet(g, s))}
<1> SUFFICES ASSUME Bad # {} PROVE FALSE
  OBVIOUS
<1>1. PICK s \in Bad : \A t \in Bad : ~ (t \subseteq s /\ t # s)
  <2> Bad \subseteq SUBSET S
    OBVIOUS
  <2> HIDE DEF Bad
  <2> QED
    BY LeastSubset
<1>2. s # {} /\ IsFiniteSet(s)
  <2>1. s \in SUBSET S
    OBVIOUS
  <2>2. IsFiniteSet(s)
    BY <2>1, FS_Subset
  <2>3. s # {}
    BY SumEmpty
  <2> QED
    BY <2>2, <2>3
<1> DEFINE p == Pick(s)
<1>3. SumFunctionOnSet(f, s \ {p}) <= SumFunctionOnSet(g, s \ {p})
  BY <1>1, <1>2, PickOne
<1>4. /\ SumFunctionOnSet(f, s) = f[p] + SumFunctionOnSet(f, s \ {p})
      /\ SumFunctionOnSet(g, s) = g[p] + SumFunctionOnSet(g, s \ {p})
  BY <1>2, SumPick
<1>5. SumFunctionOnSet(f, s \ {p}) \in Int /\ SumFunctionOnSet(g, s \ {p}) \in Int
  <2>1. s \ {p} \in SUBSET S /\ IsFiniteSet(s \ {p})
    BY <1>2, FS_Subset
  <2> QED
    BY <2>1, SumInt
<1>6. f[p] \in Int /\ g[p] \in Int /\ f[p] <= g[p] /\ s \in Bad
  BY <1>2, PickOne
<1>7. ~ (SumFunctionOnSet(f, s) <= SumFunctionOnSet(g, s))
  BY <1>6
<1> HIDE DEF p, Bad
<1> QED
  BY <1>3, <1>4, <1>5, <1>6, <1>7

\* Sums of numbers are numbers, and no term is larger than its sum.
LEMMA SumNat ==
  ASSUME NEW f, NEW S, IsFiniteSet(S), \A x \in S : f[x] \in Nat
  PROVE  /\ SumFunctionOnSet(f, S) \in Nat
         /\ \A x \in S : f[x] <= SumFunctionOnSet(f, S)
<1> DEFINE zero == [x \in S |-> 0]
<1>1. ASSUME NEW T \in SUBSET S
      PROVE  SumFunctionOnSet(f, T) \in Nat
  <2>1. IsFiniteSet(T)
    BY FS_Subset
  <2> DEFINE Bad == {s \in SUBSET T : SumFunctionOnSet(f, s) \notin Nat}
  <2> SUFFICES ASSUME Bad # {} PROVE FALSE
    OBVIOUS
  <2>2. PICK s \in Bad : \A t \in Bad : ~ (t \subseteq s /\ t # s)
    <3> Bad \subseteq SUBSET T
      OBVIOUS
    <3> HIDE DEF Bad
    <3> QED
      BY <2>1, LeastSubset
  <2>3. s # {}
    BY SumEmpty
  <2>4. IsFiniteSet(s)
    <3> s \in SUBSET T
      OBVIOUS
    <3> QED
      BY <2>1, FS_Subset
  <2>5. SumFunctionOnSet(f, s \ {Pick(s)}) \in Nat
    BY <2>2, <2>3, PickOne
  <2>6. SumFunctionOnSet(f, s) = f[Pick(s)] + SumFunctionOnSet(f, s \ {Pick(s)})
    BY <2>3, <2>4, SumPick
  <2>7. f[Pick(s)] \in Nat
    BY <2>3, PickOne
  <2> QED
    BY <2>5, <2>6, <2>7
<1>2. ASSUME NEW x \in S
      PROVE  f[x] <= SumFunctionOnSet(f, S)
  <2>1. SumFunctionOnSet(f, S) = f[x] + SumFunctionOnSet(f, S \ {x})
    BY SumRemove
  <2>2. SumFunctionOnSet(f, S \ {x}) \in Nat
    BY <1>1
  <2> QED
    BY <2>1, <2>2
<1> QED
  BY <1>1, <1>2

\* A new element adds its term.
LEMMA SumAdd ==
  ASSUME NEW f, NEW S, IsFiniteSet(S), NEW x, x \notin S, \A y \in S \cup {x} : f[y] \in Int
  PROVE  SumFunctionOnSet(f, S \cup {x}) = f[x] + SumFunctionOnSet(f, S)
<1>1. IsFiniteSet(S \cup {x})
  BY FS_AddElement
<1>2. (S \cup {x}) \ {x} = S
  OBVIOUS
<1> QED
  BY <1>1, <1>2, SumRemove

\* A sum over S splits along any part of it.
LEMMA SumSplit ==
  ASSUME NEW f, NEW S, IsFiniteSet(S), \A x \in S : f[x] \in Int, NEW R \in SUBSET S
  PROVE  SumFunctionOnSet(f, S) = SumFunctionOnSet(f, R) + SumFunctionOnSet(f, S \ R)
<1> DEFINE Bad == {s \in SUBSET S :
              SumFunctionOnSet(f, s) # SumFunctionOnSet(f, s \cap R) + SumFunctionOnSet(f, s \ R)}
<1>0. ASSUME NEW s \in SUBSET S
      PROVE  /\ IsFiniteSet(s)
             /\ SumFunctionOnSet(f, s) \in Int
  <2>1. IsFiniteSet(s)
    BY FS_Subset
  <2> QED
    BY <2>1, SumInt
<1>1. Bad = {}
  <2> SUFFICES ASSUME Bad # {} PROVE FALSE
    OBVIOUS
  <2>1. PICK s \in Bad : \A t \in Bad : ~ (t \subseteq s /\ t # s)
    <3> Bad \subseteq SUBSET S
      OBVIOUS
    <3> HIDE DEF Bad
    <3> QED
      BY LeastSubset
  <2>0. SumFunctionOnSet(f, s) # SumFunctionOnSet(f, s \cap R) + SumFunctionOnSet(f, s \ R)
    OBVIOUS
  <2>2. s \in SUBSET S
    OBVIOUS
  <2>3. s # {}
    <3> SUFFICES ASSUME s = {} PROVE FALSE
      OBVIOUS
    <3>1. s \cap R = {} /\ s \ R = {}
      OBVIOUS
    <3> QED
      BY <3>1, SumEmpty
  <2>4. PICK p : p \in s
    BY <2>3
  <2> DEFINE r == s \ {p}
  <2>5. r \in SUBSET S /\ r \notin Bad
    <3>1. r \in SUBSET S /\ r \subseteq s /\ r # s
      BY <2>2, <2>4
    <3> HIDE DEF r, Bad
    <3> QED
      BY <2>1, <3>1
  <2>6. SumFunctionOnSet(f, r) = SumFunctionOnSet(f, r \cap R) + SumFunctionOnSet(f, r \ R)
    BY <2>5
  <2>7. SumFunctionOnSet(f, s) = f[p] + SumFunctionOnSet(f, r)
    BY <1>0, <2>2, <2>4, SumRemove
  <2>8. CASE p \in R
    <3>1. (s \cap R) \in SUBSET S /\ (s \cap R) \ {p} \in SUBSET S /\ (s \ R) \in SUBSET S /\ p \in (s \cap R)
      BY <2>2, <2>4, <2>8
    <3>2. SumFunctionOnSet(f, s \cap R) = f[p] + SumFunctionOnSet(f, (s \cap R) \ {p})
      <4>1. IsFiniteSet(s \cap R) /\ \A y \in (s \cap R) : f[y] \in Int
        BY <1>0, <3>1
      <4> QED
        BY <3>1, <4>1, SumRemove
    <3>3. SumFunctionOnSet(f, r) = SumFunctionOnSet(f, (s \cap R) \ {p}) + SumFunctionOnSet(f, s \ R)
      <4>1. (s \cap R) \ {p} = r \cap R /\ s \ R = r \ R
        BY <2>8
      <4> QED
        BY <2>6, <4>1
    <3>4. /\ f[p] \in Int /\ SumFunctionOnSet(f, (s \cap R) \ {p}) \in Int
          /\ SumFunctionOnSet(f, s \ R) \in Int
      <4>1. p \in S
        BY <2>2, <2>4
      <4> QED
        BY <1>0, <3>1, <4>1
    <3> DEFINE whole == SumFunctionOnSet(f, s)
               less == SumFunctionOnSet(f, r)
               with == SumFunctionOnSet(f, s \cap R)
               without == SumFunctionOnSet(f, (s \cap R) \ {p})
               other == SumFunctionOnSet(f, s \ R)
    <3>5. /\ whole = f[p] + less /\ with = f[p] + without /\ less = without + other
          /\ f[p] \in Int /\ without \in Int /\ other \in Int
      BY <2>7, <3>2, <3>3, <3>4
    <3> HIDE DEF whole, less, with, without, other, r, Bad
    <3>6. whole = with + other /\ whole = other + with
      BY <3>5
    <3>7. SumFunctionOnSet(f, s) = SumFunctionOnSet(f, s \cap R) + SumFunctionOnSet(f, s \ R)
      BY <3>6 DEF whole, with, other
    <3> QED
      BY <2>0, <3>7
  <2>9. CASE p \notin R
    <3>1. (s \ R) \in SUBSET S /\ (s \ R) \ {p} \in SUBSET S /\ (s \cap R) \in SUBSET S /\ p \in (s \ R)
      BY <2>2, <2>4, <2>9
    <3>2. SumFunctionOnSet(f, s \ R) = f[p] + SumFunctionOnSet(f, (s \ R) \ {p})
      <4>1. IsFiniteSet(s \ R) /\ \A y \in (s \ R) : f[y] \in Int
        BY <1>0, <3>1
      <4> QED
        BY <3>1, <4>1, SumRemove
    <3>3. SumFunctionOnSet(f, r) = SumFunctionOnSet(f, s \cap R) + SumFunctionOnSet(f, (s \ R) \ {p})
      <4>1. (s \ R) \ {p} = r \ R /\ s \cap R = r \cap R
        BY <2>9
      <4> QED
        BY <2>6, <4>1
    <3>4. /\ f[p] \in Int /\ SumFunctionOnSet(f, (s \ R) \ {p}) \in Int
          /\ SumFunctionOnSet(f, s \cap R) \in Int
      <4>1. p \in S
        BY <2>2, <2>4
      <4> QED
        BY <1>0, <3>1, <4>1
    <3> DEFINE whole == SumFunctionOnSet(f, s)
               less == SumFunctionOnSet(f, r)
               with == SumFunctionOnSet(f, s \ R)
               without == SumFunctionOnSet(f, (s \ R) \ {p})
               other == SumFunctionOnSet(f, s \cap R)
    <3>5. /\ whole = f[p] + less /\ with = f[p] + without /\ less = other + without
          /\ f[p] \in Int /\ without \in Int /\ other \in Int
      BY <2>7, <3>2, <3>3, <3>4
    <3> HIDE DEF whole, less, with, without, other, r, Bad
    <3>6. whole = with + other /\ whole = other + with
      BY <3>5
    <3>7. SumFunctionOnSet(f, s) = SumFunctionOnSet(f, s \cap R) + SumFunctionOnSet(f, s \ R)
      BY <3>6 DEF whole, with, other
    <3> QED
      BY <2>0, <3>7
  <2> QED
    BY <2>8, <2>9
<1>2. S \cap R = R /\ S \notin Bad
  BY <1>1
<1>3. SumFunctionOnSet(f, S) = SumFunctionOnSet(f, S \cap R) + SumFunctionOnSet(f, S \ R)
  BY <1>2
<1> QED
  BY <1>2, <1>3

\* When one term changes, the sum changes by as much.
LEMMA SumChange ==
  ASSUME NEW f, NEW g, NEW S, IsFiniteSet(S), NEW x \in S,
         \A y \in S : f[y] \in Int /\ g[y] \in Int,
         \A y \in S \ {x} : g[y] = f[y]
  PROVE  SumFunctionOnSet(g, S) = SumFunctionOnSet(f, S) + g[x] - f[x]
<1>1. IsFiniteSet(S \ {x})
  BY FS_RemoveElement
<1>2. /\ SumFunctionOnSet(f, S) = f[x] + SumFunctionOnSet(f, S \ {x})
      /\ SumFunctionOnSet(g, S) = g[x] + SumFunctionOnSet(g, S \ {x})
  BY SumRemove
<1>3. SumFunctionOnSet(g, S \ {x}) = SumFunctionOnSet(f, S \ {x})
  BY <1>1, SumEqual
<1>4. SumFunctionOnSet(f, S \ {x}) \in Int
  BY <1>1, SumInt
<1> QED
  BY <1>2, <1>3, <1>4

\* A sum of sums can be taken apart.
LEMMA SumPlus ==
  ASSUME NEW f, NEW g, NEW h, NEW S, IsFiniteSet(S),
         \A x \in S : f[x] \in Int /\ g[x] \in Int /\ h[x] = f[x] + g[x]
  PROVE  SumFunctionOnSet(h, S) = SumFunctionOnSet(f, S) + SumFunctionOnSet(g, S)
<1> DEFINE Bad == {s \in SUBSET S :
              SumFunctionOnSet(h, s) # SumFunctionOnSet(f, s) + SumFunctionOnSet(g, s)}
<1> SUFFICES ASSUME Bad # {} PROVE FALSE
  OBVIOUS
<1>1. PICK s \in Bad : \A t \in Bad : ~ (t \subseteq s /\ t # s)
  <2> Bad \subseteq SUBSET S
    OBVIOUS
  <2> HIDE DEF Bad
  <2> QED
    BY LeastSubset
<1>2. s \in SUBSET S /\ SumFunctionOnSet(h, s) # SumFunctionOnSet(f, s) + SumFunctionOnSet(g, s)
  OBVIOUS
<1>3. IsFiniteSet(s)
  BY <1>2, FS_Subset
<1>4. s # {}
  BY <1>2, SumEmpty
<1> DEFINE p == Pick(s)
           r == s \ {p}
<1>5. p \in s /\ f[p] \in Int /\ g[p] \in Int /\ h[p] = f[p] + g[p]
  BY <1>2, <1>4, PickOne
<1>6. SumFunctionOnSet(h, r) = SumFunctionOnSet(f, r) + SumFunctionOnSet(g, r)
  BY <1>1, <1>5
<1>7. /\ SumFunctionOnSet(f, s) = f[p] + SumFunctionOnSet(f, r)
      /\ SumFunctionOnSet(g, s) = g[p] + SumFunctionOnSet(g, r)
      /\ SumFunctionOnSet(h, s) = h[p] + SumFunctionOnSet(h, r)
  BY <1>3, <1>4, SumPick
<1>8. SumFunctionOnSet(f, r) \in Int /\ SumFunctionOnSet(g, r) \in Int
  <2>1. IsFiniteSet(r) /\ \A x \in r : f[x] \in Int /\ g[x] \in Int
    BY <1>2, <1>3, FS_RemoveElement
  <2> QED
    BY <2>1, SumInt
<1> HIDE DEF p, r, Bad
<1> QED
  BY <1>2, <1>5, <1>6, <1>7, <1>8

\* A sum of zeros is 0.
LEMMA SumZero ==
  ASSUME NEW f, NEW S, IsFiniteSet(S), \A x \in S : f[x] = 0
  PROVE  SumFunctionOnSet(f, S) = 0
<1> DEFINE Bad == {s \in SUBSET S : SumFunctionOnSet(f, s) # 0}
<1> SUFFICES ASSUME Bad # {} PROVE FALSE
  OBVIOUS
<1>1. PICK s \in Bad : \A t \in Bad : ~ (t \subseteq s /\ t # s)
  <2> Bad \subseteq SUBSET S
    OBVIOUS
  <2> HIDE DEF Bad
  <2> QED
    BY LeastSubset
<1>2. s # {}
  BY SumEmpty
<1>3. IsFiniteSet(s)
  <2> s \in SUBSET S
    OBVIOUS
  <2> QED
    BY FS_Subset
<1>4. SumFunctionOnSet(f, s \ {Pick(s)}) = 0
  BY <1>1, <1>2, PickOne
<1>5. SumFunctionOnSet(f, s) = f[Pick(s)] + SumFunctionOnSet(f, s \ {Pick(s)})
  BY <1>2, <1>3, SumPick
<1>6. f[Pick(s)] = 0
  BY <1>2, PickOne
<1> QED
  BY <1>4, <1>5, <1>6
\* The same terms under other names have the same sum.
LEMMA SumRenamed ==
  ASSUME NEW f, NEW g, NEW S, NEW T, NEW m, IsFiniteSet(S),
         \A x \in S : m[x] \in T /\ f[x] \in Int /\ g[m[x]] = f[x],
         \A x, y \in S : m[x] = m[y] => x = y,
         \A t \in T : \E x \in S : m[x] = t
  PROVE  SumFunctionOnSet(f, S) = SumFunctionOnSet(g, T)
<1> DEFINE Of(s) == {t \in T : \E x \in s : m[x] = t}
           Bad == {s \in SUBSET S : ~ (IsFiniteSet(Of(s)) /\ SumFunctionOnSet(f, s) = SumFunctionOnSet(g, Of(s)))}
<1>1. SUFFICES ASSUME Bad # {} PROVE FALSE
  <2>1. S \in SUBSET S /\ Of(S) = T
    OBVIOUS
  <2>2. Bad = {} => SumFunctionOnSet(f, S) = SumFunctionOnSet(g, Of(S))
    BY <2>1
  <2> HIDE DEF Of, Bad
  <2> QED
    BY <2>1, <2>2
<1>2. PICK s \in Bad : \A t \in Bad : ~ (t \subseteq s /\ t # s)
  <2> Bad \subseteq SUBSET S
    OBVIOUS
  <2> HIDE DEF Bad
  <2> QED
    BY <1>1, LeastSubset
<1>3. s \in SUBSET S /\ IsFiniteSet(s)
  BY FS_Subset
<1>4. ~ (IsFiniteSet(Of(s)) /\ SumFunctionOnSet(f, s) = SumFunctionOnSet(g, Of(s)))
  OBVIOUS
<1>5. s # {}
  <2> SUFFICES ASSUME s = {} PROVE FALSE
    OBVIOUS
  <2>1. Of(s) = {}
    OBVIOUS
  <2> HIDE DEF Of
  <2> QED
    BY <1>4, <2>1, SumEmpty, FS_EmptySet
<1>6. PICK x \in s : TRUE
  BY <1>5
<1> DEFINE r == s \ {x}
<1>7. r \in SUBSET S /\ r \subseteq s /\ r # s
  BY <1>3, <1>6
<1>8. r \notin Bad
  <2> HIDE DEF Bad, r
  <2> QED
    BY <1>2, <1>7
<1>9. IsFiniteSet(Of(r)) /\ SumFunctionOnSet(f, r) = SumFunctionOnSet(g, Of(r))
  BY <1>7, <1>8
<1>10. m[x] \in T /\ m[x] \notin Of(r) /\ Of(s) = Of(r) \cup {m[x]}
  BY <1>3, <1>6
<1>11. \A t \in T : g[t] \in Int
  OBVIOUS
<1>12. IsFiniteSet(Of(s))
  <2> HIDE DEF Of, r
  <2> QED
    BY <1>9, <1>10, FS_AddElement
<1>13. SumFunctionOnSet(g, Of(s)) = g[m[x]] + SumFunctionOnSet(g, Of(r))
  <2>1. Of(r) \subseteq T
    OBVIOUS
  <2> HIDE DEF Of, r
  <2>2. \A y \in Of(r) \cup {m[x]} : g[y] \in Int
    BY <2>1, <1>10, <1>11
  <2> QED
    BY <2>2, <1>9, <1>10, SumAdd
<1>14. SumFunctionOnSet(f, s) = f[x] + SumFunctionOnSet(f, r)
  <2>1. \A y \in s : f[y] \in Int
    BY <1>3
  <2> QED
    BY <2>1, <1>3, <1>6, SumRemove
<1>15. g[m[x]] = f[x]
  BY <1>3, <1>6
<1> HIDE DEF Of, r, Bad
<1> QED
  BY <1>4, <1>9, <1>12, <1>13, <1>14, <1>15

\* What k takes over a finite set is finite.
LEMMA ImageFinite ==
  ASSUME NEW k, NEW S, IsFiniteSet(S), NEW T, \A y \in T : \E x \in S : y = k[x]
  PROVE  IsFiniteSet(T)
<1> DEFINE Im(s) == {k[x] : x \in s}
<1> DEFINE Bad == {s \in SUBSET S : ~ IsFiniteSet(Im(s))}
<1>1. SUFFICES ASSUME Bad # {} PROVE FALSE
  <2>1. IsFiniteSet(Im(S)) /\ T \subseteq Im(S)
    BY <1>1
  <2> HIDE DEF Im
  <2> QED
    BY <2>1, FS_Subset
<1>2. PICK s \in Bad : \A t \in Bad : ~ (t \subseteq s /\ t # s)
  <2> Bad \subseteq SUBSET S
    OBVIOUS
  <2> HIDE DEF Bad
  <2> QED
    BY <1>1, LeastSubset
<1>3. s # {}
  <2>1. Im({}) = {}
    OBVIOUS
  <2> QED
    BY <2>1, <1>2, FS_EmptySet
<1>4. PICK x \in s : TRUE
  BY <1>3
<1>5. IsFiniteSet(Im(s \ {x}))
  BY <1>2, <1>4
<1>6. Im(s) = Im(s \ {x}) \cup {k[x]}
  BY <1>4
<1>7. ~ IsFiniteSet(Im(s))
  BY <1>2
<1> HIDE DEF Im, Bad
<1> QED
  BY <1>5, <1>6, <1>7, FS_AddElement

\* The sums over the parts of S that k tells apart, added, are the sum over those parts.
LEMMA SumParts ==
  ASSUME NEW f, NEW k, NEW g, NEW S, IsFiniteSet(S), \A x \in S : f[x] \in Int,
         NEW B, IsFiniteSet(B), NEW p,
         \A b \in B : /\ p[b] \in SUBSET S /\ g[b] = SumFunctionOnSet(f, p[b])
                     /\ \A x \in S : x \in p[b] <=> k[x] = b,
         NEW R \in SUBSET S, \A x \in S : x \in R <=> k[x] \in B
  PROVE  SumFunctionOnSet(g, B) = SumFunctionOnSet(f, R)
<1> DEFINE In(T) == {x \in S : k[x] \in T}
<1> DEFINE Bad == {T \in SUBSET B : SumFunctionOnSet(g, T) # SumFunctionOnSet(f, In(T))}
<1>1. ASSUME NEW Q \in SUBSET S
      PROVE  IsFiniteSet(Q) /\ SumFunctionOnSet(f, Q) \in Int
  <2>1. IsFiniteSet(Q) /\ \A x \in Q : f[x] \in Int
    BY FS_Subset
  <2> QED
    BY <2>1, SumInt
<1>2. \A b \in B : g[b] \in Int
  BY <1>1
<1>3. SUFFICES ASSUME Bad # {} PROVE FALSE
  <2>1. In(B) = R
    OBVIOUS
  <2> HIDE DEF In
  <2> QED
    BY <2>1
<1>4. PICK T \in Bad : \A U \in Bad : ~ (U \subseteq T /\ U # T)
  <2> Bad \subseteq SUBSET B
    OBVIOUS
  <2> HIDE DEF Bad
  <2> QED
    BY <1>3, LeastSubset
<1>5. T # {}
  <2>1. In({}) = {}
    OBVIOUS
  <2> HIDE DEF In
  <2> QED
    BY <2>1, SumEmpty
<1>6. PICK b \in T : TRUE
  BY <1>5
<1> DEFINE U == T \ {b}
<1>7. SumFunctionOnSet(g, U) = SumFunctionOnSet(f, In(U))
  <2>1. U \in SUBSET B /\ U \subseteq T /\ U # T
    BY <1>6
  <2>2. U \notin Bad
    BY <1>4, <2>1
  <2> QED
    BY <2>1, <2>2
<1>8. SumFunctionOnSet(g, T) = g[b] + SumFunctionOnSet(g, U)
  <2>1. IsFiniteSet(T) /\ \A c \in T : g[c] \in Int
    BY <1>2, FS_Subset
  <2> QED
    BY <1>6, <2>1, SumRemove
<1>9. SumFunctionOnSet(f, In(T)) = g[b] + SumFunctionOnSet(f, In(U))
  <2> DEFINE P == p[b]
  <2>1. P \in SUBSET In(T) /\ In(T) \ P = In(U) /\ In(T) \in SUBSET S
    BY <1>6
  <2>2. IsFiniteSet(In(T)) /\ \A x \in In(T) : f[x] \in Int
    BY <2>1, <1>1
  <2>3. g[b] = SumFunctionOnSet(f, P)
    BY <1>6
  <2> HIDE DEF In, P, U
  <2>4. SumFunctionOnSet(f, In(T)) = SumFunctionOnSet(f, P) + SumFunctionOnSet(f, In(T) \ P)
    BY ONLY <2>1, <2>2, SumSplit
  <2> QED
    BY <2>1, <2>3, <2>4
<1> HIDE DEF In, U
<1> QED
  BY <1>4, <1>7, <1>8, <1>9 DEF In

-----------------------------------------------------------------------------
\* A finite set of numbers has a greatest one.
LEMMA HasGreatest ==
  ASSUME NEW S, IsFiniteSet(S), S \subseteq Nat, S # {}
  PROVE  \E x \in S : \A y \in S : y <= x
<1> DEFINE Bad == {T \in SUBSET S : T # {} /\ ~ \E x \in T : \A y \in T : y <= x}
<1> SUFFICES ASSUME Bad # {} PROVE FALSE
  OBVIOUS
<1>1. PICK T \in Bad : \A t \in Bad : ~ (t \subseteq T /\ t # T)
  <2>1. Bad \subseteq SUBSET S
    OBVIOUS
  <2>2. IsFiniteSet(S) /\ Bad # {}
    OBVIOUS
  <2> HIDE DEF Bad
  <2> QED
    BY ONLY <2>1, <2>2, LeastSubset
<1>2. PICK y \in T : TRUE
  OBVIOUS
<1>3. PICK z \in T : ~ (z <= y)
  OBVIOUS
<1>4. T \ {y} \in SUBSET S /\ T \ {y} # T /\ z \in T \ {y} /\ y \in Nat /\ z \in Nat
  BY <1>3
<1>5. PICK x \in T \ {y} : \A w \in T \ {y} : w <= x
  BY <1>1, <1>4
<1>6. y < z /\ z <= x /\ x \in Nat
  BY <1>3, <1>4, <1>5
<1>7. \A w \in T : w <= x
  BY <1>4, <1>5, <1>6
<1> QED
  BY <1>7, <1>5

\* s lists the numbers of S in order.
Lists(s, S) ==
  /\ s \in [1..Cardinality(S) -> S]
  /\ \A i, j \in 1..Cardinality(S) : i < j => s[i] < s[j]
  /\ \A x \in S : \E i \in 1..Cardinality(S) : s[i] = x

\* A finite set of numbers can be listed in order: take the greatest out.
LEMMA CanBeListed ==
  ASSUME NEW S, IsFiniteSet(S), S \subseteq Nat
  PROVE  \E s : Lists(s, S)
<1> DEFINE Bad == {T \in SUBSET S : ~ \E s : Lists(s, T)}
<1> SUFFICES ASSUME Bad # {} PROVE FALSE
  OBVIOUS
<1>1. PICK T \in Bad : \A t \in Bad : ~ (t \subseteq T /\ t # T)
  <2>1. Bad \subseteq SUBSET S
    OBVIOUS
  <2>2. IsFiniteSet(S) /\ Bad # {}
    OBVIOUS
  <2> HIDE DEF Bad
  <2> QED
    BY ONLY <2>1, <2>2, LeastSubset
<1>2. IsFiniteSet(T) /\ T \subseteq Nat
  BY FS_Subset
<1>3. T # {}
  <2>1. Lists([i \in 1..0 |-> 0], {})
    BY FS_EmptySet DEF Lists
  <2> QED
    BY <2>1
<1>4. PICK x \in T : \A y \in T : y <= x
  BY <1>2, <1>3, HasGreatest
<1>5. /\ IsFiniteSet(T \ {x}) /\ Cardinality(T) \in Nat
      /\ Cardinality(T \ {x}) = Cardinality(T) - 1
  BY <1>2, FS_RemoveElement, FS_CardinalityType
<1>6. PICK s : Lists(s, T \ {x})
  BY <1>1
<1> DEFINE n == Cardinality(T)
<1>7. n \in Nat \ {0}
  BY <1>2, <1>3, <1>5, FS_EmptySet
<1>8. Lists([i \in 1..n |-> IF i = n THEN x ELSE s[i]], T)
  <2> HIDE DEF n
  <2>1. /\ s \in [1..n-1 -> T \ {x}]
        /\ \A i, j \in 1..n-1 : i < j => s[i] < s[j]
        /\ \A y \in T \ {x} : \E i \in 1..n-1 : s[i] = y
    BY <1>5, <1>6 DEF Lists, n
  <2>2. PICK f : f = [i \in 1..n |-> IF i = n THEN x ELSE s[i]]
    OBVIOUS
  <2>3. /\ f \in [1..n -> T] /\ f[n] = x
        /\ \A i \in 1..n-1 : i \in 1..n /\ f[i] = s[i]
    BY <1>7, <2>1, <2>2
  <2>4. ASSUME NEW i \in 1..n, NEW j \in 1..n, i < j PROVE f[i] < f[j]
    <3>1. i \in 1..n-1
      BY <1>7, <2>4
    <3>2. CASE j = n
      <4>1. s[i] \in T /\ s[i] # x
        BY <2>1, <3>1
      <4>2. s[i] \in Nat /\ x \in Nat /\ s[i] <= x
        BY <1>2, <1>4, <4>1
      <4> QED
        BY <2>3, <3>1, <3>2, <4>1, <4>2
    <3>3. CASE j # n
      BY <1>7, <2>1, <2>3, <2>4, <3>1, <3>3
    <3> QED
      BY <3>2, <3>3
  <2>5. ASSUME NEW y \in T PROVE \E i \in 1..n : f[i] = y
    BY <1>7, <2>1, <2>3
  <2>6. Lists(f, T)
    BY <2>3, <2>4, <2>5 DEF Lists, n
  <2> QED
    BY <2>2, <2>6
<1> QED
  BY <1>8

\* A list of as many numbers of S in order as S has leaves none out.
LEMMA AscendingLists ==
  ASSUME NEW S, IsFiniteSet(S), S \subseteq Nat,
         NEW t \in [1..Cardinality(S) -> S], \A i, j \in DOMAIN t : i < j => t[i] < t[j]
  PROVE  Lists(t, S)
<1> DEFINE n == Cardinality(S)
<1>1. n \in Nat
  BY FS_CardinalityType
<1>2. ASSUME NEW i \in 1..n, NEW j \in 1..n, t[i] = t[j] PROVE i = j
  <2>1. t[i] \in Nat /\ t[j] \in Nat
    OBVIOUS
  <2>2. ~ (i < j) /\ ~ (j < i)
    BY <1>2, <2>1
  <2> QED
    BY <1>1, <2>2
<1>3. t \in Injection(1..n, S)
  BY <1>2 DEF Injection, IsInjective
<1>4. Cardinality(1..n) = n
  BY <1>1, FS_Interval
<1>5. t \in Surjection(1..n, S)
  BY <1>3, <1>4, FS_Injection
<1> QED
  BY <1>5 DEF Lists, Surjection

\* No more different numbers than the set has room for.
LEMMA Pigeons ==
  ASSUME NEW T, IsFiniteSet(T), NEW n \in Nat, NEW f \in [1..n -> T],
         \A i, j \in 1..n : f[i] = f[j] => i = j
  PROVE  n <= Cardinality(T)
<1>1. f \in Injection(1..n, T)
  BY DEF Injection, IsInjective
<1>2. Cardinality(1..n) = n
  BY FS_Interval
<1>3. Cardinality(1..n) <= Cardinality(T)
  BY ONLY <1>1, IsFiniteSet(T), FS_Injection
<1> QED
  BY <1>2, <1>3

\* And n values fill at most n places.
LEMMA Holes ==
  ASSUME NEW n \in Nat, NEW f
  PROVE  /\ IsFiniteSet({f[i] : i \in 1..n})
         /\ Cardinality({f[i] : i \in 1..n}) <= n
<1> DEFINE T == {f[i] : i \in 1..n}
<1>1. [i \in 1..n |-> f[i]] \in Surjection(1..n, T)
  BY DEF Surjection
<1>2. IsFiniteSet(1..n) /\ Cardinality(1..n) = n
  BY FS_Interval
<1>3. IsFiniteSet(T) /\ Cardinality(T) <= Cardinality(1..n)
  <2> HIDE DEF T
  <2> QED
    BY ONLY <1>1, <1>2, FS_Surjection
<1> QED
  BY <1>2, <1>3
=============================================================================
