------------------------------ MODULE SumLemmas ------------------------------
(***************************************************************************)
(* Facts about SumFunctionOnSet, the sum of f[x] for x in a finite set S,  *)
(* which the exposures, the shares and the booked fills of the models are. *)
(*                                                                         *)
(* The operator is a fold that takes a chosen element off the set.  The    *)
(* library's induction theorems take an operator; here induction is over a *)
(* set of good subsets (SetInduction), from the well-foundedness of strict *)
(* inclusion on finite sets, so it needs no operator.                      *)
(***************************************************************************)
EXTENDS Integers, FiniteSets, Functions, FiniteSetTheorems,
        WellFoundedInduction, TLAPS

\* One round of the fold, the function that satisfies its equation on the subsets
\* of S, and the one TLC computes.
SumStep(f, g, s) == IF s = {} THEN 0 ELSE f[CHOOSE x \in s : TRUE] + g[s \ {CHOOSE x \in s : TRUE}]
SumEq(f, S, g) == g = [s \in SUBSET S |-> SumStep(f, g, s)]
SumFcn(f, S) == CHOOSE g : SumEq(f, S, g)

\* The operator is that function at S.
LEMMA SumIs == \A f, S : SumFunctionOnSet(f, S) = SumFcn(f, S)[S]
BY DEF SumFunctionOnSet, FoldFunctionOnSet, MapThenFoldSet, SumFcn, SumStep, SumEq

\* Induction over the subsets of a finite set.
LEMMA SetInduction ==
  ASSUME NEW S, IsFiniteSet(S), NEW Good,
         \A T \in SUBSET S : (\A x \in T : T \ {x} \in Good) => T \in Good
  PROVE  \A T \in SUBSET S : T \in Good
<1> DEFINE Bad == (SUBSET S) \ Good
<1>1. SUFFICES ASSUME Bad # {} PROVE FALSE
  OBVIOUS
<1>2. IsWellFoundedOn(StrictSubsetOrdering(S), SUBSET S)
  BY FS_StrictSubsetOrderingWellFounded, FS_FiniteSubsetsOfFinite
<1>3. Bad \subseteq SUBSET S
  OBVIOUS
<1> HIDE DEF Bad
<1>4. \E T \in Bad : \A U \in Bad : ~ (<<U, T>> \in StrictSubsetOrdering(S))
  BY <1>1, <1>2, <1>3, WFMin
<1>5. PICK T \in Bad : \A U \in Bad : ~ (<<U, T>> \in StrictSubsetOrdering(S))
  BY <1>4
<1>6. T \in SUBSET S /\ T \notin Good
  BY DEF Bad
<1>7. ASSUME NEW x \in T PROVE T \ {x} \in Good
  <2>1. T \ {x} \in SUBSET S
    BY <1>6
  <2>2. <<T \ {x}, T>> \in StrictSubsetOrdering(S)
    BY <1>6, <2>1 DEF StrictSubsetOrdering
  <2> QED BY <1>5, <2>1, <2>2 DEF Bad
<1> QED BY <1>6, <1>7

\* Two solutions agree wherever both are defined.
LEMMA SolUnique ==
  ASSUME NEW S, IsFiniteSet(S), NEW T, NEW U, S \subseteq T, S \subseteq U,
         NEW f, NEW g, NEW h, SumEq(f, T, g), SumEq(f, U, h)
  PROVE  g[S] = h[S]
<1> DEFINE Good == {V \in SUBSET S : g[V] = h[V]}
<1>1. ASSUME NEW V \in SUBSET S, \A x \in V : V \ {x} \in Good PROVE V \in Good
  <2>1. g[V] = SumStep(f, g, V) /\ h[V] = SumStep(f, h, V)
    <3>1. V \in SUBSET T /\ V \in SUBSET U
      OBVIOUS
    <3>2. \A W \in SUBSET T : g[W] = SumStep(f, g, W)
      BY DEF SumEq
    <3>3. \A W \in SUBSET U : h[W] = SumStep(f, h, W)
      BY DEF SumEq
    <3> QED BY <3>1, <3>2, <3>3
  <2>2. V # {} => (CHOOSE x \in V : TRUE) \in V
    OBVIOUS
  <2>3. SumStep(f, g, V) = SumStep(f, h, V)
    BY <1>1, <2>2 DEF SumStep
  <2> QED BY <2>1, <2>3
<1> HIDE DEF Good
<1>2. \A V \in SUBSET S : (\A x \in V : V \ {x} \in Good) => V \in Good
  BY <1>1
<1>3. \A V \in SUBSET S : V \in Good
  BY <1>2, SetInduction
<1> QED BY <1>3 DEF Good

\* The equation has a solution on the subsets of a finite set.
LEMMA SolExists ==
  ASSUME NEW S, IsFiniteSet(S), NEW f
  PROVE  SumEq(f, S, SumFcn(f, S))
<1> DEFINE Good == {T \in SUBSET S : SumEq(f, T, SumFcn(f, T))}
<1>1. ASSUME NEW T \in SUBSET S, \A x \in T : T \ {x} \in Good PROVE T \in Good
  <2> DEFINE c(s) == CHOOSE x \in s : TRUE
             g == [s \in SUBSET T |-> IF s = {} THEN 0
                     ELSE f[c(s)] + SumFcn(f, T \ {c(s)})[s \ {c(s)}]]
  <2>1. \A s \in SUBSET T : s # {} => c(s) \in s
    OBVIOUS
  <2>2. ASSUME NEW s \in SUBSET T PROVE g[s] = SumStep(f, g, s)
    <3>1. CASE s = {}
      BY <3>1 DEF SumStep
    <3>2. CASE s # {}
      <4> DEFINE x == c(s)
                 u == s \ {x}
      <4>1. x \in T /\ u \in SUBSET T /\ u \subseteq T \ {x}
        BY <2>1, <3>2
      <4>2. SumEq(f, T \ {x}, SumFcn(f, T \ {x}))
        BY <1>1, <4>1
      <4>3. SumFcn(f, T \ {x})[u] = SumStep(f, SumFcn(f, T \ {x}), u)
        <5> DEFINE k == SumFcn(f, T \ {x})
        <5>1. k = [s1 \in SUBSET (T \ {x}) |-> SumStep(f, k, s1)]
          BY <4>2 DEF SumEq
        <5> HIDE DEF k, x, u
        <5>2. k[u] = SumStep(f, k, u)
          BY <5>1, <4>1
        <5> QED BY <5>2 DEF k
      <4>4. g[u] = SumFcn(f, T \ {x})[u]
        <5>1. CASE u = {}
          BY <4>1, <4>3, <5>1 DEF SumStep
        <5>2. CASE u # {}
          <6> DEFINE y == c(u)
          <6>1. y \in T /\ y \in u
            BY <2>1, <4>1, <5>2
          <6>2. SumEq(f, T \ {y}, SumFcn(f, T \ {y}))
            BY <1>1, <6>1
          <6>3. u \ {y} \subseteq T \ {y} /\ u \ {y} \subseteq T \ {x}
            BY <4>1
          <6>4. IsFiniteSet(u \ {y})
            BY <4>1, FS_Subset
          <6> HIDE DEF x, u, y, g
          <6>5. SumFcn(f, T \ {y})[u \ {y}] = SumFcn(f, T \ {x})[u \ {y}]
            BY <4>2, <6>2, <6>3, <6>4, SolUnique
          <6>6. SumFcn(f, T \ {x})[u] = f[y] + SumFcn(f, T \ {x})[u \ {y}]
            BY <4>3, <5>2 DEF SumStep, y
          <6>7. g[u] = f[y] + SumFcn(f, T \ {y})[u \ {y}]
            BY <4>1, <5>2 DEF g, y
          <6> QED BY <6>5, <6>6, <6>7
        <5> QED BY <5>1, <5>2
      <4>5. g[s] = f[x] + SumFcn(f, T \ {x})[u]
        BY <3>2
      <4>6. SumStep(f, g, s) = f[x] + g[u]
        BY <3>2 DEF SumStep
      <4> QED BY <4>4, <4>5, <4>6
    <3> QED BY <3>1, <3>2
  <2>3. g = [s \in SUBSET T |-> g[s]]
    OBVIOUS
  <2> HIDE DEF g
  <2>4. SumEq(f, T, g)
    BY <2>2, <2>3 DEF SumEq
  <2> QED BY <2>4 DEF SumFcn
<1> HIDE DEF Good
<1>2. \A T \in SUBSET S : (\A x \in T : T \ {x} \in Good) => T \in Good
  BY <1>1
<1>3. \A T \in SUBSET S : T \in Good
  BY <1>2, SetInduction
<1> QED BY <1>3 DEF Good

\* The sum over no element.
LEMMA SumEmpty == \A f : SumFunctionOnSet(f, {}) = 0
<1> TAKE f
<1>1. SumEq(f, {}, SumFcn(f, {}))
  BY FS_EmptySet, SolExists
<1>2. SumFcn(f, {})[{}] = 0
  <2> DEFINE k == SumFcn(f, {})
  <2>1. k = [s \in SUBSET {} |-> SumStep(f, k, s)]
    BY <1>1 DEF SumEq
  <2> HIDE DEF k
  <2>2. k[{}] = SumStep(f, k, {})
    BY <2>1
  <2> QED BY <2>2 DEF k, SumStep
<1> QED BY <1>2, SumIs

\* The fold's own equation.
LEMMA SumChosen ==
  ASSUME NEW S, IsFiniteSet(S), S # {}, NEW f
  PROVE  SumFunctionOnSet(f, S) = f[CHOOSE x \in S : TRUE]
            + SumFunctionOnSet(f, S \ {CHOOSE x \in S : TRUE})
<1> DEFINE c == CHOOSE x \in S : TRUE
           k == SumFcn(f, S)
<1>1. k = [s \in SUBSET S |-> SumStep(f, k, s)]
  BY SolExists DEF SumEq
<1>2. IsFiniteSet(S \ {c}) /\ SumEq(f, S \ {c}, SumFcn(f, S \ {c}))
  BY FS_RemoveElement, SolExists
<1>3. SumEq(f, S, k)
  BY SolExists
<1> HIDE DEF k, c
<1>4. k[S] = f[c] + k[S \ {c}]
  BY <1>1 DEF SumStep, c
<1>5. k[S \ {c}] = SumFcn(f, S \ {c})[S \ {c}]
  BY <1>2, <1>3, SolUnique
<1> QED BY <1>4, <1>5, SumIs DEF k, c

\* A sum of integers is one, a sum of naturals is one.
LEMMA SumType ==
  ASSUME NEW S, IsFiniteSet(S), NEW f, NEW Ty, Ty \in {Int, Nat}, \A x \in S : f[x] \in Ty
  PROVE  SumFunctionOnSet(f, S) \in Ty
<1> DEFINE Good == {T \in SUBSET S : SumFunctionOnSet(f, T) \in Ty}
<1>1. ASSUME NEW T \in SUBSET S, \A x \in T : T \ {x} \in Good PROVE T \in Good
  <2>1. CASE T = {}
    BY <2>1, SumEmpty
  <2>2. CASE T # {}
    <3> DEFINE c == CHOOSE x \in T : TRUE
    <3>1. c \in T /\ IsFiniteSet(T)
      BY <2>2, FS_Subset
    <3>2. SumFunctionOnSet(f, T) = f[c] + SumFunctionOnSet(f, T \ {c})
      BY <2>2, <3>1, SumChosen
    <3> HIDE DEF c
    <3>3. f[c] \in Ty /\ SumFunctionOnSet(f, T \ {c}) \in Ty
      BY <1>1, <3>1
    <3> QED BY <3>2, <3>3
  <2> QED BY <2>1, <2>2
<1> HIDE DEF Good
<1>2. \A T \in SUBSET S : (\A x \in T : T \ {x} \in Good) => T \in Good
  BY <1>1
<1>3. \A T \in SUBSET S : T \in Good
  BY <1>2, SetInduction
<1> QED BY <1>3 DEF Good

\* Any element may be taken off, not only the chosen one.
LEMMA SumRemove ==
  ASSUME NEW S, IsFiniteSet(S), NEW f, \A x \in S : f[x] \in Int, NEW e \in S
  PROVE  SumFunctionOnSet(f, S) = f[e] + SumFunctionOnSet(f, S \ {e})
<1> DEFINE Good == {T \in SUBSET S : \A x \in T :
              SumFunctionOnSet(f, T) = f[x] + SumFunctionOnSet(f, T \ {x})}
<1>1. ASSUME NEW T \in SUBSET S, \A x \in T : T \ {x} \in Good PROVE T \in Good
  <2> SUFFICES ASSUME NEW x \in T
               PROVE SumFunctionOnSet(f, T) = f[x] + SumFunctionOnSet(f, T \ {x})
    OBVIOUS
  <2> DEFINE c == CHOOSE y \in T : TRUE
  <2>1. c \in T /\ IsFiniteSet(T)
    BY FS_Subset
  <2>2. SumFunctionOnSet(f, T) = f[c] + SumFunctionOnSet(f, T \ {c})
    BY <2>1, SumChosen
  <2> HIDE DEF c
  <2>3. CASE x = c
    BY <2>2, <2>3
  <2>4. CASE x # c
    <3>1. SumFunctionOnSet(f, T \ {c}) = f[x] + SumFunctionOnSet(f, (T \ {c}) \ {x})
      BY <1>1, <2>1, <2>4
    <3>2. SumFunctionOnSet(f, T \ {x}) = f[c] + SumFunctionOnSet(f, (T \ {x}) \ {c})
      BY <1>1, <2>1, <2>4
    <3>3. (T \ {c}) \ {x} = (T \ {x}) \ {c}
      OBVIOUS
    <3>4. SumFunctionOnSet(f, (T \ {x}) \ {c}) \in Int
      <4>1. IsFiniteSet((T \ {x}) \ {c})
        BY <2>1, FS_RemoveElement
      <4> QED BY <4>1, SumType
    <3>5. f[x] \in Int /\ f[c] \in Int
      BY <2>1
    <3>6. /\ SumFunctionOnSet(f, T) = f[c] + (f[x] + SumFunctionOnSet(f, (T \ {x}) \ {c}))
          /\ f[x] + SumFunctionOnSet(f, T \ {x})
               = f[x] + (f[c] + SumFunctionOnSet(f, (T \ {x}) \ {c}))
      BY <2>2, <3>1, <3>2, <3>3
    <3> QED BY <3>4, <3>5, <3>6
  <2> QED BY <2>3, <2>4
<1> HIDE DEF Good
<1>2. \A T \in SUBSET S : (\A x \in T : T \ {x} \in Good) => T \in Good
  BY <1>1
<1>3. \A T \in SUBSET S : T \in Good
  BY <1>2, SetInduction
<1> QED BY <1>3 DEF Good

\* An element is added.
LEMMA SumAdd ==
  ASSUME NEW S, IsFiniteSet(S), NEW f, NEW e, e \notin S, \A x \in S \cup {e} : f[x] \in Int
  PROVE  SumFunctionOnSet(f, S \cup {e}) = SumFunctionOnSet(f, S) + f[e]
<1>1. IsFiniteSet(S \cup {e})
  BY FS_AddElement
<1>2. (S \cup {e}) \ {e} = S
  OBVIOUS
<1>3. SumFunctionOnSet(f, S) \in Int /\ f[e] \in Int
  BY SumType
<1>4. e \in S \cup {e}
  OBVIOUS
<1>5. SumFunctionOnSet(f, S \cup {e}) = f[e] + SumFunctionOnSet(f, (S \cup {e}) \ {e})
  BY <1>1, <1>4, SumRemove
<1>6. SumFunctionOnSet(f, S \cup {e}) = f[e] + SumFunctionOnSet(f, S)
  BY <1>2, <1>5
<1> QED BY <1>3, <1>6

\* Only the values on S matter.
LEMMA SumEqual ==
  ASSUME NEW S, IsFiniteSet(S), NEW f, NEW g, \A x \in S : f[x] = g[x]
  PROVE  SumFunctionOnSet(f, S) = SumFunctionOnSet(g, S)
<1> DEFINE Good == {T \in SUBSET S : SumFunctionOnSet(f, T) = SumFunctionOnSet(g, T)}
<1>1. ASSUME NEW T \in SUBSET S, \A x \in T : T \ {x} \in Good PROVE T \in Good
  <2>1. CASE T = {}
    BY <2>1, SumEmpty
  <2>2. CASE T # {}
    <3> DEFINE c == CHOOSE x \in T : TRUE
    <3>1. c \in T /\ IsFiniteSet(T)
      BY <2>2, FS_Subset
    <3>2. SumFunctionOnSet(f, T) = f[c] + SumFunctionOnSet(f, T \ {c})
      BY <2>2, <3>1, SumChosen
    <3>3. SumFunctionOnSet(g, T) = g[c] + SumFunctionOnSet(g, T \ {c})
      BY <2>2, <3>1, SumChosen
    <3> HIDE DEF c
    <3>4. f[c] = g[c] /\ SumFunctionOnSet(f, T \ {c}) = SumFunctionOnSet(g, T \ {c})
      BY <1>1, <3>1
    <3> QED BY <3>2, <3>3, <3>4
  <2> QED BY <2>1, <2>2
<1> HIDE DEF Good
<1>2. \A T \in SUBSET S : (\A x \in T : T \ {x} \in Good) => T \in Good
  BY <1>1
<1>3. \A T \in SUBSET S : T \in Good
  BY <1>2, SetInduction
<1> QED BY <1>3 DEF Good

\* Sums are ordered as their terms are.
LEMMA SumLeq ==
  ASSUME NEW S, IsFiniteSet(S), NEW f, NEW g,
         \A x \in S : f[x] \in Int /\ g[x] \in Int /\ f[x] =< g[x]
  PROVE  SumFunctionOnSet(f, S) =< SumFunctionOnSet(g, S)
<1> DEFINE Good == {T \in SUBSET S : SumFunctionOnSet(f, T) =< SumFunctionOnSet(g, T)}
<1>1. ASSUME NEW T \in SUBSET S, \A x \in T : T \ {x} \in Good PROVE T \in Good
  <2>1. CASE T = {}
    BY <2>1, SumEmpty
  <2>2. CASE T # {}
    <3> DEFINE c == CHOOSE x \in T : TRUE
    <3>1. c \in T /\ IsFiniteSet(T) /\ IsFiniteSet(T \ {c})
      BY <2>2, FS_Subset
    <3>2. SumFunctionOnSet(f, T) = f[c] + SumFunctionOnSet(f, T \ {c})
      BY <2>2, <3>1, SumChosen
    <3>3. SumFunctionOnSet(g, T) = g[c] + SumFunctionOnSet(g, T \ {c})
      BY <2>2, <3>1, SumChosen
    <3> HIDE DEF c
    <3>4. f[c] =< g[c] /\ SumFunctionOnSet(f, T \ {c}) =< SumFunctionOnSet(g, T \ {c})
      BY <1>1, <3>1
    <3>5. SumFunctionOnSet(f, T \ {c}) \in Int /\ SumFunctionOnSet(g, T \ {c}) \in Int
      BY <3>1, SumType
    <3>6. f[c] \in Int /\ g[c] \in Int
      BY <3>1
    <3> QED BY <3>2, <3>3, <3>4, <3>5, <3>6
  <2> QED BY <2>1, <2>2
<1> HIDE DEF Good
<1>2. \A T \in SUBSET S : (\A x \in T : T \ {x} \in Good) => T \in Good
  BY <1>1
<1>3. \A T \in SUBSET S : T \in Good
  BY <1>2, SetInduction
<1> QED BY <1>3 DEF Good

\* Two disjoint sets add up.
LEMMA SumUnion ==
  ASSUME NEW S, IsFiniteSet(S), NEW R, IsFiniteSet(R), S \cap R = {}, NEW f,
         \A x \in S \cup R : f[x] \in Int
  PROVE  SumFunctionOnSet(f, S \cup R) = SumFunctionOnSet(f, S) + SumFunctionOnSet(f, R)
<1> DEFINE Good == {T \in SUBSET S :
     SumFunctionOnSet(f, T \cup R) = SumFunctionOnSet(f, T) + SumFunctionOnSet(f, R)}
<1>0. SumFunctionOnSet(f, R) \in Int
  BY SumType
<1>1. ASSUME NEW T \in SUBSET S, \A x \in T : T \ {x} \in Good PROVE T \in Good
  <2>1. CASE T = {}
    <3>1. T \cup R = R
      BY <2>1
    <3> QED BY <1>0, <2>1, <3>1, SumEmpty
  <2>2. CASE T # {}
    <3>1. PICK c \in T : TRUE
      BY <2>2
    <3>2. IsFiniteSet(T) /\ IsFiniteSet(T \ {c}) /\ IsFiniteSet(T \cup R)
      BY FS_Subset, FS_Union
    <3>3. (T \cup R) \ {c} = (T \ {c}) \cup R
      OBVIOUS
    <3>4. SumFunctionOnSet(f, T) = f[c] + SumFunctionOnSet(f, T \ {c})
      BY <3>2, SumRemove
    <3>5. SumFunctionOnSet(f, T \cup R) = f[c] + SumFunctionOnSet(f, (T \ {c}) \cup R)
      <4>1. \A x \in T \cup R : f[x] \in Int
        OBVIOUS
      <4>2. c \in T \cup R
        OBVIOUS
      <4>3. SumFunctionOnSet(f, T \cup R) = f[c] + SumFunctionOnSet(f, (T \cup R) \ {c})
        BY <3>2, <4>1, <4>2, SumRemove
      <4> QED BY <3>3, <4>3
    <3>6. SumFunctionOnSet(f, T \ {c}) \in Int /\ f[c] \in Int
      BY <3>2, SumType
    <3>7. SumFunctionOnSet(f, (T \ {c}) \cup R)
            = SumFunctionOnSet(f, T \ {c}) + SumFunctionOnSet(f, R)
      BY <1>1
    <3> QED BY <1>0, <3>4, <3>5, <3>6, <3>7
  <2> QED BY <2>1, <2>2
<1> HIDE DEF Good
<1>2. \A T \in SUBSET S : (\A x \in T : T \ {x} \in Good) => T \in Good
  BY <1>1
<1>3. \A T \in SUBSET S : T \in Good
  BY <1>2, SetInduction
<1> QED BY <1>3 DEF Good

\* More elements, no smaller a sum.
LEMMA SumSubset ==
  ASSUME NEW S, IsFiniteSet(S), NEW R \in SUBSET S, NEW f,
         \A x \in S : f[x] \in Nat
  PROVE  SumFunctionOnSet(f, R) =< SumFunctionOnSet(f, S)
<1>1. IsFiniteSet(R) /\ IsFiniteSet(S \ R)
  BY FS_Subset
<1>2. R \cup (S \ R) = S /\ R \cap (S \ R) = {}
  OBVIOUS
<1>3. /\ SumFunctionOnSet(f, R) \in Nat
      /\ SumFunctionOnSet(f, S \ R) \in Nat
  BY <1>1, SumType
<1>4. \A x \in R \cup (S \ R) : f[x] \in Int
  OBVIOUS
<1>5. SumFunctionOnSet(f, R \cup (S \ R))
        = SumFunctionOnSet(f, R) + SumFunctionOnSet(f, S \ R)
  BY <1>1, <1>2, <1>4, SumUnion
<1>6. SumFunctionOnSet(f, S)
        = SumFunctionOnSet(f, R) + SumFunctionOnSet(f, S \ R)
  BY <1>2, <1>5
<1> QED BY <1>3, <1>6

\* One term changes.
LEMMA SumChange ==
  ASSUME NEW S, IsFiniteSet(S), NEW f, NEW g, NEW e \in S,
         \A x \in S : f[x] \in Int /\ g[x] \in Int,
         \A x \in S \ {e} : f[x] = g[x]
  PROVE  SumFunctionOnSet(g, S) = SumFunctionOnSet(f, S) + (g[e] - f[e])
<1>1. IsFiniteSet(S \ {e})
  BY FS_RemoveElement
<1>2. SumFunctionOnSet(f, S) = f[e] + SumFunctionOnSet(f, S \ {e})
  BY SumRemove
<1>3. SumFunctionOnSet(g, S) = g[e] + SumFunctionOnSet(g, S \ {e})
  BY SumRemove
<1>4. SumFunctionOnSet(f, S \ {e}) = SumFunctionOnSet(g, S \ {e})
  BY <1>1, SumEqual
<1>5. SumFunctionOnSet(f, S \ {e}) \in Int
  BY <1>1, SumType
<1> QED BY <1>2, <1>3, <1>4, <1>5

\* No term exceeds the sum.
LEMMA SumTerm ==
  ASSUME NEW S, IsFiniteSet(S), NEW f, \A x \in S : f[x] \in Nat, NEW e \in S
  PROVE  f[e] =< SumFunctionOnSet(f, S)
<1>1. SumFunctionOnSet(f, S) = f[e] + SumFunctionOnSet(f, S \ {e})
  <2>1. \A x \in S : f[x] \in Int
    OBVIOUS
  <2> QED BY <2>1, SumRemove
<1>2. SumFunctionOnSet(f, S \ {e}) \in Nat
  <2>1. IsFiniteSet(S \ {e}) /\ \A x \in S \ {e} : f[x] \in Nat
    BY FS_RemoveElement
  <2> QED BY <2>1, SumType
<1> QED BY <1>1, <1>2

\* The sum of the sums of the groups is the sum over the elements grouped: G[c]
\* is group c, g[c] its sum, and R all the groups together.
LEMMA SumGroups ==
  ASSUME NEW S, IsFiniteSet(S), NEW f, \A x \in S : f[x] \in Nat,
         NEW C, IsFiniteSet(C), NEW G, NEW g, NEW R,
         \A c \in C : G[c] \in SUBSET S /\ g[c] = SumFunctionOnSet(f, G[c]),
         \A c, d \in C : c # d => G[c] \cap G[d] = {},
         R \in SUBSET S, \A x \in S : x \in R <=> \E c \in C : x \in G[c]
  PROVE  SumFunctionOnSet(g, C) = SumFunctionOnSet(f, R)
<1> DEFINE In(D) == {x \in S : \E c \in D : x \in G[c]}
           Good == {D \in SUBSET C : SumFunctionOnSet(g, D) = SumFunctionOnSet(f, In(D))}
<1>1. ASSUME NEW T \in SUBSET C, \A x \in T : T \ {x} \in Good PROVE T \in Good
  <2>1. CASE T = {}
    <3>1. In({}) = {}
      OBVIOUS
    <3>2. SumFunctionOnSet(g, T) = SumFunctionOnSet(f, In(T))
      BY <2>1, <3>1, SumEmpty
    <3> QED BY <3>2
  <2>2. CASE T # {}
    <3>1. PICK c \in T : TRUE
      BY <2>2
    <3> DEFINE One == G[c]
    <3>2. /\ In(T) = In(T \ {c}) \cup One
          /\ In(T \ {c}) \cap One = {}
      BY <3>1
    <3>3. IsFiniteSet(In(T \ {c})) /\ IsFiniteSet(One) /\ IsFiniteSet(T)
      BY FS_Subset
    <3>4. \A x \in In(T \ {c}) \cup One : f[x] \in Int
      OBVIOUS
    <3>5. SumFunctionOnSet(f, In(T \ {c}) \cup One)
            = SumFunctionOnSet(f, In(T \ {c})) + SumFunctionOnSet(f, One)
      BY <3>2, <3>3, <3>4, SumUnion
    <3>6. SumFunctionOnSet(f, In(T))
            = SumFunctionOnSet(f, In(T \ {c})) + SumFunctionOnSet(f, One)
      BY <3>2, <3>5
    <3>7. \A d \in T : g[d] \in Int
      <4> SUFFICES ASSUME NEW d \in T PROVE g[d] \in Int
        OBVIOUS
      <4>1. IsFiniteSet(G[d]) /\ \A x \in G[d] : f[x] \in Nat
        BY FS_Subset
      <4>2. SumFunctionOnSet(f, G[d]) \in Nat
        BY <4>1, SumType
      <4> QED BY <4>2
    <3>8. SumFunctionOnSet(g, T) = g[c] + SumFunctionOnSet(g, T \ {c})
      BY <3>1, <3>3, <3>7, SumRemove
    <3>9. SumFunctionOnSet(g, T \ {c}) = SumFunctionOnSet(f, In(T \ {c}))
      BY <1>1, <3>1
    <3>10. g[c] = SumFunctionOnSet(f, One)
      BY <3>1
    <3>11. /\ SumFunctionOnSet(f, In(T \ {c})) \in Nat
           /\ SumFunctionOnSet(f, One) \in Nat
      <4>1. \A x \in In(T \ {c}) : f[x] \in Nat
        OBVIOUS
      <4>2. \A x \in One : f[x] \in Nat
        OBVIOUS
      <4>3. SumFunctionOnSet(f, In(T \ {c})) \in Nat
        BY <3>3, <4>1, SumType
      <4> QED BY <3>3, <4>2, <4>3, SumType
    <3> HIDE DEF In, One
    <3>12. SumFunctionOnSet(g, T) = SumFunctionOnSet(f, In(T))
      BY <3>6, <3>8, <3>9, <3>10, <3>11
    <3> QED BY <3>12
  <2> QED BY <2>1, <2>2
<1> HIDE DEF Good
<1>2. \A T \in SUBSET C : (\A x \in T : T \ {x} \in Good) => T \in Good
  BY <1>1
<1>3. \A T \in SUBSET C : T \in Good
  BY <1>2, SetInduction
<1>4. SumFunctionOnSet(g, C) = SumFunctionOnSet(f, In(C))
  BY <1>3 DEF Good
<1>5. In(C) = R
  OBVIOUS
<1> QED BY <1>4, <1>5
=============================================================================
