-------------------------------- MODULE Sums --------------------------------
(***************************************************************************)
(* Sums over finite sets: what SumFunctionOnSet and SumFunction of module  *)
(* Functions compute.  They are defined by a recursion that takes the      *)
(* elements in an order of its own; the lemmas say that the order does not *)
(* matter and what one changed, added or removed element does to the sum.  *)
(*                                                                         *)
(* An induction over a finite set is stated by its smallest counterexample *)
(* (lemma Smallest), once for each fact.                                   *)
(***************************************************************************)
EXTENDS Functions, FiniteSetTheorems, WellFoundedInduction, TLAPS

\* The recursion of MapThenFoldSet, and the function it defines.
Chosen(S) == CHOOSE x \in S : TRUE

Folds(f, S, g) ==
    g = [U \in SUBSET S |-> IF U = {} THEN 0 ELSE f[Chosen(U)] + g[U \ {Chosen(U)}]]

Fold(f, S) == CHOOSE g : Folds(f, S, g)

\* A sum is the value of that function.
LEMMA SumIsFold ==
    ASSUME NEW f, NEW S
    PROVE  SumFunctionOnSet(f, S) = Fold(f, S)[S]
BY DEF SumFunctionOnSet, FoldFunctionOnSet, MapThenFoldSet, Fold, Folds, Chosen

\* Of subsets of a finite set, one has no other one inside it.
LEMMA Smallest ==
    ASSUME NEW S, IsFiniteSet(S), NEW T \in SUBSET SUBSET S, T # {}
    PROVE  \E U \in T : \A V \in T : V \subseteq U => V = U
<1>1. T \subseteq FiniteSubsetsOf(S)
  BY FS_Subset DEF FiniteSubsetsOf
<1>2. PICK U \in T : \A V \in T : <<V, U>> \notin StrictSubsetOrdering(S)
  BY <1>1, FS_StrictSubsetOrderingWellFounded, WFMin
<1>3. ASSUME NEW V \in T, V \subseteq U, V # U PROVE FALSE
  BY <1>2, <1>3 DEF StrictSubsetOrdering
<1> QED
  BY <1>3

-----------------------------------------------------------------------------
(* The recursion defines a function.                                       *)

\* Two solutions agree where both are defined.
LEMMA FoldsAgree ==
    ASSUME NEW f, NEW S, NEW T, NEW g, NEW h, Folds(f, S, g), Folds(f, T, h),
           NEW U \in SUBSET S, U \subseteq T, IsFiniteSet(U)
    PROVE  g[U] = h[U]
<1> DEFINE Bad == {V \in SUBSET U : g[V] # h[V]}
<1> SUFFICES ASSUME Bad # {} PROVE FALSE
  OBVIOUS
<1>1. PICK V \in Bad : \A W \in Bad : W \subseteq V => W = V
  <2>1. Bad \in SUBSET SUBSET U
    OBVIOUS
  <2> HIDE DEF Bad
  <2> QED
    BY <2>1, Smallest
<1>2. /\ g[V] = IF V = {} THEN 0 ELSE f[Chosen(V)] + g[V \ {Chosen(V)}]
      /\ h[V] = IF V = {} THEN 0 ELSE f[Chosen(V)] + h[V \ {Chosen(V)}]
  BY DEF Folds
<1>3. V # {} => Chosen(V) \in V
  BY DEF Chosen
<1>4. V # {} => g[V \ {Chosen(V)}] = h[V \ {Chosen(V)}]
  BY <1>1, <1>3
<1> QED
  BY <1>2, <1>4

\* Over a finite set there is a solution.
LEMMA FoldsExist ==
    ASSUME NEW f, NEW S, IsFiniteSet(S)
    PROVE  Folds(f, S, Fold(f, S))
<1> DEFINE Bad == {T \in SUBSET S : \A g : ~ Folds(f, T, g)}
<1>1. CASE Bad = {}
  <2>1. \E g : Folds(f, S, g)
    BY <1>1
  <2> QED
    BY <2>1 DEF Fold
<1>2. CASE Bad # {}
  <2>1. PICK T \in Bad : \A U \in Bad : U \subseteq T => U = T
    <3>1. Bad \in SUBSET SUBSET S
      OBVIOUS
    <3> HIDE DEF Bad
    <3> QED
      BY <1>2, <3>1, Smallest
  <2> DEFINE rest(U) == U \ {Chosen(U)}
             val(U) == IF U = {} THEN 0 ELSE f[Chosen(U)] + Fold(f, rest(U))[rest(U)]
             g == [U \in SUBSET T |-> val(U)]
  <2>2. \A U \in SUBSET T : U # {} => rest(U) \in SUBSET T /\ rest(U) # T /\ rest(U) \subseteq U
    <3> SUFFICES ASSUME NEW U \in SUBSET T, U # {}
                 PROVE  rest(U) \in SUBSET T /\ rest(U) # T /\ rest(U) \subseteq U
      OBVIOUS
    <3>1. Chosen(U) \in U
      BY DEF Chosen
    <3> QED
      BY <3>1
  <2>3. \A V \in SUBSET T : V # T => Folds(f, V, Fold(f, V))
    BY <2>1 DEF Fold
  <2>4. ASSUME NEW U \in SUBSET T, U # {}
        PROVE  g[rest(U)] = Fold(f, rest(U))[rest(U)]
    <3> DEFINE V == rest(U)
    <3>1. V \in SUBSET T /\ V # T /\ IsFiniteSet(V)
      BY <2>2, <2>4, FS_Subset
    <3>2. Folds(f, V, Fold(f, V))
      BY <2>3, <3>1
    <3>3. V # {} => rest(V) \in SUBSET T /\ rest(V) # T /\ rest(V) \subseteq V /\ IsFiniteSet(rest(V))
      BY <2>2, <3>1, FS_Subset
    <3>4. V # {} => Folds(f, rest(V), Fold(f, rest(V)))
      BY <2>3, <3>3
    <3>5. V # {} => Fold(f, V)[rest(V)] = Fold(f, rest(V))[rest(V)]
      BY <3>2, <3>3, <3>4, FoldsAgree
    <3>6. Fold(f, V)[V] = IF V = {} THEN 0 ELSE f[Chosen(V)] + Fold(f, V)[rest(V)]
      BY <3>2 DEF Folds
    <3>7. g[V] = val(V)
      BY <3>1
    <3> QED
      BY <3>5, <3>6, <3>7
  <2>5. Folds(f, T, g)
    BY <2>4 DEF Folds
  <2> QED
    BY <2>5
<1> QED
  BY <1>1, <1>2

-----------------------------------------------------------------------------
(* What a sum is.                                                          *)

\* Nothing adds up to nothing.
LEMMA SumEmpty ==
    ASSUME NEW f
    PROVE  SumFunctionOnSet(f, {}) = 0
<1>1. Folds(f, {}, Fold(f, {}))
  BY FS_EmptySet, FoldsExist
<1> QED
  BY <1>1, SumIsFold DEF Folds

\* The recursion, stated of sums.
LEMMA SumChosen ==
    ASSUME NEW f, NEW S, IsFiniteSet(S), S # {}
    PROVE  /\ Chosen(S) \in S
           /\ SumFunctionOnSet(f, S) = f[Chosen(S)] + SumFunctionOnSet(f, S \ {Chosen(S)})
<1> DEFINE T == S \ {Chosen(S)}
<1>1. Chosen(S) \in S
  BY DEF Chosen
<1>2. IsFiniteSet(T)
  BY FS_Subset
<1>3. Folds(f, S, Fold(f, S)) /\ Folds(f, T, Fold(f, T))
  BY <1>2, FoldsExist
<1>4. Fold(f, S)[T] = Fold(f, T)[T]
  BY <1>2, <1>3, FoldsAgree
<1>5. Fold(f, S)[S] = f[Chosen(S)] + Fold(f, S)[T]
  BY <1>3 DEF Folds
<1> QED
  BY <1>1, <1>4, <1>5, SumIsFold

\* A sum of integers is one, and of natural numbers a natural number.
LEMMA SumType ==
    ASSUME NEW N \in {Int, Nat}, NEW f, NEW S, IsFiniteSet(S), \A x \in S : f[x] \in N
    PROVE  SumFunctionOnSet(f, S) \in N
<1> DEFINE Bad == {T \in SUBSET S : SumFunctionOnSet(f, T) \notin N}
<1> SUFFICES ASSUME Bad # {} PROVE FALSE
  OBVIOUS
<1>1. PICK T \in Bad : \A U \in Bad : U \subseteq T => U = T
  <2>1. Bad \in SUBSET SUBSET S
    OBVIOUS
  <2> HIDE DEF Bad
  <2> QED
    BY <2>1, Smallest
<1>2. CASE T = {}
  BY <1>2, SumEmpty
<1>3. CASE T # {}
  <2> DEFINE U == T \ {Chosen(T)}
  <2>1. Chosen(T) \in T /\ SumFunctionOnSet(f, T) = f[Chosen(T)] + SumFunctionOnSet(f, U)
    BY <1>3, SumChosen, FS_Subset
  <2>2. SumFunctionOnSet(f, U) \in N
    BY <1>1, <2>1
  <2> HIDE DEF U
  <2>3. f[Chosen(T)] \in N
    BY <2>1
  <2>4. SumFunctionOnSet(f, T) \in N
    BY <2>1, <2>2, <2>3
  <2> QED
    BY <2>4
<1> QED
  BY <1>2, <1>3

\* The order does not matter: any element may be taken out.
LEMMA SumRemove ==
    ASSUME NEW f, NEW S, IsFiniteSet(S), \A x \in S : f[x] \in Int, NEW x \in S
    PROVE  SumFunctionOnSet(f, S) = f[x] + SumFunctionOnSet(f, S \ {x})
<1> DEFINE Sum(T) == SumFunctionOnSet(f, T)
           Bad == {T \in SUBSET S : \E y \in T : Sum(T) # f[y] + Sum(T \ {y})}
<1> SUFFICES ASSUME Bad # {} PROVE FALSE
  OBVIOUS
<1>1. PICK T \in Bad : \A U \in Bad : U \subseteq T => U = T
  <2>1. Bad \in SUBSET SUBSET S
    OBVIOUS
  <2> HIDE DEF Bad
  <2> QED
    BY <2>1, Smallest
<1>2. PICK y \in T : Sum(T) # f[y] + Sum(T \ {y})
  OBVIOUS
<1> DEFINE c == Chosen(T)
           U == T \ {c}
           V == T \ {y}
           W == T \ {c, y}
<1>3. c \in T /\ Sum(T) = f[c] + Sum(U)
  BY SumChosen, FS_Subset
<1>4. c # y
  BY <1>2, <1>3
<1>5. U \in SUBSET S /\ V \in SUBSET S /\ U # T /\ V # T /\ y \in U /\ c \in V
  BY <1>3, <1>4
<1>6. Sum(U) = f[y] + Sum(W)
  <2>1. U \ {y} = W
    OBVIOUS
  <2>2. U \notin Bad
    BY <1>1, <1>5
  <2> QED
    BY <1>5, <2>1, <2>2
<1>7. Sum(V) = f[c] + Sum(W)
  <2>1. V \ {c} = W
    OBVIOUS
  <2>2. V \notin Bad
    BY <1>1, <1>5
  <2> QED
    BY <1>5, <2>1, <2>2
<1>8. f[c] \in Int /\ f[y] \in Int /\ Sum(W) \in Int
  BY <1>3, SumType, FS_Subset
<1> HIDE DEF Sum
<1> QED
  BY <1>2, <1>3, <1>6, <1>7, <1>8

\* A sum depends on what is added up, not on where else a function is defined.
LEMMA SumEqual ==
    ASSUME NEW f, NEW g, NEW S, IsFiniteSet(S), \A x \in S : f[x] = g[x]
    PROVE  SumFunctionOnSet(f, S) = SumFunctionOnSet(g, S)
<1> DEFINE Bad == {T \in SUBSET S : SumFunctionOnSet(f, T) # SumFunctionOnSet(g, T)}
<1> SUFFICES ASSUME Bad # {} PROVE FALSE
  OBVIOUS
<1>1. PICK T \in Bad : \A U \in Bad : U \subseteq T => U = T
  <2>1. Bad \in SUBSET SUBSET S
    OBVIOUS
  <2> HIDE DEF Bad
  <2> QED
    BY <2>1, Smallest
<1>2. CASE T = {}
  BY <1>2, SumEmpty
<1>3. CASE T # {}
  <2> DEFINE U == T \ {Chosen(T)}
  <2>1. /\ Chosen(T) \in T
        /\ SumFunctionOnSet(f, T) = f[Chosen(T)] + SumFunctionOnSet(f, U)
        /\ SumFunctionOnSet(g, T) = g[Chosen(T)] + SumFunctionOnSet(g, U)
    BY <1>3, SumChosen, FS_Subset
  <2>2. SumFunctionOnSet(f, U) = SumFunctionOnSet(g, U)
    BY <1>1, <2>1
  <2>3. f[Chosen(T)] = g[Chosen(T)]
    BY <2>1
  <2> QED
    BY <2>1, <2>2, <2>3
<1> QED
  BY <1>2, <1>3

-----------------------------------------------------------------------------
(* Sums of functions, as the models use them.                              *)

\* A sum of integers is one, and of natural numbers a natural number.
LEMMA SumFunctionType ==
    ASSUME NEW N \in {Int, Nat}, NEW D, IsFiniteSet(D), NEW f \in [D -> N]
    PROVE  SumFunction(f) \in N
BY SumType DEF SumFunction

\* Nothing but zeros, or nothing at all, adds up to zero.
LEMMA SumZero ==
    ASSUME NEW D, IsFiniteSet(D), NEW f, DOMAIN f = D, \A x \in D : f[x] = 0
    PROVE  SumFunction(f) = 0
<1> DEFINE Bad == {T \in SUBSET D : SumFunctionOnSet(f, T) # 0}
<1> SUFFICES ASSUME Bad # {} PROVE FALSE
  BY DEF SumFunction
<1>1. PICK T \in Bad : \A U \in Bad : U \subseteq T => U = T
  <2>1. Bad \in SUBSET SUBSET D
    OBVIOUS
  <2> HIDE DEF Bad
  <2> QED
    BY <2>1, Smallest
<1>2. CASE T = {}
  BY <1>2, SumEmpty
<1>3. CASE T # {}
  <2>1. Chosen(T) \in T /\ SumFunctionOnSet(f, T) = f[Chosen(T)] + SumFunctionOnSet(f, T \ {Chosen(T)})
    BY <1>3, SumChosen, FS_Subset
  <2>2. SumFunctionOnSet(f, T \ {Chosen(T)}) = 0
    BY <1>1, <2>1
  <2>3. f[Chosen(T)] = 0
    BY <2>1
  <2> QED
    BY <2>1, <2>2, <2>3
<1> QED
  BY <1>2, <1>3

\* What one summand contributes.
At(f, x) == IF x \in DOMAIN f THEN f[x] ELSE 0

\* A function with finitely many integers to add up.
Summable(f) == IsFiniteSet(DOMAIN f) /\ \A x \in DOMAIN f : f[x] \in Int

\* A sum is one contribution and the rest.
LEMMA SumAt ==
    ASSUME NEW f, NEW x, Summable(f)
    PROVE  /\ SumFunction(f) = At(f, x) + SumFunctionOnSet(f, DOMAIN f \ {x})
           /\ At(f, x) \in Int /\ SumFunctionOnSet(f, DOMAIN f \ {x}) \in Int
<1> DEFINE D == DOMAIN f
<1>1. IsFiniteSet(D) /\ \A y \in D : f[y] \in Int
  BY DEF Summable
<1>2. At(f, x) \in Int
  BY <1>1 DEF At
<1>3. IsFiniteSet(D \ {x}) /\ \A y \in D \ {x} : f[y] \in Int
  BY <1>1, FS_Subset
<1>4. SumFunctionOnSet(f, D \ {x}) \in Int
  BY <1>3, SumType
<1>5. CASE x \in D
  BY <1>1, <1>2, <1>4, <1>5, SumRemove DEF SumFunction, At
<1>6. CASE x \notin D
  <2>1. D \ {x} = D /\ At(f, x) = 0
    BY <1>6 DEF At
  <2> QED
    BY <1>2, <1>4, <2>1 DEF SumFunction
<1> QED
  BY <1>2, <1>4, <1>5, <1>6

\* Two functions that differ at x alone, where either may be undefined.
AgreeOff(f, g, x) ==
    /\ DOMAIN f \ {x} = DOMAIN g \ {x}
    /\ \A y \in DOMAIN f \ {x} : f[y] = g[y]

\* Their sums differ by what x contributes.
LEMMA SumStep ==
    ASSUME NEW f, NEW g, NEW x, Summable(f), Summable(g), AgreeOff(f, g, x)
    PROVE  SumFunction(g) = SumFunction(f) - At(f, x) + At(g, x)
<1> DEFINE R == DOMAIN f \ {x}
<1>1. R = DOMAIN g \ {x} /\ \A y \in R : f[y] = g[y]
  BY DEF AgreeOff
<1>2. IsFiniteSet(R)
  BY FS_Subset DEF Summable
<1>3. SumFunctionOnSet(f, R) = SumFunctionOnSet(g, R)
  BY <1>1, <1>2, SumEqual
<1>4. /\ SumFunction(f) = At(f, x) + SumFunctionOnSet(f, R)
      /\ SumFunction(g) = At(g, x) + SumFunctionOnSet(g, R)
      /\ At(f, x) \in Int /\ At(g, x) \in Int /\ SumFunctionOnSet(f, R) \in Int
  <2>1. /\ SumFunction(f) = At(f, x) + SumFunctionOnSet(f, DOMAIN f \ {x})
        /\ At(f, x) \in Int /\ SumFunctionOnSet(f, DOMAIN f \ {x}) \in Int
    BY SumAt
  <2>2. /\ SumFunction(g) = At(g, x) + SumFunctionOnSet(g, DOMAIN g \ {x})
        /\ At(g, x) \in Int
    BY SumAt
  <2> QED
    BY <1>1, <2>1, <2>2
<1> HIDE DEF R
<1> QED
  BY <1>3, <1>4

\* One natural summand is at most the sum.
LEMMA SumBounds ==
    ASSUME NEW D, IsFiniteSet(D), NEW f \in [D -> Nat], NEW x \in D
    PROVE  f[x] <= SumFunction(f)
<1>1. SumFunction(f) = f[x] + SumFunctionOnSet(f, D \ {x})
  BY SumRemove DEF SumFunction
<1>2. SumFunctionOnSet(f, D \ {x}) \in Nat
  BY SumType, FS_Subset
<1> QED
  BY <1>1, <1>2
=============================================================================
