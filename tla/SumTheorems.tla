---------------------------- MODULE SumTheorems ----------------------------
(***************************************************************************)
(* Facts about SumFunctionOnSet of the community module Functions: the     *)
(* sum of f[x] for x in a finite set.  The balances and stake weights of   *)
(* the staking program are sums over wallets, and these lemmas let their   *)
(* conservation laws be proved for every finite set of wallets.            *)
(*                                                                         *)
(* The library's induction theorems take an operator argument, so the      *)
(* proofs below go by minimal counterexample over the (well-founded)       *)
(* subsets of a finite set instead.                                        *)
(***************************************************************************)
EXTENDS Integers, Functions, FiniteSets, FiniteSetTheorems,
        WellFoundedInduction, TLAPS

-----------------------------------------------------------------------------
(* The recursion that SumFunctionOnSet unfolds to.                         *)

Chosen(s) == CHOOSE x \in s : TRUE

Unfold(h, f, s) == IF s = {} THEN 0 ELSE f[Chosen(s)] + h[s \ {Chosen(s)}]

IsIter(h, f, S) == h = [s \in SUBSET S |-> Unfold(h, f, s)]

(* Every non-empty family of subsets of a finite set has a minimal member. *)
LEMMA MinimalSubset ==
  ASSUME NEW S, IsFiniteSet(S), NEW F \in SUBSET SUBSET S, F # {}
  PROVE  \E T \in F : \A U \in F : U \subseteq T => U = T
<1>1. IsWellFoundedOn(StrictSubsetOrdering(S), SUBSET S)
  BY FS_StrictSubsetOrderingWellFounded, FS_FiniteSubsetsOfFinite
<1>2. PICK T \in F : \A U \in F : <<U, T>> \notin StrictSubsetOrdering(S)
  BY <1>1, WFMin
<1>3. QED
  BY <1>2 DEF StrictSubsetOrdering

(* Two iterations agree wherever both are defined.                         *)
LEMMA IterAgree ==
  ASSUME NEW S, IsFiniteSet(S), NEW f, NEW g, NEW h,
         NEW A \in SUBSET S, NEW B \in SUBSET S,
         IsIter(g, f, A), IsIter(h, f, B)
  PROVE  \A U \in SUBSET (A \cap B) : g[U] = h[U]
<1> DEFINE F == {U \in SUBSET (A \cap B) : g[U] # h[U]}
<1>1. SUFFICES ASSUME F # {} PROVE FALSE
  OBVIOUS
<1>2. F \in SUBSET SUBSET S
  OBVIOUS
<1> HIDE DEF F
<1>3. PICK T \in F : \A U \in F : U \subseteq T => U = T
  BY <1>1, <1>2, MinimalSubset
<1>4. T \in SUBSET (A \cap B) /\ g[T] # h[T]
  BY <1>3 DEF F
<1>5. g[T] = Unfold(g, f, T) /\ h[T] = Unfold(h, f, T)
  BY <1>4 DEF IsIter
<1>6. T # {}
  BY <1>4, <1>5 DEF Unfold
<1>7. Chosen(T) \in T
  BY <1>6 DEF Chosen
<1>8. g[T \ {Chosen(T)}] = h[T \ {Chosen(T)}]
  <2>1. T \ {Chosen(T)} \notin F
    BY <1>3, <1>7
  <2>2. QED
    BY <2>1, <1>4 DEF F
<1>9. QED
  BY <1>4, <1>5, <1>6, <1>8 DEF Unfold

(* The recursion has a solution on every finite set.                       *)
LEMMA IterExists ==
  ASSUME NEW S, IsFiniteSet(S), NEW f
  PROVE  \E h : IsIter(h, f, S)
<1> DEFINE F == {U \in SUBSET S : ~ \E h : IsIter(h, f, U)}
<1>1. SUFFICES ASSUME F # {} PROVE FALSE
  OBVIOUS
<1>2. F \in SUBSET SUBSET S
  OBVIOUS
<1> HIDE DEF F
<1>3. PICK T \in F : \A U \in F : U \subseteq T => U = T
  BY <1>1, <1>2, MinimalSubset
<1>4. T \in SUBSET S /\ ~ \E h : IsIter(h, f, T)
  BY <1>3 DEF F
<1> DEFINE H(x) == CHOOSE h : IsIter(h, f, T \ {x})
           Out(U) == CHOOSE x \in T : x \notin U
           k == [U \in SUBSET T |->
                   IF U = T THEN IF T = {} THEN 0
                                 ELSE f[Chosen(T)] + H(Chosen(T))[T \ {Chosen(T)}]
                   ELSE H(Out(U))[U]]
<1>5. \A x \in T : IsIter(H(x), f, T \ {x})
  <2>1. TAKE x \in T
  <2>2. T \ {x} \notin F
    BY <1>3
  <2>3. \E h : IsIter(h, f, T \ {x})
    BY <2>2, <1>4 DEF F
  <2>4. QED
    BY <2>3
<1>6. \A U \in SUBSET T : U # T => Out(U) \in T /\ Out(U) \notin U
  OBVIOUS
<1> HIDE DEF H, Out
<1>7. \A x, y \in T : \A U \in SUBSET T :
         x \notin U /\ y \notin U => H(x)[U] = H(y)[U]
  <2>1. TAKE x, y \in T
  <2>2. TAKE U \in SUBSET T
  <2>3. HAVE x \notin U /\ y \notin U
  <2>4. U \in SUBSET ((T \ {x}) \cap (T \ {y}))
    BY <2>3
  <2>5. IsIter(H(x), f, T \ {x}) /\ IsIter(H(y), f, T \ {y})
    BY <1>5
  <2>6. T \ {x} \in SUBSET S /\ T \ {y} \in SUBSET S
    BY <1>4
  <2>7. QED
    BY <2>4, <2>5, <2>6, IterAgree
<1>8. ASSUME NEW U \in SUBSET T PROVE k[U] = Unfold(k, f, U)
  <2>1. CASE U = {}
    <3>1. CASE T = {}
      BY <2>1, <3>1 DEF Unfold
    <3>2. CASE T # {}
      <4>1. Out(U) \in T /\ k[U] = H(Out(U))[U]
        BY <2>1, <3>2, <1>6
      <4>2. H(Out(U))[U] = Unfold(H(Out(U)), f, U)
        BY <4>1, <1>5, <2>1 DEF IsIter
      <4>3. QED
        BY <4>1, <4>2, <2>1 DEF Unfold
    <3>3. QED
      BY <3>1, <3>2
  <2>2. CASE U = T /\ U # {}
    <3>1. Chosen(T) \in T
      BY <2>2 DEF Chosen
    <3> DEFINE V == T \ {Chosen(T)}
    <3>2. V \in SUBSET T /\ V # T
      BY <3>1
    <3>3. k[V] = H(Out(V))[V] /\ Out(V) = Chosen(T)
      BY <3>1, <3>2, <1>6
    <3>4. QED
      BY <2>2, <3>3 DEF Unfold
  <2>3. CASE U # T /\ U # {}
    <3>1. Chosen(U) \in U
      BY <2>3 DEF Chosen
    <3> DEFINE V == U \ {Chosen(U)}
    <3>2. Out(U) \in T /\ Out(U) \notin U
      BY <2>3, <1>6
    <3>3. V \in SUBSET T /\ V # T
      BY <3>1
    <3>4. Out(V) \in T /\ Out(V) \notin V /\ k[V] = H(Out(V))[V]
      BY <3>3, <1>6
    <3>5. H(Out(V))[V] = H(Out(U))[V]
      BY <3>2, <3>3, <3>4, <1>7
    <3>6. k[U] = H(Out(U))[U]
      BY <2>3
    <3>7. H(Out(U))[U] = Unfold(H(Out(U)), f, U)
      <4>1. U \in SUBSET (T \ {Out(U)})
        BY <3>2
      <4>2. QED
        BY <4>1, <3>2, <1>5 DEF IsIter
    <3>8. QED
      BY <2>3, <3>4, <3>5, <3>6, <3>7 DEF Unfold
  <2>4. QED
    BY <2>1, <2>2, <2>3
<1>9. IsIter(k, f, T)
  <2>1. k = [U \in SUBSET T |-> k[U]]
    OBVIOUS
  <2> HIDE DEF k
  <2>2. QED
    BY <2>1, <1>8 DEF IsIter
<1>10. QED
  BY <1>4, <1>9

-----------------------------------------------------------------------------
(* What SumFunctionOnSet computes.                                         *)

LEMMA SumIsIter ==
  ASSUME NEW S, IsFiniteSet(S), NEW f
  PROVE  \E h : IsIter(h, f, S) /\ SumFunctionOnSet(f, S) = h[S]
<1> DEFINE h == CHOOSE iter : iter = [s \in SUBSET S |->
                  IF s = {} THEN 0
                  ELSE LET x == CHOOSE x \in s : TRUE IN f[x] + iter[s \ {x}]]
<1>1. SumFunctionOnSet(f, S) = h[S]
  BY DEF SumFunctionOnSet, FoldFunctionOnSet, MapThenFoldSet
<1>2. \E iter : iter = [s \in SUBSET S |->
                  IF s = {} THEN 0
                  ELSE LET x == CHOOSE x \in s : TRUE IN f[x] + iter[s \ {x}]]
  <2>1. PICK k : IsIter(k, f, S)
    BY IterExists
  <2>2. k = [s \in SUBSET S |->
               IF s = {} THEN 0
               ELSE LET x == CHOOSE x \in s : TRUE IN f[x] + k[s \ {x}]]
    BY <2>1 DEF IsIter, Unfold, Chosen
  <2>3. QED
    BY <2>2
<1>3. IsIter(h, f, S)
  BY <1>2 DEF IsIter, Unfold, Chosen
<1>4. QED
  BY <1>1, <1>3

(* The sum of nothing is zero.                                             *)
THEOREM SumEmpty ==
  ASSUME NEW f PROVE SumFunctionOnSet(f, {}) = 0
<1>1. IsFiniteSet({})
  BY FS_EmptySet
<1>2. PICK h : IsIter(h, f, {}) /\ SumFunctionOnSet(f, {}) = h[{}]
  BY <1>1, SumIsIter
<1>3. QED
  BY <1>2 DEF IsIter, Unfold

(* The sum over a non-empty set, one element taken off.                    *)
LEMMA SumChosen ==
  ASSUME NEW S, IsFiniteSet(S), S # {}, NEW f
  PROVE  SumFunctionOnSet(f, S)
           = f[Chosen(S)] + SumFunctionOnSet(f, S \ {Chosen(S)})
<1> DEFINE R == S \ {Chosen(S)}
<1>1. IsFiniteSet(R) /\ R \in SUBSET S /\ Chosen(S) \in S
  BY FS_Subset DEF Chosen
<1>2. PICK h : IsIter(h, f, S) /\ SumFunctionOnSet(f, S) = h[S]
  BY SumIsIter
<1>3. PICK g : IsIter(g, f, R) /\ SumFunctionOnSet(f, R) = g[R]
  BY <1>1, SumIsIter
<1>4. g[R] = h[R]
  <2>1. S \in SUBSET S /\ R \in SUBSET (R \cap S)
    BY <1>1
  <2>2. \A U \in SUBSET (R \cap S) : g[U] = h[U]
    BY <1>1, <1>2, <1>3, IterAgree
  <2>3. QED
    BY <2>1, <2>2
<1>5. h[S] = f[Chosen(S)] + h[R]
  BY <1>2 DEF IsIter, Unfold
<1>6. QED
  BY <1>2, <1>3, <1>4, <1>5

(* A sum of integers is an integer.                                        *)
THEOREM SumType ==
  ASSUME NEW S, IsFiniteSet(S), NEW f, \A x \in S : f[x] \in Int
  PROVE  SumFunctionOnSet(f, S) \in Int
<1> DEFINE F == {U \in SUBSET S : SumFunctionOnSet(f, U) \notin Int}
<1>1. SUFFICES ASSUME F # {} PROVE FALSE
  OBVIOUS
<1>2. F \in SUBSET SUBSET S
  OBVIOUS
<1> HIDE DEF F
<1>3. PICK T \in F : \A U \in F : U \subseteq T => U = T
  BY <1>1, <1>2, MinimalSubset
<1>4. T \in SUBSET S /\ SumFunctionOnSet(f, T) \notin Int
  BY <1>3 DEF F
<1>5. T # {}
  BY <1>4, SumEmpty
<1>6. Chosen(T) \in T /\ IsFiniteSet(T)
  BY <1>4, <1>5, FS_Subset DEF Chosen
<1>7. SumFunctionOnSet(f, T \ {Chosen(T)}) \in Int
  <2>1. T \ {Chosen(T)} \notin F
    BY <1>3, <1>6
  <2>2. QED
    BY <2>1, <1>4 DEF F
<1>8. f[Chosen(T)] \in Int
  BY <1>4, <1>6
<1>9. SumFunctionOnSet(f, T)
        = f[Chosen(T)] + SumFunctionOnSet(f, T \ {Chosen(T)})
  BY <1>5, <1>6, SumChosen
<1>10. QED
  BY <1>4, <1>7, <1>8, <1>9

(* The sum does not depend on which element is taken off first.            *)
THEOREM SumRemove ==
  ASSUME NEW S, IsFiniteSet(S), NEW f, \A x \in S : f[x] \in Int,
         NEW x \in S
  PROVE  SumFunctionOnSet(f, S) = f[x] + SumFunctionOnSet(f, S \ {x})
<1> DEFINE Bad(U, y) ==
             SumFunctionOnSet(f, U) # f[y] + SumFunctionOnSet(f, U \ {y})
           F == {U \in SUBSET S : \E y \in U : Bad(U, y)}
<1>1. SUFFICES ASSUME F # {} PROVE FALSE
  <2>1. S \notin F => ~ Bad(S, x)
    OBVIOUS
  <2>2. QED
    BY <2>1
<1>2. F \in SUBSET SUBSET S
  OBVIOUS
<1> HIDE DEF F
<1>3. PICK T \in F : \A U \in F : U \subseteq T => U = T
  BY <1>1, <1>2, MinimalSubset
<1>4. T \in SUBSET S
  BY <1>3 DEF F
<1>5. PICK y \in T : Bad(T, y)
  BY <1>3 DEF F
<1> DEFINE c == Chosen(T)
<1>6. c \in T /\ T # {} /\ IsFiniteSet(T)
  BY <1>4, <1>5, FS_Subset DEF Chosen
<1>7. SumFunctionOnSet(f, T) = f[c] + SumFunctionOnSet(f, T \ {c})
  BY <1>6, SumChosen
<1>8. y # c
  BY <1>5, <1>7
<1> DEFINE R == T \ {c, y}
<1>9. SumFunctionOnSet(f, T \ {c}) = f[y] + SumFunctionOnSet(f, R)
  <2>1. T \ {c} \notin F
    BY <1>3, <1>6
  <2>2. T \ {c} \in SUBSET S /\ y \in T \ {c} /\ (T \ {c}) \ {y} = R
    BY <1>4, <1>5, <1>8
  <2>3. ~ Bad(T \ {c}, y)
    BY <2>1, <2>2 DEF F
  <2>4. QED
    BY <2>2, <2>3
<1>10. SumFunctionOnSet(f, T \ {y}) = f[c] + SumFunctionOnSet(f, R)
  <2>1. T \ {y} \notin F
    BY <1>3, <1>5
  <2>2. T \ {y} \in SUBSET S /\ c \in T \ {y} /\ (T \ {y}) \ {c} = R
    BY <1>4, <1>6, <1>8
  <2>3. ~ Bad(T \ {y}, c)
    BY <2>1, <2>2 DEF F
  <2>4. QED
    BY <2>2, <2>3
<1>11. f[c] \in Int /\ f[y] \in Int /\ SumFunctionOnSet(f, R) \in Int
  <2>1. IsFiniteSet(R) /\ \A z \in R : f[z] \in Int
    BY <1>4, <1>6, FS_Subset
  <2>2. QED
    BY <2>1, <1>4, <1>5, <1>6, SumType
<1> HIDE DEF c, R
<1>12. QED
  BY <1>5, <1>7, <1>9, <1>10, <1>11

(* Functions that agree on the set have the same sum.                      *)
THEOREM SumAgree ==
  ASSUME NEW S, IsFiniteSet(S), NEW f, NEW g, \A x \in S : f[x] = g[x]
  PROVE  SumFunctionOnSet(f, S) = SumFunctionOnSet(g, S)
<1> DEFINE F == {U \in SUBSET S :
                   SumFunctionOnSet(f, U) # SumFunctionOnSet(g, U)}
<1>1. SUFFICES ASSUME F # {} PROVE FALSE
  OBVIOUS
<1>2. F \in SUBSET SUBSET S
  OBVIOUS
<1> HIDE DEF F
<1>3. PICK T \in F : \A U \in F : U \subseteq T => U = T
  BY <1>1, <1>2, MinimalSubset
<1>4. /\ T \in SUBSET S
      /\ SumFunctionOnSet(f, T) # SumFunctionOnSet(g, T)
  BY <1>3 DEF F
<1>5. T # {}
  BY <1>4, SumEmpty
<1>6. Chosen(T) \in T /\ IsFiniteSet(T)
  BY <1>4, <1>5, FS_Subset DEF Chosen
<1>7. SumFunctionOnSet(f, T \ {Chosen(T)}) = SumFunctionOnSet(g, T \ {Chosen(T)})
  <2>1. T \ {Chosen(T)} \notin F
    BY <1>3, <1>6
  <2>2. QED
    BY <2>1, <1>4 DEF F
<1>8. QED
  BY <1>4, <1>5, <1>6, <1>7, SumChosen

(* Changing one summand changes the sum by the same amount.                *)
THEOREM SumUpdate ==
  ASSUME NEW S, IsFiniteSet(S), NEW f, NEW g, NEW x \in S,
         \A y \in S : f[y] \in Int, g[x] \in Int,
         \A y \in S : y = x \/ g[y] = f[y]
  PROVE  SumFunctionOnSet(g, S) = SumFunctionOnSet(f, S) + (g[x] - f[x])
<1>1. IsFiniteSet(S \ {x})
  BY FS_Subset
<1>2. SumFunctionOnSet(f, S \ {x}) = SumFunctionOnSet(g, S \ {x})
  BY <1>1, SumAgree
<1>3. SumFunctionOnSet(f, S) = f[x] + SumFunctionOnSet(f, S \ {x})
  BY SumRemove
<1>4. SumFunctionOnSet(g, S) = g[x] + SumFunctionOnSet(g, S \ {x})
  BY SumRemove
<1>5. SumFunctionOnSet(f, S \ {x}) \in Int
  BY <1>1, SumType
<1>6. QED
  BY <1>2, <1>3, <1>4, <1>5

(* A sum of naturals is a natural no smaller than any of its summands.     *)
THEOREM SumNat ==
  ASSUME NEW S, IsFiniteSet(S), NEW f, \A x \in S : f[x] \in Nat
  PROVE  /\ SumFunctionOnSet(f, S) \in Nat
         /\ \A x \in S : f[x] <= SumFunctionOnSet(f, S)
<1> DEFINE F == {U \in SUBSET S : SumFunctionOnSet(f, U) \notin Nat}
<1>1. \A U \in SUBSET S : SumFunctionOnSet(f, U) \in Nat
  <2>1. SUFFICES ASSUME F # {} PROVE FALSE
    OBVIOUS
  <2>2. F \in SUBSET SUBSET S
    OBVIOUS
  <2> HIDE DEF F
  <2>3. PICK T \in F : \A U \in F : U \subseteq T => U = T
    BY <2>1, <2>2, MinimalSubset
  <2>4. T \in SUBSET S /\ SumFunctionOnSet(f, T) \notin Nat
    BY <2>3 DEF F
  <2>5. T # {}
    BY <2>4, SumEmpty
  <2>6. Chosen(T) \in T /\ IsFiniteSet(T)
    BY <2>4, <2>5, FS_Subset DEF Chosen
  <2>7. SumFunctionOnSet(f, T \ {Chosen(T)}) \in Nat
    <3>1. T \ {Chosen(T)} \notin F
      BY <2>3, <2>6
    <3>2. QED
      BY <3>1, <2>4 DEF F
  <2>8. f[Chosen(T)] \in Nat
    BY <2>4, <2>6
  <2>9. SumFunctionOnSet(f, T)
          = f[Chosen(T)] + SumFunctionOnSet(f, T \ {Chosen(T)})
    BY <2>5, <2>6, SumChosen
  <2>10. QED
    BY <2>4, <2>7, <2>8, <2>9
<1>2. ASSUME NEW x \in S PROVE f[x] <= SumFunctionOnSet(f, S)
  <2>1. SumFunctionOnSet(f, S \ {x}) \in Nat
    BY <1>1
  <2>2. \A y \in S : f[y] \in Int
    OBVIOUS
  <2>3. SumFunctionOnSet(f, S) = f[x] + SumFunctionOnSet(f, S \ {x})
    BY <2>2, SumRemove
  <2>4. QED
    BY <2>1, <2>3
<1>3. QED
  BY <1>1, <1>2

(* A sum of zeros is zero.                                                 *)
THEOREM SumZero ==
  ASSUME NEW S, IsFiniteSet(S), NEW f, \A x \in S : f[x] = 0
  PROVE  SumFunctionOnSet(f, S) = 0
<1> DEFINE F == {U \in SUBSET S : SumFunctionOnSet(f, U) # 0}
<1>1. SUFFICES ASSUME F # {} PROVE FALSE
  OBVIOUS
<1>2. F \in SUBSET SUBSET S
  OBVIOUS
<1> HIDE DEF F
<1>3. PICK T \in F : \A U \in F : U \subseteq T => U = T
  BY <1>1, <1>2, MinimalSubset
<1>4. T \in SUBSET S /\ SumFunctionOnSet(f, T) # 0
  BY <1>3 DEF F
<1>5. T # {}
  BY <1>4, SumEmpty
<1>6. Chosen(T) \in T /\ IsFiniteSet(T)
  BY <1>4, <1>5, FS_Subset DEF Chosen
<1>7. SumFunctionOnSet(f, T \ {Chosen(T)}) = 0
  <2>1. T \ {Chosen(T)} \notin F
    BY <1>3, <1>6
  <2>2. QED
    BY <2>1, <1>4 DEF F
<1>8. QED
  BY <1>4, <1>5, <1>6, <1>7, SumChosen

(* Pointwise smaller functions have smaller sums.                          *)
THEOREM SumMonotone ==
  ASSUME NEW S, IsFiniteSet(S), NEW f, NEW g,
         \A x \in S : f[x] \in Int /\ g[x] \in Int /\ f[x] <= g[x]
  PROVE  SumFunctionOnSet(f, S) <= SumFunctionOnSet(g, S)
<1> DEFINE F == {U \in SUBSET S :
                   ~(SumFunctionOnSet(f, U) <= SumFunctionOnSet(g, U))}
<1>1. SUFFICES ASSUME F # {} PROVE FALSE
  OBVIOUS
<1>2. F \in SUBSET SUBSET S
  OBVIOUS
<1> HIDE DEF F
<1>3. PICK T \in F : \A U \in F : U \subseteq T => U = T
  BY <1>1, <1>2, MinimalSubset
<1>4. /\ T \in SUBSET S
      /\ ~(SumFunctionOnSet(f, T) <= SumFunctionOnSet(g, T))
  BY <1>3 DEF F
<1>5. T # {}
  <2>1. SUFFICES ASSUME T = {} PROVE FALSE
    OBVIOUS
  <2>2. SumFunctionOnSet(f, T) = 0 /\ SumFunctionOnSet(g, T) = 0
    BY <2>1, SumEmpty
  <2>3. QED
    BY <1>4, <2>2
<1> DEFINE c == Chosen(T)
           R == T \ {c}
<1>6. c \in T /\ IsFiniteSet(T) /\ IsFiniteSet(R) /\ R \in SUBSET S
  BY <1>4, <1>5, FS_Subset DEF Chosen
<1>7. SumFunctionOnSet(f, R) <= SumFunctionOnSet(g, R)
  <2>1. R \notin F
    BY <1>3, <1>6
  <2>2. QED
    BY <2>1, <1>6 DEF F
<1>8. /\ SumFunctionOnSet(f, T) = f[c] + SumFunctionOnSet(f, R)
      /\ SumFunctionOnSet(g, T) = g[c] + SumFunctionOnSet(g, R)
  BY <1>5, <1>6, SumChosen
<1>9. SumFunctionOnSet(f, R) \in Int /\ SumFunctionOnSet(g, R) \in Int
  BY <1>6, SumType
<1>10. f[c] \in Int /\ g[c] \in Int /\ f[c] <= g[c]
  BY <1>4, <1>6
<1> HIDE DEF c, R
<1>11. QED
  BY <1>4, <1>7, <1>8, <1>9, <1>10

(* A sum of naturals does not shrink when elements are added.              *)
THEOREM SumSubset ==
  ASSUME NEW S, IsFiniteSet(S), NEW f, \A x \in S : f[x] \in Nat, NEW T \in SUBSET S
  PROVE  SumFunctionOnSet(f, T) <= SumFunctionOnSet(f, S)
<1> DEFINE F == {U \in SUBSET (S \ T) :
                   ~(SumFunctionOnSet(f, T) <= SumFunctionOnSet(f, T \union U))}
<1>1. SUFFICES ASSUME F # {} PROVE FALSE
  <2>1. S \ T \notin F
    BY <1>1
  <2>2. T \union (S \ T) = S
    OBVIOUS
  <2>3. QED
    BY <2>1, <2>2
<1>2. F \in SUBSET SUBSET S
  OBVIOUS
<1> HIDE DEF F
<1>3. PICK U \in F : \A V \in F : V \subseteq U => V = U
  BY <1>1, <1>2, MinimalSubset
<1>4. /\ U \in SUBSET (S \ T)
      /\ ~(SumFunctionOnSet(f, T) <= SumFunctionOnSet(f, T \union U))
  BY <1>3 DEF F
<1>5. /\ IsFiniteSet(T) /\ IsFiniteSet(T \union U) /\ IsFiniteSet(T \union (U \ {Chosen(U)}))
  <2>1. T \union U \in SUBSET S /\ T \union (U \ {Chosen(U)}) \in SUBSET S
    BY <1>4
  <2>2. QED
    BY <2>1, FS_Subset
<1>6. SumFunctionOnSet(f, T) \in Int
  BY <1>5, SumType
<1>7. U # {}
  <2>1. SUFFICES ASSUME U = {} PROVE FALSE
    OBVIOUS
  <2>2. T \union U = T
    BY <2>1
  <2>3. QED
    BY <1>4, <1>6, <2>2
<1> DEFINE c == Chosen(U)
           R == U \ {c}
<1>8. c \in U /\ R \in SUBSET (S \ T) /\ (T \union U) \ {c} = T \union R
  BY <1>4, <1>7 DEF Chosen
<1>9. SumFunctionOnSet(f, T) <= SumFunctionOnSet(f, T \union R)
  <2>1. R \notin F
    BY <1>3, <1>8
  <2>2. QED
    BY <2>1, <1>8 DEF F
<1>10. SumFunctionOnSet(f, T \union U) = f[c] + SumFunctionOnSet(f, T \union R)
  <2>1. c \in T \union U /\ \A x \in T \union U : f[x] \in Int
    BY <1>4, <1>8
  <2>2. SumFunctionOnSet(f, T \union U) = f[c] + SumFunctionOnSet(f, (T \union U) \ {c})
    BY <1>5, <2>1, SumRemove
  <2>3. QED
    BY <1>8, <2>2
<1>11. SumFunctionOnSet(f, T \union R) \in Int /\ f[c] \in Nat
  <2>1. \A x \in T \union R : f[x] \in Int
    BY <1>8
  <2>2. QED
    BY <1>4, <1>5, <1>8, <2>1, SumType
<1> HIDE DEF c, R
<1>12. QED
  BY <1>4, <1>6, <1>9, <1>10, <1>11
=============================================================================
