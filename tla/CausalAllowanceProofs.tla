------------------------ MODULE CausalAllowanceProofs ------------------------
(***************************************************************************)
(* For every forest, every table of budgets and any number of processes:   *)
(* no Contract is overdrawn, one with an outcome has nothing left, a tree  *)
(* never holds more than its top was granted, and a root's tree exactly    *)
(* that.                                                                   *)
(*                                                                         *)
(* The first two are proved together with the types.  They need each other:*)
(* the remainder a terminal burns is the whole balance only because a      *)
(* balance is never negative, and a terminal Contract stays at zero only   *)
(* because the Store lets nobody reserve from it, return to it or take     *)
(* from it.  The last two follow from where batches may return allowance.  *)
(***************************************************************************)
EXTENDS CausalAllowance, FiniteSetTheorems, WellFoundedInduction, TLAPS

-----------------------------------------------------------------------------
(***************************************************************************)
(* Sums over finite sets.  What is true of the empty set and stays true    *)
(* when an element is added is true of every finite set; the sums the      *)
(* model takes with MapThenSumSet are computed one element at a time, in   *)
(* an order that does not matter.                                          *)
(***************************************************************************)
\* A non-empty set of subsets of a finite set has a least one.
LEMMA LeastSubset ==
    ASSUME NEW C, IsFiniteSet(C), NEW Bad \in SUBSET SUBSET C, Bad # {}
    PROVE  \E T \in Bad : \A U \in Bad : U \subseteq T => U = T
<1>1. IsWellFoundedOn(StrictSubsetOrdering(C), SUBSET C)
  BY FS_StrictSubsetOrderingWellFounded, FS_FiniteSubsetsOfFinite
<1>2. PICK T \in Bad : \A U \in Bad : ~ (<<U, T>> \in StrictSubsetOrdering(C))
  BY <1>1, WFMin, Zenon
<1>3. ASSUME NEW U \in Bad, U \subseteq T PROVE U = T
  BY <1>2, <1>3 DEF StrictSubsetOrdering
<1> QED BY <1>3

\* What holds of the empty set and is kept by one more element holds of all subsets.
LEMMA SetInduction ==
    ASSUME NEW C, IsFiniteSet(C), NEW A, {} \in A,
           \A T \in SUBSET C : \A x \in C \ T : T \in A => T \cup {x} \in A
    PROVE  \A T \in SUBSET C : T \in A
<1> DEFINE Bad == {T \in SUBSET C : T \notin A}
<1> SUFFICES ASSUME Bad # {} PROVE FALSE
  OBVIOUS
<1>1. Bad \in SUBSET SUBSET C
  OBVIOUS
<1>2. PICK T \in Bad : \A U \in Bad : U \subseteq T => U = T
  <2> HIDE DEF Bad
  <2> QED BY <1>1, LeastSubset
<1>3. PICK x \in T : TRUE
  OBVIOUS
<1>4. T \ {x} \in SUBSET C /\ x \in C \ (T \ {x}) /\ (T \ {x}) \cup {x} = T
  OBVIOUS
<1>5. T \ {x} \in A
  BY <1>2, <1>4
<1> QED BY <1>4, <1>5

-----------------------------------------------------------------------------
Picked(s) == CHOOSE x \in s : TRUE

\* g[s] is the total of f over s, for every s within S.
IsTotal(g, f, S) ==
    g = [s \in SUBSET S |->
            IF s = {} THEN 0 ELSE f[Picked(s)] + g[s \ {Picked(s)}]]

LEMMA TotalUnfolds ==
    ASSUME NEW f, NEW S
    PROVE  Total(f, S) = (CHOOSE g : IsTotal(g, f, S))[S]
BY DEF Total, IsTotal, Picked, MapThenSumSet, MapThenFoldSet

LEMMA PickedIn == \A s : s # {} => Picked(s) \in s
BY DEF Picked

LEMMA TotalsAgree ==
    ASSUME NEW f, NEW S, NEW T, IsFiniteSet(S),
           NEW g, IsTotal(g, f, S), NEW h, IsTotal(h, f, T),
           NEW s \in SUBSET S, s \in SUBSET T
    PROVE  g[s] = h[s]
<1> DEFINE Bad == {u \in SUBSET S : u \in SUBSET T /\ g[u] # h[u]}
<1>1. SUFFICES ASSUME Bad # {} PROVE FALSE
  BY <1>1
<1>2. PICK u \in Bad : \A v \in Bad : v \subseteq u => v = u
  <2>1. Bad \in SUBSET SUBSET S
    OBVIOUS
  <2> HIDE DEF Bad
  <2> QED BY <1>1, <2>1, LeastSubset
<1>3. /\ g[u] = IF u = {} THEN 0 ELSE f[Picked(u)] + g[u \ {Picked(u)}]
      /\ h[u] = IF u = {} THEN 0 ELSE f[Picked(u)] + h[u \ {Picked(u)}]
  BY DEF IsTotal
<1>4. u # {}
  BY <1>3
<1>5. u \ {Picked(u)} \in SUBSET S /\ u \ {Picked(u)} \in SUBSET T /\ u \ {Picked(u)} # u
  BY <1>4, PickedIn
<1>6. g[u \ {Picked(u)}] = h[u \ {Picked(u)}]
  BY <1>2, <1>5
<1> QED BY <1>3, <1>4, <1>6

LEMMA TotalExists ==
    ASSUME NEW f, NEW S, IsFiniteSet(S)
    PROVE  \E g : IsTotal(g, f, S)
<1> DEFINE Bad == {u \in SUBSET S : ~ \E g : IsTotal(g, f, u)}
           G(u) == CHOOSE g : IsTotal(g, f, u)
           V(u) == G(u)[u]
<1>1. SUFFICES ASSUME Bad # {} PROVE FALSE
  BY <1>1
<1>2. PICK T \in Bad : \A v \in Bad : v \subseteq T => v = T
  <2>1. Bad \in SUBSET SUBSET S
    OBVIOUS
  <2> HIDE DEF Bad
  <2> QED BY <1>1, <2>1, LeastSubset
<1>3. ASSUME NEW u \in SUBSET T, u # T
      PROVE  IsTotal(G(u), f, u) /\ IsFiniteSet(u)
  <2>1. \E g : IsTotal(g, f, u)
    BY <1>2, <1>3
  <2>2. IsTotal(G(u), f, u)
    BY <2>1
  <2>3. IsFiniteSet(u)
    BY FS_Subset
  <2> QED BY <2>2, <2>3
<1> HIDE DEF G
<1>4. ASSUME NEW u \in SUBSET T, u # T, NEW v \in SUBSET u
      PROVE  G(u)[v] = V(v)
  <2>1. v \in SUBSET T /\ v # T /\ v \in SUBSET v
    BY <1>4
  <2>2. IsTotal(G(u), f, u) /\ IsFiniteSet(u) /\ IsTotal(G(v), f, v)
    BY <1>3, <1>4, <2>1
  <2> QED BY <2>1, <2>2, TotalsAgree
<1>5. ASSUME NEW u \in SUBSET T, u # T
      PROVE  V(u) = IF u = {} THEN 0 ELSE f[Picked(u)] + V(u \ {Picked(u)})
  <2>1. V(u) = IF u = {} THEN 0 ELSE f[Picked(u)] + G(u)[u \ {Picked(u)}]
    BY <1>3, <1>5 DEF IsTotal
  <2>2. G(u)[u \ {Picked(u)}] = V(u \ {Picked(u)})
    BY <1>4, <1>5
  <2> QED BY <2>1, <2>2
<1> HIDE DEF V
<1> DEFINE g == [s \in SUBSET T |->
                    IF s = T /\ T # {} THEN f[Picked(T)] + V(T \ {Picked(T)})
                    ELSE IF s = {} THEN 0 ELSE V(s)]
<1>6. ASSUME NEW s \in SUBSET T
      PROVE  g[s] = IF s = {} THEN 0 ELSE f[Picked(s)] + g[s \ {Picked(s)}]
  <2>1. CASE s = {}
    BY <2>1
  <2>2. CASE s # {}
    <3>1. s \ {Picked(s)} \in SUBSET T /\ s \ {Picked(s)} # T
      BY <2>2, PickedIn
    <3>2. g[s \ {Picked(s)}] = V(s \ {Picked(s)})
      BY <1>5, <3>1
    <3>3. CASE s = T
      BY <2>2, <3>2, <3>3
    <3>4. CASE s # T
      BY <1>5, <2>2, <3>2, <3>4
    <3> QED BY <3>3, <3>4
  <2> QED BY <2>1, <2>2
<1>7. IsTotal(g, f, T)
  <2>1. g = [s \in SUBSET T |-> g[s]]
    OBVIOUS
  <2> HIDE DEF g
  <2> QED BY <1>6, <2>1 DEF IsTotal
<1> QED BY <1>2, <1>7

LEMMA TotalRecursion ==
    ASSUME NEW f, NEW S, IsFiniteSet(S)
    PROVE  Total(f, S) = IF S = {} THEN 0
                         ELSE f[Picked(S)] + Total(f, S \ {Picked(S)})
<1> DEFINE G(T) == CHOOSE g : IsTotal(g, f, T)
<1>1. ASSUME NEW T \in SUBSET S PROVE IsTotal(G(T), f, T) /\ Total(f, T) = G(T)[T]
  <2>1. IsFiniteSet(T)
    BY FS_Subset
  <2>2. \E g : IsTotal(g, f, T)
    BY <2>1, TotalExists
  <2> QED BY <2>2, TotalUnfolds
<1> HIDE DEF G
<1> DEFINE T == S \ {Picked(S)}
<1>2. T \in SUBSET S /\ S \in SUBSET S
  OBVIOUS
<1>3. G(S)[T] = G(T)[T]
  BY <1>1, <1>2, TotalsAgree
<1>4. G(S)[S] = IF S = {} THEN 0 ELSE f[Picked(S)] + G(S)[T]
  BY <1>1, <1>2 DEF IsTotal
<1> QED BY <1>1, <1>2, <1>3, <1>4

LEMMA TotalEmpty == \A f : Total(f, {}) = 0
BY TotalRecursion, FS_EmptySet

LEMMA TotalType ==
    ASSUME NEW f, NEW S, IsFiniteSet(S), \A x \in S : f[x] \in Int
    PROVE  Total(f, S) \in Int
<1> DEFINE Bad == {u \in SUBSET S : Total(f, u) \notin Int}
<1>1. SUFFICES ASSUME Bad # {} PROVE FALSE
  BY <1>1
<1>2. PICK u \in Bad : \A v \in Bad : v \subseteq u => v = u
  <2>1. Bad \in SUBSET SUBSET S
    OBVIOUS
  <2> HIDE DEF Bad
  <2> QED BY <1>1, <2>1, LeastSubset
<1>3. Total(f, u) = IF u = {} THEN 0 ELSE f[Picked(u)] + Total(f, u \ {Picked(u)})
  BY TotalRecursion, FS_Subset
<1>4. u # {}
  BY <1>3
<1>5. Picked(u) \in u /\ u \ {Picked(u)} # u /\ u \ {Picked(u)} \in SUBSET S
  BY <1>4, PickedIn
<1>6. Total(f, u \ {Picked(u)}) \in Int
  BY <1>2, <1>5
<1>7. f[Picked(u)] \in Int
  BY <1>5
<1> QED BY <1>3, <1>4, <1>6, <1>7

\* In whatever order the elements are added.
LEMMA TotalStep ==
    ASSUME NEW f, NEW S, IsFiniteSet(S), \A x \in S : f[x] \in Int, NEW a \in S
    PROVE  Total(f, S) = f[a] + Total(f, S \ {a})
<1> DEFINE Bad == {u \in SUBSET S : \E x \in u : Total(f, u) # f[x] + Total(f, u \ {x})}
<1>1. SUFFICES ASSUME Bad # {} PROVE FALSE
  BY <1>1
<1>2. PICK u \in Bad : \A v \in Bad : v \subseteq u => v = u
  <2>1. Bad \in SUBSET SUBSET S
    OBVIOUS
  <2> HIDE DEF Bad
  <2> QED BY <1>1, <2>1, LeastSubset
<1>3. PICK x \in u : Total(f, u) # f[x] + Total(f, u \ {x})
  OBVIOUS
<1> DEFINE y == Picked(u)
<1>4. y \in u /\ u # {}
  BY <1>3, PickedIn
<1>5. Total(f, u) = f[y] + Total(f, u \ {y})
  BY <1>4, TotalRecursion, FS_Subset
<1> HIDE DEF y
<1>6. x # y
  BY <1>3, <1>5
<1>7. Total(f, u \ {y}) = f[x] + Total(f, (u \ {y}) \ {x})
  <2>1. u \ {y} \in SUBSET S /\ u \ {y} # u /\ x \in u \ {y}
    BY <1>4, <1>6
  <2> QED BY <1>2, <2>1
<1>8. Total(f, u \ {x}) = f[y] + Total(f, (u \ {x}) \ {y})
  <2>1. u \ {x} \in SUBSET S /\ u \ {x} # u /\ y \in u \ {x}
    BY <1>4, <1>6
  <2> QED BY <1>2, <2>1
<1>9. (u \ {x}) \ {y} = (u \ {y}) \ {x}
  OBVIOUS
<1>10. /\ Total(f, (u \ {y}) \ {x}) \in Int
       /\ f[x] \in Int /\ f[y] \in Int
  <2>1. (u \ {y}) \ {x} \in SUBSET S
    OBVIOUS
  <2>2. IsFiniteSet((u \ {y}) \ {x})
    BY <2>1, FS_Subset
  <2> QED BY <1>4, <2>1, <2>2, TotalType
<1>11. Total(f, u) = f[x] + Total(f, u \ {x})
  <2> DEFINE rest == Total(f, (u \ {y}) \ {x})
  <2>1. Total(f, u) = f[y] + (f[x] + rest)
    BY <1>5, <1>7
  <2>2. Total(f, u \ {x}) = f[y] + rest
    BY <1>8, <1>9
  <2>3. rest \in Int /\ f[x] \in Int /\ f[y] \in Int
    BY <1>10
  <2> HIDE DEF rest
  <2> QED BY <2>1, <2>2, <2>3
<1> QED BY <1>3, <1>11

LEMMA TotalAdd ==
    ASSUME NEW f, NEW S, IsFiniteSet(S), \A x \in S : f[x] \in Int, NEW a, a \notin S,
           f[a] \in Int
    PROVE  Total(f, S \cup {a}) = f[a] + Total(f, S)
<1>1. IsFiniteSet(S \cup {a})
  BY FS_AddElement
<1>2. (S \cup {a}) \ {a} = S
  OBVIOUS
<1> QED BY <1>1, <1>2, TotalStep

LEMMA TotalSum ==
    ASSUME NEW f, NEW g, NEW h, NEW S, IsFiniteSet(S),
           \A x \in S : f[x] \in Int /\ g[x] \in Int /\ h[x] = f[x] + g[x]
    PROVE  Total(h, S) = Total(f, S) + Total(g, S)
<1> DEFINE A == {U \in SUBSET S : Total(h, U) = Total(f, U) + Total(g, U)}
<1>1. {} \in A
  BY TotalEmpty
<1>2. ASSUME NEW U \in SUBSET S, NEW x \in S \ U, U \in A PROVE U \cup {x} \in A
  <2>1. IsFiniteSet(U) /\ \A y \in U : f[y] \in Int /\ g[y] \in Int /\ h[y] \in Int
    BY FS_Subset
  <2>2. f[x] \in Int /\ g[x] \in Int /\ h[x] \in Int /\ h[x] = f[x] + g[x]
    OBVIOUS
  <2>3. /\ Total(f, U \cup {x}) = f[x] + Total(f, U)
        /\ Total(g, U \cup {x}) = g[x] + Total(g, U)
        /\ Total(h, U \cup {x}) = h[x] + Total(h, U)
    BY <2>1, <2>2, TotalAdd
  <2>4. Total(f, U) \in Int /\ Total(g, U) \in Int /\ Total(h, U) \in Int
    BY <2>1, TotalType
  <2>5. Total(h, U) = Total(f, U) + Total(g, U)
    BY <1>2
  <2> QED BY <2>2, <2>3, <2>4, <2>5
<1>3. \A U \in SUBSET S : U \in A
  <2> HIDE DEF A
  <2> QED BY <1>1, <1>2, SetInduction
<1> QED BY <1>3

LEMMA TotalUnion ==
    ASSUME NEW f, NEW S, NEW T, IsFiniteSet(S), IsFiniteSet(T), S \cap T = {},
           \A x \in S \cup T : f[x] \in Int
    PROVE  Total(f, S \cup T) = Total(f, S) + Total(f, T)
<1> DEFINE A == {U \in SUBSET T : Total(f, S \cup U) = Total(f, S) + Total(f, U)}
<1>0. Total(f, S) \in Int
  BY TotalType
<1>1. {} \in A
  <2>1. S \cup {} = S
    OBVIOUS
  <2> QED BY <1>0, <2>1, TotalEmpty
<1>2. ASSUME NEW U \in SUBSET T, NEW x \in T \ U, U \in A PROVE U \cup {x} \in A
  <2>1. IsFiniteSet(U) /\ IsFiniteSet(S \cup U)
    BY FS_Subset, FS_Union
  <2>2. x \notin S \cup U /\ f[x] \in Int
    OBVIOUS
  <2>3. Total(f, (S \cup U) \cup {x}) = f[x] + Total(f, S \cup U)
    BY <2>1, <2>2, TotalAdd
  <2>4. Total(f, U \cup {x}) = f[x] + Total(f, U)
    BY <2>1, <2>2, TotalAdd
  <2>5. Total(f, U) \in Int
    BY <2>1, TotalType
  <2>6. S \cup (U \cup {x}) = (S \cup U) \cup {x}
    OBVIOUS
  <2>7. Total(f, S \cup U) = Total(f, S) + Total(f, U)
    BY <1>2
  <2>8. Total(f, S \cup (U \cup {x})) = Total(f, S) + Total(f, U \cup {x})
    <3>1. Total(f, S \cup (U \cup {x})) = f[x] + (Total(f, S) + Total(f, U))
      BY <2>3, <2>6, <2>7
    <3> QED BY <1>0, <2>2, <2>4, <2>5, <3>1
  <2> QED BY <2>8
<1>3. \A U \in SUBSET T : U \in A
  <2> HIDE DEF A
  <2> QED BY <1>1, <1>2, SetInduction
<1> QED BY <1>3

LEMMA TotalNat ==
    ASSUME NEW f, NEW S, IsFiniteSet(S), \A x \in S : f[x] \in Nat
    PROVE  Total(f, S) \in Nat
<1> DEFINE A == {U \in SUBSET S : Total(f, U) \in Nat}
<1>1. {} \in A
  BY TotalEmpty
<1>2. ASSUME NEW U \in SUBSET S, NEW x \in S \ U, U \in A PROVE U \cup {x} \in A
  <2>1. IsFiniteSet(U) /\ \A y \in U : f[y] \in Int
    BY FS_Subset
  <2>2. Total(f, U \cup {x}) = f[x] + Total(f, U)
    BY <2>1, TotalAdd
  <2>3. f[x] \in Nat /\ Total(f, U) \in Nat
    BY <1>2
  <2>4. Total(f, U \cup {x}) \in Nat
    BY <2>2, <2>3
  <2> QED BY <2>4
<1>3. \A U \in SUBSET S : U \in A
  <2> HIDE DEF A
  <2> QED BY <1>1, <1>2, SetInduction
<1> QED BY <1>3

\* Elements that add nothing may be left out.
LEMMA TotalZero ==
    ASSUME NEW f, NEW S, IsFiniteSet(S), \A x \in S : f[x] = 0
    PROVE  Total(f, S) = 0
<1> DEFINE A == {U \in SUBSET S : Total(f, U) = 0}
<1>1. {} \in A
  BY TotalEmpty
<1>2. ASSUME NEW U \in SUBSET S, NEW x \in S \ U, U \in A PROVE U \cup {x} \in A
  <2>1. IsFiniteSet(U) /\ \A y \in U : f[y] \in Int
    BY FS_Subset
  <2>2. Total(f, U \cup {x}) = f[x] + Total(f, U)
    BY <2>1, TotalAdd
  <2>3. Total(f, U \cup {x}) = 0
    BY <1>2, <2>2
  <2> QED BY <2>3
<1>3. \A U \in SUBSET S : U \in A
  <2> HIDE DEF A
  <2> QED BY <1>1, <1>2, SetInduction
<1> QED BY <1>3

LEMMA TotalWithin ==
    ASSUME NEW f, NEW S, IsFiniteSet(S), \A x \in S : f[x] \in Int,
           NEW T \in SUBSET S, \A x \in S \ T : f[x] = 0
    PROVE  Total(f, S) = Total(f, T)
<1> DEFINE R == S \ T
<1>1. IsFiniteSet(T) /\ IsFiniteSet(R) /\ T \cap R = {} /\ T \cup R = S
  BY FS_Subset
<1>2. \A x \in R : f[x] = 0
  OBVIOUS
<1> HIDE DEF R
<1>3. Total(f, R) = 0 /\ Total(f, T) \in Int
  BY <1>1, <1>2, TotalZero, TotalType
<1>4. Total(f, T \cup R) = Total(f, T) + Total(f, R)
  BY <1>1, TotalUnion
<1>5. Total(f, S) = Total(f, T) + Total(f, R)
  BY <1>1, <1>4, Zenon
<1> QED BY <1>3, <1>5

LEMMA TotalSame ==
    ASSUME NEW f, NEW g, NEW S, IsFiniteSet(S), \A x \in S : f[x] \in Int /\ f[x] = g[x]
    PROVE  Total(f, S) = Total(g, S)
<1> DEFINE zero == [x \in S |-> 0]
<1>1. \A x \in S : zero[x] \in Int /\ g[x] \in Int /\ f[x] = g[x] + zero[x]
  OBVIOUS
<1>2. Total(zero, S) = 0
  BY TotalZero
<1> HIDE DEF zero
<1>3. Total(f, S) = Total(g, S) + Total(zero, S)
  BY <1>1, TotalSum
<1> QED BY <1>1, <1>2, <1>3, TotalType

LEMMA TotalOne ==
    ASSUME NEW f, NEW a, f[a] \in Int
    PROVE  Total(f, {a}) = f[a]
<1>1. IsFiniteSet({}) /\ a \notin {} /\ {} \cup {a} = {a}
  BY FS_EmptySet
<1>2. Total(f, {} \cup {a}) = f[a] + Total(f, {})
  BY <1>1, TotalAdd
<1> QED BY <1>1, <1>2, TotalEmpty

-----------------------------------------------------------------------------
\* Budgets add up: none for no Contract, and those of two groups together.
LEMMA CostAdds ==
    /\ Cost \in [SUBSET Contracts -> Nat]
    /\ Cost[{}] = 0
    /\ \A S, T \in SUBSET Contracts :
          S \cap T = {} => Cost[S \cup T] = Cost[S] + Cost[T]
<1>1. ASSUME NEW S \in SUBSET Contracts
      PROVE  /\ IsFiniteSet(S) /\ Cost[S] = Total(Budget, S)
             /\ \A x \in S : Budget[x] \in Nat /\ Budget[x] \in Int
    BY ParentAssumption, BudgetAssumption, FS_Subset DEF Cost
<1>2. ASSUME NEW S \in SUBSET Contracts PROVE Total(Budget, S) \in Nat
    BY <1>1, TotalNat
<1>3. Cost \in [SUBSET Contracts -> Nat]
    BY <1>2 DEF Cost
<1>4. Cost[{}] = 0
    BY TotalEmpty DEF Cost
<1>5. ASSUME NEW S \in SUBSET Contracts, NEW T \in SUBSET Contracts, S \cap T = {}
      PROVE  Cost[S \cup T] = Cost[S] + Cost[T]
  <2>1. Total(Budget, S \cup T) = Total(Budget, S) + Total(Budget, T)
      BY <1>1, <1>5, TotalUnion
  <2> QED BY <1>1, <2>1
<1> QED BY <1>3, <1>4, <1>5

LEMMA CostOfOne == \A c \in Contracts : Cost[{c}] = Budget[c]
<1> SUFFICES ASSUME NEW c \in Contracts PROVE Total(Budget, {c}) = Budget[c]
    BY DEF Cost
<1> QED
    BY TotalOne, BudgetAssumption

-----------------------------------------------------------------------------
AllowanceInv == TypeOK /\ NeverOverdrawn /\ TerminalHoldsNothing

\* What the batch b makes of the balance of c, before any remainder is burnt.
Settlement(b, c) == Balance(c) + Credit(b, c) - Debit(b, c) - Requested(b, c)

LEMMA CostTypes ==
    ASSUME NEW S, NEW c
    PROVE  Cost[Children(S \cap Contracts, c)] \in Nat
BY CostAdds DEF Children

LEMMA AmountTypes ==
    ASSUME TypeOK, NEW b \in Batches, NEW c \in Contracts
    PROVE  /\ Balance(c) \in Int
           /\ Available(c) \in Nat
           /\ Credit(b, c) \in Nat
           /\ Debit(b, c) \in Nat
           /\ Requested(b, c) \in Nat
           /\ Settlement(b, c) \in Int
           /\ Spendable(b, c) \in Nat
           /\ Remainder(b, c) \in Nat
           /\ Burnt(b, c) \in Nat
<1>1. /\ {c} \in SUBSET Contracts
      /\ Children(declared, c) \in SUBSET Contracts
      /\ Children(b.children, c) \in SUBSET Contracts
    BY DEF TypeOK, Children, Batches
<1>2. /\ Cost[{c}] \in Nat /\ Cost[Children(declared, c)] \in Nat
      /\ Cost[Children(b.children, c)] \in Nat
    BY <1>1, CostAdds
<1>3. returnedIn[c] \in Nat /\ returnedOut[c] \in Nat /\ extinguished[c] \in Nat
    BY DEF TypeOK
<1>4. Balance(c) \in Int /\ Requested(b, c) \in Nat
    BY <1>2, <1>3 DEF Balance, Requested
<1>5. Credit(b, c) \in Nat /\ Debit(b, c) \in Nat /\ b.amount[c] \in Nat
    BY DEF Credit, Debit, Batches
<1> QED
    BY <1>4, <1>5 DEF Available, Settlement, Spendable, Remainder, Burnt, NonNeg

\* NoBatch neither reserves nor returns anything.
LEMMA NoBatchNeutral ==
    ASSUME TypeOK, NEW c \in Contracts
    PROVE  /\ NoBatch \in Batches
           /\ Requested(NoBatch, c) = 0
           /\ Credit(NoBatch, c) = 0
           /\ Debit(NoBatch, c) = 0
           /\ Burnt(NoBatch, c) = Remainder(NoBatch, c)
<1>1. NoBatch \in Batches
    BY DEF NoBatch, Batches, Zero
<1>2. Children({}, c) = {}
    BY DEF Children
<1>3. Requested(NoBatch, c) = 0
    BY <1>2, CostAdds DEF Requested, NoBatch
<1>4. Credit(NoBatch, c) = 0 /\ Debit(NoBatch, c) = 0
    BY ParentAssumption DEF Credit, Debit, NoBatch
<1>5. NoBatch.amount[c] = 0
    BY DEF NoBatch, Zero
<1> QED
    BY <1>1, <1>3, <1>4, <1>5 DEF Burnt

\* Under the lock every reservation and every return is covered.
LEMMA BatchCovered ==
    ASSUME AllowanceInv, NEW b \in Batches, Committable(b), NEW c \in Contracts
    PROVE  Settlement(b, c) >= 0
<1> USE DEF AllowanceInv
<1>1. Balance(c) \in Int /\ Credit(b, c) \in Nat /\ Debit(b, c) \in Nat
      /\ Requested(b, c) \in Nat /\ Balance(c) >= 0
    BY AmountTypes DEF NeverOverdrawn
<1>2. Debit(b, c) <= Balance(c)
  <2>1. CASE c \in b.cancelled /\ b.gift[c] > 0
    BY <2>1, <1>1 DEF Committable, ReturnsValid, Debit, Available, NonNeg
  <2>2. CASE ~(c \in b.cancelled /\ b.gift[c] > 0)
    <3>1. b.gift[c] \in Nat
      BY DEF Batches
    <3> QED
      BY <2>2, <3>1, <1>1 DEF Debit
  <2> QED BY <2>1, <2>2
<1>3. CASE Children(b.children, c) = {}
  <2>1. Requested(b, c) = 0
    BY <1>3, CostAdds DEF Requested
  <2> QED
    BY <2>1, <1>1, <1>2 DEF Settlement
<1>4. CASE Children(b.children, c) # {}
  <2>1. PICK d \in b.children : Parent[d] = c
    BY <1>4 DEF Children
  <2>2. c # NoContract
    BY ParentAssumption
  <2>3. Requested(b, c) <= Spendable(b, c)
    BY <2>1, <2>2 DEF Committable, Affordable
  <2> QED
    BY <2>3, <1>1, <1>2 DEF Settlement, Spendable, NonNeg
<1> QED BY <1>3, <1>4

\* A Contract with an outcome is left alone by every batch that commits.
LEMMA TerminalUntouched ==
    ASSUME AllowanceInv, NEW b \in Batches, Committable(b),
           NEW c \in Contracts, terminal[c] # "none"
    PROVE  Requested(b, c) = 0 /\ Credit(b, c) = 0 /\ Debit(b, c) = 0
<1>0. c # NoContract
    BY ParentAssumption
<1>1. Children(b.children, c) = {}
  <2> SUFFICES ASSUME NEW d \in b.children, Parent[d] = c PROVE FALSE
    BY DEF Children
  <2> QED
    BY <1>0 DEF Committable, Affordable
<1>2. Requested(b, c) = 0
    BY <1>1, CostAdds DEF Requested
<1>3. Credit(b, c) = 0
    BY <1>0 DEF Credit, Committable, SameHandoff, Live
<1>4. Debit(b, c) = 0
  <2>1. b.gift[c] \in Nat
    BY DEF Batches
  <2> QED
    BY <2>1 DEF Debit, Committable, ReturnsValid
<1> QED BY <1>2, <1>3, <1>4

\* The extinguishment written is the remainder found under the lock.
LEMMA BurntIsRemainder ==
    ASSUME TypeOK, NEW b \in Batches, AmountsAgree(b),
           NEW x \in Contracts, terminal[x] = "none"
    PROVE  Burnt(b, x) = Remainder(b, x)
BY DEF AmountsAgree, Burnt

-----------------------------------------------------------------------------
\* Reservations of new Contracts add to those of the old ones.
LEMMA ReservationsAdd ==
    ASSUME NEW S \in SUBSET Contracts, NEW T \in SUBSET Contracts, S \cap T = {},
           NEW c
    PROVE  Cost[Children(S \cup T, c)] = Cost[Children(S, c)] + Cost[Children(T, c)]
<1>1. Children(S \cup T, c) = Children(S, c) \cup Children(T, c)
    BY DEF Children
<1>2. Children(S, c) \cap Children(T, c) = {}
    BY DEF Children
<1>3. Children(S, c) \in SUBSET Contracts /\ Children(T, c) \in SUBSET Contracts
    BY DEF Children
<1> QED
    BY <1>1, <1>2, <1>3, CostAdds

LEMMA InitAllowance == Init => AllowanceInv
<1> SUFFICES ASSUME Init PROVE AllowanceInv
    OBVIOUS
<1>1. TypeOK
  <2>1. Zero \in [Contracts -> Nat]
    BY DEF Zero
  <2>2. NoBatch \in Batches
    BY <2>1 DEF NoBatch, Batches
  <2> QED
    BY <2>1, <2>2, GenesisAssumption DEF TypeOK, Init, Outcomes
<1>2. NeverOverdrawn
  <2> SUFFICES ASSUME NEW c \in Contracts PROVE Balance(c) >= 0
    BY DEF NeverOverdrawn
  <2>1. Cost[Children(Genesis, c)] <= Cost[{c}]
    BY GenesisAssumption DEF Children
  <2>2. Cost[Children(Genesis, c)] \in Nat /\ Cost[{c}] \in Nat
    BY GenesisAssumption, CostAdds DEF Children
  <2>3. Balance(c) = Cost[{c}] - Cost[Children(Genesis, c)] + 0 - 0 - 0
    BY DEF Balance, Init, Zero
  <2> QED BY <2>1, <2>2, <2>3
<1>3. TerminalHoldsNothing
    BY DEF TerminalHoldsNothing, Init
<1> QED BY <1>1, <1>2, <1>3 DEF AllowanceInv

-----------------------------------------------------------------------------
\* Projecting and rolling back touch no record.
LEMMA ProjectKeeps ==
    ASSUME AllowanceInv, NEW s \in Sessions, NEW b \in Batches, Project(s, b)
    PROVE  AllowanceInv'
<1> USE DEF AllowanceInv
<1>1. UNCHANGED records
    BY DEF Project
<1>2. Amounts(b) \in [Contracts -> Nat]
    BY AmountTypes DEF Amounts
<1>3. [b EXCEPT !.amount = Amounts(b)] \in Batches
    BY <1>2 DEF Batches
<1>4. TypeOK'
    BY <1>1, <1>3 DEF TypeOK, Project, records
<1>5. \A c \in Contracts : Balance(c)' = Balance(c)
    BY <1>1 DEF Balance, records
<1> QED
    BY <1>1, <1>4, <1>5 DEF NeverOverdrawn, TerminalHoldsNothing, records

LEMMA ProjectBatchKeeps ==
    ASSUME AllowanceInv, NEW s \in Sessions, NEW D \in SUBSET Contracts,
           NEW E \in SUBSET Contracts, NEW F \in SUBSET Contracts,
           ProjectBatch(s, D, E, F)
    PROVE  AllowanceInv'
<1> DEFINE b == [NoBatch EXCEPT !.children = D, !.ended = E, !.derived = F]
<1>1. b \in Batches
    BY DEF NoBatch, Batches, Zero
<1>2. Project(s, b)
    BY DEF ProjectBatch
<1> HIDE DEF b
<1> QED BY <1>1, <1>2, ProjectKeeps

LEMMA ProjectHandoffKeeps ==
    ASSUME AllowanceInv, NEW s \in Sessions, NEW c \in Contracts,
           NEW n \in Contracts, NEW X \in SUBSET LiveBelow(c),
           NEW Y \in SUBSET LiveBelow(c), ProjectHandoff(s, c, n, X, Y)
    PROVE  AllowanceInv'
<1> DEFINE gift == [x \in Contracts |-> IF x \in X THEN Available(x) ELSE 0]
           total == Total(gift, X)
           b == [NoBatch EXCEPT !.children = {n}, !.ended = {c} \cup X \cup Y,
                     !.source = c, !.cancelled = X, !.gift = gift,
                     !.total = total, !.below = LiveBelow(c), !.held = Available(c)]
<1>1. \A x \in Contracts : Available(x) \in Nat
    BY AmountTypes, NoBatchNeutral DEF AllowanceInv
<1>2. gift \in [Contracts -> Nat]
    BY <1>1
<1>3. LiveBelow(c) \in SUBSET Contracts
    BY DEF LiveBelow, AllowanceInv, TypeOK
<1>4. total \in Nat /\ Project(s, b)
  <2>1. IsFiniteSet(X) /\ \A x \in X : gift[x] \in Nat
    BY <1>2, <1>3, ParentAssumption, FS_Subset
  <2>2. total \in Nat
    <3> HIDE DEF gift
    <3> QED BY <2>1, TotalNat
  <2> QED BY <2>2 DEF ProjectHandoff
<1>5. b \in Batches
  <2> HIDE DEF gift, total
  <2> QED BY <1>1, <1>2, <1>3, <1>4 DEF NoBatch, Batches, Zero
<1> HIDE DEF b
<1> QED BY <1>4, <1>5, ProjectKeeps

\* Contracts that end burn exactly what the batch leaves them.
LEMMA EndTypes ==
    ASSUME TypeOK, NEW b \in Batches, NEW N \in SUBSET Contracts,
           NEW how \in [N -> Outcomes], End(b, N, how)
    PROVE  /\ terminal' \in [Contracts -> Outcomes]
           /\ extinguished' \in [Contracts -> Nat]
<1>1. \A x \in Contracts : Burnt(b, x) \in Nat
    BY AmountTypes
<1>2. \A x \in Contracts : extinguished[x] \in Nat /\ terminal[x] \in Outcomes
    BY DEF TypeOK
<1>3. terminal' \in [Contracts -> Outcomes]
    BY <1>2 DEF End
<1>4. extinguished' \in [Contracts -> Nat]
    BY <1>1, <1>2 DEF End
<1> QED BY <1>3, <1>4

LEMMA CommitKeeps ==
    ASSUME AllowanceInv, NEW s \in Sessions, NEW M \in SUBSET Contracts, Commit(s, M)
    PROVE  AllowanceInv'
<1> USE DEF AllowanceInv
<1> DEFINE b == prepared[s]
           N == {x \in b.ended \cup b.derived \cup M : terminal[x] = "none"}
           how == [x \in N |-> IF x \in b.ended THEN "ended" ELSE "derived"]
<1>1. b \in Batches /\ N \in SUBSET Contracts /\ how \in [N -> Outcomes]
    BY DEF TypeOK, Batches, Outcomes
<1>2. /\ Committable(b)
      /\ declared' = declared \cup b.children
      /\ returnedIn' = [x \in Contracts |-> returnedIn[x] + Credit(b, x)]
      /\ returnedOut' = [x \in Contracts |-> returnedOut[x] + Debit(b, x)]
      /\ End(b, N, how)
      /\ prepared' = [prepared EXCEPT ![s] = NoBatch]
    BY DEF Commit
<1> HIDE DEF how
<1>3. /\ b.children \in SUBSET Contracts
      /\ b.children \cap declared = {}
      /\ AmountsAgree(b)
    BY <1>1, <1>2 DEF Batches, Committable
<1>4. TypeOK'
  <2>1. terminal' \in [Contracts -> Outcomes] /\ extinguished' \in [Contracts -> Nat]
    <3> HIDE DEF b, N
    <3> QED BY <1>1, <1>2, EndTypes
  <2>2. \A x \in Contracts : Credit(b, x) \in Nat /\ Debit(b, x) \in Nat
    <3> HIDE DEF b
    <3> QED BY <1>1, AmountTypes
  <2>3. returnedIn' \in [Contracts -> Nat] /\ returnedOut' \in [Contracts -> Nat]
    <3> HIDE DEF b
    <3> QED BY <1>2, <2>2 DEF TypeOK
  <2>4. NoBatch \in Batches
    BY DEF NoBatch, Batches, Zero
  <2>5. declared' \subseteq Contracts /\ prepared' \in [Sessions -> Batches]
    BY <1>2, <1>3, <2>4 DEF TypeOK
  <2> QED BY <2>1, <2>3, <2>5 DEF TypeOK
<1> HIDE DEF b, N
<1>5. ASSUME NEW c \in Contracts
      PROVE  Balance(c)' = Settlement(b, c) - (IF c \in N THEN Burnt(b, c) ELSE 0)
  <2>1. Cost[Children(declared', c)] = Cost[Children(declared, c)] + Requested(b, c)
    BY <1>2, <1>3, ReservationsAdd DEF TypeOK, Requested
  <2>2. /\ Cost[{c}] \in Nat /\ Cost[Children(declared, c)] \in Nat
        /\ returnedIn[c] \in Nat /\ returnedOut[c] \in Nat /\ extinguished[c] \in Nat
        /\ Credit(b, c) \in Nat /\ Debit(b, c) \in Nat /\ Requested(b, c) \in Nat
        /\ Burnt(b, c) \in Nat
    BY <1>1, AmountTypes, CostAdds DEF TypeOK, Children
  <2>3. /\ returnedIn'[c] = returnedIn[c] + Credit(b, c)
        /\ returnedOut'[c] = returnedOut[c] + Debit(b, c)
        /\ extinguished'[c] = extinguished[c] + (IF c \in N THEN Burnt(b, c) ELSE 0)
    BY <1>2 DEF End
  <2>4. Balance(c)' = Cost[{c}] - Cost[Children(declared', c)]
                          + returnedIn'[c] - returnedOut'[c] - extinguished'[c]
    BY DEF Balance, Children
  <2> QED
    BY <2>1, <2>2, <2>3, <2>4 DEF Settlement, Balance
<1>6. ASSUME NEW c \in Contracts
      PROVE  Settlement(b, c) \in Int /\ Settlement(b, c) >= 0
    BY <1>1, <1>2, BatchCovered, AmountTypes
<1>7. ASSUME NEW c \in N
      PROVE  Burnt(b, c) = Settlement(b, c)
  <2>1. c \in Contracts /\ terminal[c] = "none"
    BY <1>1 DEF N
  <2>2. Burnt(b, c) = Remainder(b, c)
    BY <1>1, <1>3, <2>1, BurntIsRemainder
  <2>3. Settlement(b, c) \in Int /\ Settlement(b, c) >= 0
    BY <1>6, <2>1
  <2> QED
    BY <2>2, <2>3 DEF Remainder, Settlement, NonNeg
<1>8. NeverOverdrawn'
    BY <1>1, <1>5, <1>6, <1>7 DEF NeverOverdrawn
<1>9. TerminalHoldsNothing'
  <2> SUFFICES ASSUME NEW c \in Contracts, terminal'[c] # "none"
               PROVE  Balance(c)' = 0
    BY DEF TerminalHoldsNothing
  <2>1. CASE c \in N
    BY <2>1, <1>5, <1>6, <1>7
  <2>2. CASE c \notin N
    <3>1. terminal[c] # "none"
      BY <2>2, <1>2 DEF End
    <3>2. Balance(c) = 0
      BY <3>1 DEF TerminalHoldsNothing
    <3>3. Settlement(b, c) = 0
      BY <3>1, <3>2, <1>1, <1>2, TerminalUntouched DEF Settlement
    <3> QED BY <2>2, <3>3, <1>5
  <2> QED BY <2>1, <2>2
<1> QED BY <1>4, <1>8, <1>9

LEMMA EndNowKeeps ==
    ASSUME AllowanceInv, NEW N \in SUBSET Contracts,
           NEW how \in {"derived", "ended"}, EndNow(N, how)
    PROVE  AllowanceInv'
<1> USE DEF AllowanceInv
<1>1. /\ End(NoBatch, N, [x \in N |-> how])
      /\ \A x \in N : Live(x)
      /\ UNCHANGED <<declared, returnedIn, returnedOut, prepared>>
    BY DEF EndNow
<1>2. [x \in N |-> how] \in [N -> Outcomes]
    BY DEF Outcomes
<1>3. NoBatch \in Batches
    BY DEF NoBatch, Batches, Zero
<1>4. terminal' \in [Contracts -> Outcomes] /\ extinguished' \in [Contracts -> Nat]
    BY <1>1, <1>2, <1>3, EndTypes
<1>5. TypeOK'
    BY <1>1, <1>4 DEF TypeOK
<1>6. ASSUME NEW c \in Contracts
      PROVE  Balance(c)' = IF c \in N THEN 0 ELSE Balance(c)
  <2>1. Burnt(NoBatch, c) = NonNeg(Balance(c))
    <3>1. Balance(c) \in Int
      BY <1>3, AmountTypes
    <3> QED BY <3>1, NoBatchNeutral DEF Remainder
  <2>2. Balance(c) \in Int /\ Balance(c) >= 0
    BY <1>3, AmountTypes DEF NeverOverdrawn
  <2>3. extinguished'[c] = extinguished[c] + (IF c \in N THEN Balance(c) ELSE 0)
    BY <1>1, <2>1, <2>2 DEF End, NonNeg
  <2>4. /\ Cost[{c}] \in Nat /\ Cost[Children(declared, c)] \in Nat
        /\ returnedIn[c] \in Nat /\ returnedOut[c] \in Nat /\ extinguished[c] \in Nat
    BY CostAdds DEF TypeOK, Children
  <2>5. Balance(c)' = Cost[{c}] - Cost[Children(declared, c)]
                          + returnedIn[c] - returnedOut[c] - extinguished'[c]
    BY <1>1 DEF Balance
  <2>6. Balance(c) = Cost[{c}] - Cost[Children(declared, c)]
                          + returnedIn[c] - returnedOut[c] - extinguished[c]
    BY DEF Balance
  <2> HIDE DEF AllowanceInv
  <2> QED BY <2>2, <2>3, <2>4, <2>5, <2>6
<1>7. NeverOverdrawn'
    BY <1>6 DEF NeverOverdrawn
<1>8. TerminalHoldsNothing'
    BY <1>1, <1>6 DEF TerminalHoldsNothing, End
<1> QED BY <1>5, <1>7, <1>8

LEMMA AllowanceStep == AllowanceInv /\ [Next]_vars => AllowanceInv'
<1> SUFFICES ASSUME AllowanceInv, [Next]_vars PROVE AllowanceInv'
    OBVIOUS
<1>0. declared \in SUBSET Contracts
    BY DEF AllowanceInv, TypeOK
<1>1. ASSUME NEW s \in Sessions, NEW D \in SUBSET (Contracts \ declared),
             NEW E \in SUBSET declared, NEW F \in SUBSET declared,
             ProjectBatch(s, D, E, F)
      PROVE  AllowanceInv'
    BY <1>0, <1>1, ProjectBatchKeeps
<1>2. ASSUME NEW s \in Sessions, NEW c \in declared, NEW n \in Contracts,
             NEW X \in SUBSET LiveBelow(c), NEW Y \in SUBSET LiveBelow(c),
             ProjectHandoff(s, c, n, X, Y)
      PROVE  AllowanceInv'
    BY <1>0, <1>2, ProjectHandoffKeeps
<1>3. ASSUME NEW s \in Sessions, NEW M \in SUBSET declared, Commit(s, M)
      PROVE  AllowanceInv'
    BY <1>0, <1>3, CommitKeeps
<1>4. ASSUME NEW s \in Sessions, RollBack(s)
      PROVE  AllowanceInv'
  <2>1. NoBatch \in Batches
    BY DEF NoBatch, Batches, Zero
  <2>2. TypeOK'
    BY <1>4, <2>1 DEF RollBack, records, AllowanceInv, TypeOK
  <2>3. \A c \in Contracts : Balance(c)' = Balance(c)
    BY <1>4 DEF RollBack, records, Balance
  <2> QED
    BY <1>4, <2>2, <2>3
    DEF RollBack, records, AllowanceInv, NeverOverdrawn, TerminalHoldsNothing
<1>5. ASSUME NEW N \in SUBSET declared, NEW how \in {"derived", "ended"}, EndNow(N, how)
      PROVE  AllowanceInv'
    BY <1>0, <1>5, EndNowKeeps
<1>6. CASE UNCHANGED vars
  <2>1. \A c \in Contracts : Balance(c)' = Balance(c)
    BY <1>6 DEF vars, records, Balance
  <2> QED
    BY <1>6, <2>1
    DEF vars, records, AllowanceInv, TypeOK, NeverOverdrawn, TerminalHoldsNothing
<1> QED
    BY <1>1, <1>2, <1>3, <1>4, <1>5, <1>6 DEF Next, Step

LEMMA AllowanceInvariant == Spec => []AllowanceInv
BY InitAllowance, AllowanceStep, PTL DEF Spec

-----------------------------------------------------------------------------
(***************************************************************************)
(* Lineage.  What a Contract and everything below it hold is what it was   *)
(* granted, plus what returns credited inside its tree, less what they     *)
(* debited there: reservations only move allowance one level down.  A      *)
(* return moves it up within a tree, so whoever contains the Contract that *)
(* is credited contains the donors too.                                    *)
(***************************************************************************)

\* The tree of c, whether its Contracts are declared yet or not.
Below(c) == {d \in Contracts : d = c \/ c \in Ancestors[d]}

LEMMA ParentAbove ==
    ASSUME NEW x \in Contracts, Ancestors[x] # {}
    PROVE  /\ Parent[x] \in Contracts
           /\ Ancestors[x] = {Parent[x]} \cup Ancestors[Parent[x]]
           /\ Ancestors[Parent[x]] # Ancestors[x]
           /\ Parent[x] # NoContract
<1>1. /\ Ancestors[x] = IF Parent[x] = NoContract THEN {}
                        ELSE {Parent[x]} \cup Ancestors[Parent[x]]
      /\ Parent[x] \in Contracts \cup {NoContract}
  BY ParentAssumption
<1>2. Parent[x] # NoContract /\ Parent[x] \in Contracts
  BY <1>1
<1>3. Parent[x] \notin Ancestors[Parent[x]]
  BY <1>2, ParentAssumption
<1> QED BY <1>1, <1>2, <1>3

LEMMA AncestorsTransitive ==
    ASSUME NEW x \in Contracts, NEW p \in Ancestors[x]
    PROVE  Ancestors[p] \subseteq Ancestors[x]
<1> DEFINE Fails(y) == \E q \in Ancestors[y] : ~ (Ancestors[q] \subseteq Ancestors[y])
           Bad == {Ancestors[y] : y \in {z \in Contracts : Fails(z)}}
<1>1. SUFFICES ASSUME Bad # {} PROVE FALSE
  BY <1>1
<1>2. Bad \in SUBSET SUBSET Contracts /\ IsFiniteSet(Contracts)
  BY ParentAssumption
<1>3. PICK T \in Bad : \A U \in Bad : U \subseteq T => U = T
  <2> HIDE DEF Bad
  <2> QED BY <1>1, <1>2, LeastSubset
<1>4. PICK y \in Contracts : T = Ancestors[y] /\ Fails(y)
  OBVIOUS
<1>5. PICK q \in Ancestors[y] : ~ (Ancestors[q] \subseteq Ancestors[y])
  BY <1>4
<1>6. /\ Parent[y] \in Contracts
      /\ Ancestors[y] = {Parent[y]} \cup Ancestors[Parent[y]]
      /\ Ancestors[Parent[y]] # Ancestors[y]
  BY <1>5, ParentAbove
<1>7. q \in Ancestors[Parent[y]]
  BY <1>5, <1>6
<1>8. ~ Fails(Parent[y])
  BY <1>3, <1>4, <1>6
<1> QED BY <1>5, <1>6, <1>7, <1>8

\* Of two Contracts above a third, one of them a root, the root is the upper one.
LEMMA RootIsOnTop ==
    ASSUME NEW c \in Contracts, Parent[c] = NoContract,
           NEW x \in Contracts, c \in Ancestors[x], NEW s \in Ancestors[x]
    PROVE  s = c \/ c \in Ancestors[s]
<1> DEFINE Fails(y) == /\ c \in Ancestors[y]
                       /\ \E q \in Ancestors[y] : q # c /\ c \notin Ancestors[q]
           Bad == {Ancestors[y] : y \in {z \in Contracts : Fails(z)}}
<1>1. SUFFICES ASSUME Bad # {} PROVE FALSE
  BY <1>1
<1>2. Bad \in SUBSET SUBSET Contracts /\ IsFiniteSet(Contracts)
  BY ParentAssumption
<1>3. PICK T \in Bad : \A U \in Bad : U \subseteq T => U = T
  <2> HIDE DEF Bad
  <2> QED BY <1>1, <1>2, LeastSubset
<1>4. PICK y \in Contracts : T = Ancestors[y] /\ Fails(y)
  OBVIOUS
<1>5. PICK q \in Ancestors[y] : q # c /\ c \notin Ancestors[q]
  BY <1>4
<1>6. /\ Parent[y] \in Contracts
      /\ Ancestors[y] = {Parent[y]} \cup Ancestors[Parent[y]]
      /\ Ancestors[Parent[y]] # Ancestors[y]
  BY <1>5, ParentAbove
<1>7. Ancestors[c] = {}
  BY ParentAssumption
<1>8. q \in Ancestors[Parent[y]] /\ c \in Ancestors[Parent[y]]
  BY <1>4, <1>5, <1>6, <1>7
<1>9. ~ Fails(Parent[y])
  BY <1>3, <1>4, <1>6
<1> QED BY <1>5, <1>8, <1>9

\* Reservations, added up over the Contracts that make them.
LEMMA ReservedWithin ==
    ASSUME NEW D \in SUBSET Contracts, NEW W \in SUBSET Contracts
    PROVE  Total([d \in Contracts |-> Cost[Children(D, d)]], W)
              = Cost[{x \in D : Parent[x] \in W}]
<1> DEFINE f == [d \in Contracts |-> Cost[Children(D, d)]]
           A == {U \in SUBSET Contracts : Total(f, U) = Cost[{x \in D : Parent[x] \in U}]}
<1>0. \A d \in Contracts : f[d] = Cost[Children(D, d)] /\ f[d] \in Int
  BY CostAdds DEF Children
<1> HIDE DEF f
<1>1. {} \in A
  <2>1. {x \in D : Parent[x] \in {}} = {}
    OBVIOUS
  <2> QED BY <2>1, CostAdds, TotalEmpty
<1>2. ASSUME NEW U \in SUBSET Contracts, NEW d \in Contracts \ U, U \in A
      PROVE  U \cup {d} \in A
  <2>1. IsFiniteSet(U) /\ \A x \in U : f[x] \in Int
    BY <1>0, ParentAssumption, FS_Subset
  <2>2. Total(f, U \cup {d}) = f[d] + Total(f, U)
    BY <1>0, <2>1, TotalAdd
  <2> DEFINE S == {x \in D : Parent[x] \in U}
             T == Children(D, d)
  <2>3. S \in SUBSET Contracts /\ T \in SUBSET Contracts /\ S \cap T = {}
    BY DEF Children
  <2>4. {x \in D : Parent[x] \in U \cup {d}} = S \cup T
    BY DEF Children
  <2>5. Total(f, U) = Cost[S] /\ f[d] = Cost[T]
    BY <1>0, <1>2
  <2> HIDE DEF S, T
  <2>6. Cost[S \cup T] = Cost[S] + Cost[T] /\ Cost[S] \in Nat /\ Cost[T] \in Nat
    BY <2>3, CostAdds
  <2>7. Total(f, U \cup {d}) = Cost[S \cup T]
    BY <2>2, <2>5, <2>6
  <2> QED BY <2>4, <2>7
<1>3. \A U \in SUBSET Contracts : U \in A
  <2> HIDE DEF A
  <2>1. IsFiniteSet(Contracts)
    BY ParentAssumption
  <2> QED BY <1>1, <1>2, <2>1, SetInduction
<1>4. Total(f, W) = Cost[{x \in D : Parent[x] \in W}]
  BY <1>3
<1> QED BY <1>4 DEF f

-----------------------------------------------------------------------------
Rooted == \A c \in declared : Parent[c] \in declared \cup {NoContract}

ReturnsDeclared ==
    \A c \in Contracts \ declared : returnedIn[c] = 0 /\ returnedOut[c] = 0

\* A prepared batch declares below what exists and returns within one tree,
\* whatever commits before it does: nothing is ever removed.
BatchInLineage(b) ==
    /\ \A d \in b.children : Parent[d] \in declared \cup b.children \cup {NoContract}
    /\ b.source = NoContract => b.cancelled = {}
    /\ b.source # NoContract => b.source \in declared
    /\ \A x \in b.cancelled : x \in declared /\ b.source \in Ancestors[x]
    /\ b.total = Total(b.gift, b.cancelled)

\* Returns never bring allowance into a tree; they take none out of a root's.
ReturnsUp ==
    \A c \in Contracts :
        /\ Total(returnedIn, Below(c)) <= Total(returnedOut, Below(c))
        /\ Parent[c] = NoContract =>
              Total(returnedIn, Below(c)) = Total(returnedOut, Below(c))

LineageInv ==
    /\ Rooted /\ ReturnsDeclared /\ ReturnsUp
    /\ \A s \in Sessions : BatchInLineage(prepared[s])

\* What a tree holds, said with the returns inside it.
LEMMA HeldIsGrantAndReturns ==
    ASSUME TypeOK, LineageInv, NEW c \in declared
    PROVE  Held(c) = Cost[{c}] + Total(returnedIn, Below(c)) - Total(returnedOut, Below(c))
<1> DEFINE W == Within(c)
           held == [d \in Contracts |-> Balance(d) + extinguished[d]]
           kept == [d \in Contracts |-> Cost[Children(declared, d)]]
<1>1. W \in SUBSET Below(c) /\ Below(c) \in SUBSET Contracts /\ c \in W
  BY DEF TypeOK, Within, Below
<1>2. IsFiniteSet(W) /\ IsFiniteSet(Below(c)) /\ W \in SUBSET Contracts
  BY <1>1, ParentAssumption, FS_Subset
<1>3. \A d \in Below(c) \ W : returnedIn[d] = 0 /\ returnedOut[d] = 0
  BY DEF Within, Below, LineageInv, ReturnsDeclared
<1>4. {x \in declared : Parent[x] \in W} = W \ {c}
  <2>1. ASSUME NEW x \in declared
        PROVE  Parent[x] \in W <=> x \in W /\ x # c
    <3>0. x \in Contracts /\ c \in Contracts
      BY DEF TypeOK
    <3>1. Ancestors[x] = IF Parent[x] = NoContract THEN {}
                         ELSE {Parent[x]} \cup Ancestors[Parent[x]]
      BY <3>0, ParentAssumption
    <3>2. c \notin Ancestors[c] /\ NoContract \notin declared
      BY <3>0, ParentAssumption DEF TypeOK
    <3>3. Parent[x] \in declared \cup {NoContract}
      BY DEF LineageInv, Rooted
    <3>4. ASSUME Parent[x] \in W PROVE x \in W /\ x # c
      <4>1. Parent[x] # NoContract /\ (Parent[x] = c \/ c \in Ancestors[Parent[x]])
        BY <3>2, <3>4 DEF Within
      <4>2. c \in Ancestors[x]
        BY <3>1, <4>1
      <4> QED BY <3>2, <4>2 DEF Within
    <3>5. ASSUME x \in W, x # c PROVE Parent[x] \in W
      <4>1. c \in Ancestors[x]
        BY <3>5 DEF Within
      <4> QED BY <3>1, <3>3, <4>1 DEF Within
    <3> QED BY <3>4, <3>5
  <2> QED BY <2>1 DEF Within
<1> HIDE DEF W
<1>5. Total(kept, W) = Cost[W \ {c}]
  <2>1. declared \in SUBSET Contracts
    BY DEF TypeOK
  <2>2. Total(kept, W) = Cost[{x \in declared : Parent[x] \in W}]
    BY <1>2, <2>1, ReservedWithin
  <2> HIDE DEF kept
  <2> QED BY <1>4, <2>2, Zenon
<1>6. Total(Budget, W) = Cost[{c}] + Cost[W \ {c}]
  <2>1. Total(Budget, W) = Cost[W]
    BY <1>2 DEF Cost
  <2>2. {c} \in SUBSET Contracts /\ W \ {c} \in SUBSET Contracts
        /\ {c} \cap (W \ {c}) = {} /\ {c} \cup (W \ {c}) = W
    BY <1>1, <1>2
  <2> QED BY <2>1, <2>2, CostAdds
<1>7. \A d \in W : /\ Budget[d] \in Int /\ kept[d] \in Int /\ held[d] \in Int
                   /\ returnedIn[d] \in Int /\ returnedOut[d] \in Int
                   /\ held[d] + kept[d] + returnedOut[d] = Budget[d] + returnedIn[d]
  <2> SUFFICES ASSUME NEW d \in W
               PROVE  /\ Budget[d] \in Int /\ kept[d] \in Int /\ held[d] \in Int
                      /\ returnedIn[d] \in Int /\ returnedOut[d] \in Int
                      /\ held[d] + kept[d] + returnedOut[d] = Budget[d] + returnedIn[d]
    OBVIOUS
  <2>1. d \in Contracts
    BY <1>2
  <2>2. Cost[{d}] = Budget[d] /\ Budget[d] \in Nat
    BY <2>1, CostOfOne, BudgetAssumption
  <2>3. kept[d] = Cost[Children(declared, d)] /\ kept[d] \in Nat
    BY <2>1, CostAdds DEF TypeOK, Children
  <2>4. returnedIn[d] \in Nat /\ returnedOut[d] \in Nat /\ extinguished[d] \in Nat
    BY <2>1 DEF TypeOK
  <2>5. held[d] = Budget[d] - kept[d] + returnedIn[d] - returnedOut[d]
                      - extinguished[d] + extinguished[d]
    BY <2>1, <2>2, <2>3 DEF Balance
  <2> HIDE DEF kept, held
  <2> QED BY <2>2, <2>3, <2>4, <2>5
<1> DEFINE one == [d \in W |-> held[d] + kept[d]]
           all == [d \in W |-> Budget[d] + returnedIn[d]]
<1>8. Held(c) = Total(held, W)
  BY DEF Held, W
<1> HIDE DEF held, kept
<1>9. /\ \A d \in W : one[d] = held[d] + kept[d] /\ one[d] \in Int
      /\ \A d \in W : all[d] = Budget[d] + returnedIn[d]
      /\ \A d \in W : all[d] = one[d] + returnedOut[d]
  <2> SUFFICES ASSUME NEW d \in W
               PROVE  /\ one[d] = held[d] + kept[d] /\ one[d] \in Int
                      /\ all[d] = Budget[d] + returnedIn[d]
                      /\ all[d] = one[d] + returnedOut[d]
    OBVIOUS
  <2>1. one[d] = held[d] + kept[d] /\ all[d] = Budget[d] + returnedIn[d]
    OBVIOUS
  <2> HIDE DEF one, all
  <2> QED BY <1>7, <2>1
<1> HIDE DEF one, all
<1>10. /\ Total(one, W) = Total(held, W) + Total(kept, W)
       /\ Total(all, W) = Total(Budget, W) + Total(returnedIn, W)
       /\ Total(all, W) = Total(one, W) + Total(returnedOut, W)
  BY <1>2, <1>7, <1>9, TotalSum
<1>11. /\ Total(held, W) \in Int /\ Total(kept, W) \in Int /\ Total(Budget, W) \in Int
       /\ Total(returnedIn, W) \in Int /\ Total(returnedOut, W) \in Int
  BY <1>2, <1>7, TotalType
<1>12. /\ Total(returnedIn, W) = Total(returnedIn, Below(c))
       /\ Total(returnedOut, W) = Total(returnedOut, Below(c))
  <2>1. \A d \in Below(c) : returnedIn[d] \in Int /\ returnedOut[d] \in Int
    BY <1>1 DEF TypeOK
  <2> QED BY <1>1, <1>2, <1>3, <2>1, TotalWithin
<1>13. Cost[{c}] \in Int /\ Cost[W \ {c}] \in Int
  BY <1>1, <1>2, CostAdds
<1>14. Total(held, W) = Cost[{c}] + Total(returnedIn, W) - Total(returnedOut, W)
  <2> DEFINE inner == Cost[W \ {c}]
  <2>1. Total(kept, W) = inner /\ Total(Budget, W) = Cost[{c}] + inner /\ inner \in Int
    BY <1>5, <1>6, <1>13
  <2> HIDE DEF inner
  <2> QED BY <1>10, <1>11, <1>13, <2>1
<1> QED BY <1>8, <1>12, <1>14

-----------------------------------------------------------------------------
\* What a batch credits and debits inside a tree.
LEMMA CreditWithin ==
    ASSUME NEW b \in Batches, NEW c \in Contracts,
           NEW f, f = [x \in Contracts |-> Credit(b, x)]
    PROVE  Total(f, Below(c)) = IF b.source \in Below(c) THEN b.total ELSE 0
<1>1. /\ IsFiniteSet(Below(c)) /\ Below(c) \in SUBSET Contracts /\ b.total \in Nat
      /\ \A x \in Below(c) : f[x] = IF x = b.source THEN b.total ELSE 0
  BY ParentAssumption, FS_Subset DEF Below, Credit, Batches
<1>2. CASE b.source \in Below(c)
  <2>1. /\ \A x \in Below(c) : f[x] \in Int
        /\ {b.source} \in SUBSET Below(c)
        /\ \A x \in Below(c) \ {b.source} : f[x] = 0
        /\ f[b.source] = b.total /\ f[b.source] \in Int
    BY <1>1, <1>2
  <2>2. Total(f, Below(c)) = Total(f, {b.source})
    BY <1>1, <2>1, TotalWithin
  <2>3. Total(f, {b.source}) = f[b.source]
    BY <2>1, TotalOne
  <2> QED BY <1>2, <2>1, <2>2, <2>3
<1>3. CASE b.source \notin Below(c)
  <2>1. \A x \in Below(c) : f[x] = 0
    BY <1>1, <1>3
  <2>2. Total(f, Below(c)) = 0
    BY <1>1, <2>1, TotalZero
  <2> QED BY <1>3, <2>2
<1> QED BY <1>2, <1>3

LEMMA DebitWithin ==
    ASSUME TypeOK, NEW b \in Batches, BatchInLineage(b), NEW c \in Contracts,
           NEW f, f = [x \in Contracts |-> Debit(b, x)]
    PROVE  /\ Total(f, Below(c)) \in Nat
           /\ b.cancelled \subseteq Below(c) => Total(f, Below(c)) = b.total
           /\ b.cancelled \cap Below(c) = {} => Total(f, Below(c)) = 0
<1>1. /\ IsFiniteSet(Below(c)) /\ Below(c) \in SUBSET Contracts
      /\ b.cancelled \in SUBSET Contracts /\ b.gift \in [Contracts -> Nat]
      /\ \A x \in Contracts : f[x] = IF x \in b.cancelled THEN b.gift[x] ELSE 0
  BY ParentAssumption, FS_Subset DEF Below, Debit, Batches
<1>2. \A x \in Contracts : f[x] \in Nat /\ f[x] \in Int
  BY <1>1
<1>3. Total(f, Below(c)) \in Nat
  BY <1>1, <1>2, TotalNat
<1>4. ASSUME b.cancelled \subseteq Below(c) PROVE Total(f, Below(c)) = b.total
  <2>1. \A x \in Below(c) \ b.cancelled : f[x] = 0
    BY <1>1
  <2>2. Total(f, Below(c)) = Total(f, b.cancelled)
    BY <1>1, <1>2, <1>4, <2>1, TotalWithin
  <2>3. IsFiniteSet(b.cancelled)
    BY <1>1, ParentAssumption, FS_Subset
  <2>4. \A x \in b.cancelled : f[x] \in Int /\ f[x] = b.gift[x]
    BY <1>1, <1>2
  <2>5. Total(f, b.cancelled) = Total(b.gift, b.cancelled)
    BY <2>3, <2>4, TotalSame
  <2> QED BY <2>2, <2>5 DEF BatchInLineage
<1>5. ASSUME b.cancelled \cap Below(c) = {} PROVE Total(f, Below(c)) = 0
  <2>1. \A x \in Below(c) : f[x] = 0
    BY <1>1, <1>5
  <2> QED BY <1>1, <2>1, TotalZero
<1> QED BY <1>3, <1>4, <1>5

\* Whoever contains the Contract that is credited contains the donors; a root
\* contains all of them or none.
LEMMA DonorsInTree ==
    ASSUME TypeOK, NEW b \in Batches, BatchInLineage(b), NEW c \in Contracts
    PROVE  /\ b.source \in Below(c) => b.cancelled \subseteq Below(c)
           /\ Parent[c] = NoContract /\ b.source \notin Below(c)
                 => b.cancelled \cap Below(c) = {}
<1>1. \A x \in b.cancelled : /\ x \in Contracts /\ b.source \in Ancestors[x]
                             /\ b.source \in Contracts
  BY DEF BatchInLineage, TypeOK
<1>2. ASSUME b.source \in Below(c), NEW x \in b.cancelled PROVE x \in Below(c)
  <2>1. b.source = c \/ c \in Ancestors[b.source]
    BY <1>2 DEF Below
  <2>2. Ancestors[b.source] \subseteq Ancestors[x]
    BY <1>1, AncestorsTransitive
  <2> QED BY <1>1, <2>1, <2>2 DEF Below
<1>3. ASSUME Parent[c] = NoContract, b.source \notin Below(c),
             NEW x \in b.cancelled, x \in Below(c)
      PROVE  FALSE
  <2>1. x \in Contracts /\ b.source \in Ancestors[x] /\ b.source \in Contracts
    BY <1>1
  <2>2. b.source # c /\ c \notin Ancestors[b.source]
    BY <1>3, <2>1 DEF Below
  <2>3. CASE x = c
    <3>1. Ancestors[c] = {}
      BY <1>3, ParentAssumption
    <3> QED BY <2>1, <2>3, <3>1
  <2>4. CASE c \in Ancestors[x]
    BY <1>3, <2>1, <2>2, <2>4, RootIsOnTop
  <2> QED BY <1>3, <2>3, <2>4 DEF Below
<1> QED BY <1>2, <1>3

LEMMA CommitReturnsUp ==
    ASSUME TypeOK, ReturnsUp, NEW b \in Batches, BatchInLineage(b),
           returnedIn' = [x \in Contracts |-> returnedIn[x] + Credit(b, x)],
           returnedOut' = [x \in Contracts |-> returnedOut[x] + Debit(b, x)]
    PROVE  ReturnsUp'
<1> SUFFICES ASSUME NEW c \in Contracts
             PROVE  /\ Total(returnedIn', Below(c)) <= Total(returnedOut', Below(c))
                    /\ Parent[c] = NoContract =>
                          Total(returnedIn', Below(c)) = Total(returnedOut', Below(c))
  BY DEF ReturnsUp
<1> PICK in : in = [x \in Contracts |-> Credit(b, x)]
  OBVIOUS
<1> PICK out : out = [x \in Contracts |-> Debit(b, x)]
  OBVIOUS
<1>1. IsFiniteSet(Below(c)) /\ Below(c) \in SUBSET Contracts /\ b.total \in Nat
  BY ParentAssumption, FS_Subset DEF Below, Batches
<1>2. \A x \in Below(c) :
          /\ returnedIn[x] \in Int /\ in[x] \in Int
          /\ returnedIn'[x] = returnedIn[x] + in[x]
          /\ returnedOut[x] \in Int /\ out[x] \in Int
          /\ returnedOut'[x] = returnedOut[x] + out[x]
  <2> SUFFICES ASSUME NEW x \in Contracts
               PROVE  /\ returnedIn[x] \in Int /\ in[x] \in Int
                      /\ returnedIn'[x] = returnedIn[x] + in[x]
                      /\ returnedOut[x] \in Int /\ out[x] \in Int
                      /\ returnedOut'[x] = returnedOut[x] + out[x]
    BY <1>1
  <2>1. Credit(b, x) \in Nat /\ Debit(b, x) \in Nat
    BY AmountTypes
  <2>2. in[x] = Credit(b, x) /\ out[x] = Debit(b, x)
    OBVIOUS
  <2> QED BY <2>1, <2>2 DEF TypeOK
<1>3. /\ Total(returnedIn', Below(c)) = Total(returnedIn, Below(c)) + Total(in, Below(c))
      /\ Total(returnedOut', Below(c)) = Total(returnedOut, Below(c)) + Total(out, Below(c))
  <2>1. PICK newIn : newIn = returnedIn'
    OBVIOUS
  <2>2. PICK newOut : newOut = returnedOut'
    OBVIOUS
  <2>3. Total(newIn, Below(c)) = Total(returnedIn, Below(c)) + Total(in, Below(c))
    <3>1. \A x \in Below(c) : /\ returnedIn[x] \in Int /\ in[x] \in Int
                              /\ newIn[x] = returnedIn[x] + in[x]
      BY <1>2, <2>1
    <3> QED BY <1>1, <3>1, TotalSum
  <2>4. Total(newOut, Below(c)) = Total(returnedOut, Below(c)) + Total(out, Below(c))
    <3>1. \A x \in Below(c) : /\ returnedOut[x] \in Int /\ out[x] \in Int
                              /\ newOut[x] = returnedOut[x] + out[x]
      BY <1>2, <2>2
    <3> QED BY <1>1, <3>1, TotalSum
  <2> QED BY <2>1, <2>2, <2>3, <2>4
<1>4. Total(returnedIn, Below(c)) \in Int /\ Total(returnedOut, Below(c)) \in Int
  BY <1>1, <1>2, TotalType
<1>5. Total(in, Below(c)) = IF b.source \in Below(c) THEN b.total ELSE 0
  BY CreditWithin
<1>6. /\ Total(out, Below(c)) \in Nat
      /\ b.source \in Below(c) => Total(out, Below(c)) = b.total
      /\ Parent[c] = NoContract /\ b.source \notin Below(c) => Total(out, Below(c)) = 0
  BY DebitWithin, DonorsInTree
<1>7. /\ Total(returnedIn, Below(c)) <= Total(returnedOut, Below(c))
      /\ Parent[c] = NoContract =>
            Total(returnedIn, Below(c)) = Total(returnedOut, Below(c))
  BY DEF ReturnsUp
<1> QED BY <1>1, <1>3, <1>4, <1>5, <1>6, <1>7

-----------------------------------------------------------------------------
LEMMA NoBatchInLineage == BatchInLineage(NoBatch)
BY TotalEmpty DEF BatchInLineage, NoBatch

LEMMA InitLineage == Init => LineageInv
<1> SUFFICES ASSUME Init PROVE LineageInv
  OBVIOUS
<1>1. Rooted
  BY GenesisAssumption DEF Init, Rooted
<1>2. ReturnsDeclared
  BY DEF Init, ReturnsDeclared, Zero
<1>3. ReturnsUp
  <2> SUFFICES ASSUME NEW c \in Contracts
               PROVE  /\ Total(returnedIn, Below(c)) = 0
                      /\ Total(returnedOut, Below(c)) = 0
    BY DEF ReturnsUp
  <2>1. /\ IsFiniteSet(Below(c))
        /\ \A x \in Below(c) : returnedIn[x] = 0 /\ returnedOut[x] = 0
    BY ParentAssumption, FS_Subset DEF Below, Init, Zero
  <2> QED BY <2>1, TotalZero
<1>4. \A s \in Sessions : BatchInLineage(prepared[s])
  BY NoBatchInLineage DEF Init
<1> QED BY <1>1, <1>2, <1>3, <1>4 DEF LineageInv

\* A batch stays within its lineage whatever else is declared.
LEMMA BatchStaysInLineage ==
    ASSUME NEW b, BatchInLineage(b), declared \subseteq declared'
    PROVE  BatchInLineage(b)'
BY DEF BatchInLineage

LEMMA ProjectKeepsLineage ==
    ASSUME TypeOK, LineageInv, NEW s \in Sessions, NEW b \in Batches,
           BatchInLineage(b), Project(s, b)
    PROVE  LineageInv'
<1>1. UNCHANGED records /\ prepared' = [prepared EXCEPT ![s] = [b EXCEPT !.amount = Amounts(b)]]
  BY DEF Project
<1>2. Rooted' /\ ReturnsDeclared' /\ ReturnsUp'
  BY <1>1 DEF records, LineageInv, Rooted, ReturnsDeclared, ReturnsUp
<1>3. ASSUME NEW t \in Sessions PROVE BatchInLineage(prepared[t])'
  <2> DEFINE p == prepared'[t]
  <2>1. BatchInLineage(p)
    <3>1. CASE t = s
      <4>1. p = [b EXCEPT !.amount = Amounts(b)]
        BY <1>1, <3>1 DEF TypeOK
      <4>2. /\ p.children = b.children /\ p.source = b.source /\ p.total = b.total
            /\ p.cancelled = b.cancelled /\ p.gift = b.gift
        BY <4>1 DEF Batches
      <4> HIDE DEF p
      <4> QED BY <4>2 DEF BatchInLineage
    <3>2. CASE t # s
      BY <1>1, <3>2 DEF TypeOK, LineageInv
    <3> QED BY <3>1, <3>2
  <2> HIDE DEF p
  <2>2. declared' = declared
    BY <1>1 DEF records
  <2> QED BY <2>1, <2>2 DEF BatchInLineage, p
<1> QED BY <1>2, <1>3 DEF LineageInv

LEMMA CommitKeepsLineage ==
    ASSUME TypeOK, LineageInv, NEW s \in Sessions, NEW M \in SUBSET Contracts, Commit(s, M)
    PROVE  LineageInv'
<1> PICK b : b = prepared[s]
  OBVIOUS
<1>1. b \in Batches /\ BatchInLineage(b)
  BY DEF TypeOK, LineageInv
<1>2. /\ Committable(b)
      /\ declared' = declared \cup b.children
      /\ returnedIn' = [x \in Contracts |-> returnedIn[x] + Credit(b, x)]
      /\ returnedOut' = [x \in Contracts |-> returnedOut[x] + Debit(b, x)]
      /\ prepared' = [prepared EXCEPT ![s] = NoBatch]
  BY DEF Commit
<1>3. Rooted'
  BY <1>1, <1>2 DEF LineageInv, Rooted, BatchInLineage
<1>4. ReturnsDeclared'
  <2> SUFFICES ASSUME NEW c \in Contracts, c \notin declared'
               PROVE  returnedIn'[c] = 0 /\ returnedOut'[c] = 0
    BY DEF ReturnsDeclared
  <2>1. c \notin declared /\ returnedIn[c] = 0 /\ returnedOut[c] = 0
    BY <1>2 DEF LineageInv, ReturnsDeclared
  <2>2. c # b.source /\ c \notin b.cancelled
    BY <1>1, <2>1, ParentAssumption DEF BatchInLineage
  <2> QED BY <1>2, <2>1, <2>2 DEF Credit, Debit
<1>5. ReturnsUp'
  BY <1>1, <1>2, CommitReturnsUp DEF LineageInv
<1>6. ASSUME NEW t \in Sessions PROVE BatchInLineage(prepared[t])'
  <2>1. PICK p : p = prepared'[t]
    OBVIOUS
  <2>2. BatchInLineage(p)
    BY <1>2, <2>1, NoBatchInLineage DEF TypeOK, LineageInv
  <2>3. BatchInLineage(p)'
    BY <1>2, <2>2, BatchStaysInLineage
  <2> QED BY <2>1, <2>3 DEF BatchInLineage
<1> QED BY <1>3, <1>4, <1>5, <1>6 DEF LineageInv

LEMMA LineageStep == AllowanceInv /\ LineageInv /\ [Next]_vars => LineageInv'
<1> SUFFICES ASSUME AllowanceInv, LineageInv, [Next]_vars PROVE LineageInv'
  OBVIOUS
<1>0. TypeOK /\ declared \in SUBSET Contracts
  BY DEF AllowanceInv, TypeOK
<1>1. ASSUME NEW s \in Sessions, NEW D \in SUBSET (Contracts \ declared),
             NEW E \in SUBSET declared, NEW F \in SUBSET declared,
             ProjectBatch(s, D, E, F)
      PROVE  LineageInv'
  <2> DEFINE b == [NoBatch EXCEPT !.children = D, !.ended = E, !.derived = F]
  <2>1. b \in Batches
    BY <1>0 DEF NoBatch, Batches, Zero
  <2>2. Project(s, b) /\ Publishable(b)
    BY <1>1 DEF ProjectBatch, Project
  <2>3. /\ b.source = NoContract /\ b.cancelled = {} /\ b.total = 0
        /\ \A d \in b.children : Parent[d] \in declared \cup b.children \cup {NoContract}
    BY <2>2 DEF NoBatch, Publishable
  <2> HIDE DEF b
  <2>4. BatchInLineage(b)
    BY <2>3, TotalEmpty DEF BatchInLineage
  <2> QED BY <1>0, <2>1, <2>2, <2>4, ProjectKeepsLineage
<1>2. ASSUME NEW s \in Sessions, NEW c \in declared, NEW n \in Contracts,
             NEW X \in SUBSET LiveBelow(c), NEW Y \in SUBSET LiveBelow(c),
             ProjectHandoff(s, c, n, X, Y)
      PROVE  LineageInv'
  <2> DEFINE gift == [x \in Contracts |-> IF x \in X THEN Available(x) ELSE 0]
             b == [NoBatch EXCEPT !.children = {n}, !.ended = {c} \cup X \cup Y,
                       !.source = c, !.cancelled = X, !.gift = gift,
                       !.total = Total(gift, X), !.below = LiveBelow(c),
                       !.held = Available(c)]
  <2>1. Project(s, b) /\ Publishable(b) /\ Parent[n] = c
    BY <1>2 DEF ProjectHandoff, Project
  <2>2. \A x \in Contracts : Available(x) \in Nat
    BY <1>0, AmountTypes, NoBatchNeutral
  <2>3. gift \in [Contracts -> Nat] /\ X \in SUBSET Contracts /\ Y \in SUBSET Contracts
        /\ LiveBelow(c) \in SUBSET Contracts /\ \A x \in X : x \in declared /\ c \in Ancestors[x]
    BY <1>0, <2>2 DEF LiveBelow
  <2>4. Total(gift, X) \in Nat
    <3>1. IsFiniteSet(X) /\ \A x \in X : gift[x] \in Nat
      BY <2>3, ParentAssumption, FS_Subset
    <3> HIDE DEF gift
    <3> QED BY <3>1, TotalNat
  <2> HIDE DEF gift
  <2>5. b \in Batches
    BY <1>0, <2>2, <2>3, <2>4 DEF NoBatch, Batches, Zero
  <2>6. /\ b.children = {n} /\ b.source = c /\ b.cancelled = X
        /\ b.gift = gift /\ b.total = Total(gift, X)
    BY DEF NoBatch
  <2> HIDE DEF b
  <2>7. BatchInLineage(b)
    <3>1. c # NoContract
      BY <1>0, ParentAssumption
    <3> QED BY <2>1, <2>3, <2>6, <3>1 DEF BatchInLineage
  <2> QED BY <1>0, <2>1, <2>5, <2>7, ProjectKeepsLineage
<1>3. ASSUME NEW s \in Sessions, NEW M \in SUBSET declared, Commit(s, M)
      PROVE  LineageInv'
  BY <1>0, <1>3, CommitKeepsLineage
<1>4. CASE /\ UNCHANGED <<declared, returnedIn, returnedOut>>
           /\ \/ \E s \in Sessions : prepared' = [prepared EXCEPT ![s] = NoBatch]
              \/ UNCHANGED prepared
  <2>1. Rooted' /\ ReturnsDeclared' /\ ReturnsUp'
    BY <1>4 DEF LineageInv, Rooted, ReturnsDeclared, ReturnsUp
  <2>2. ASSUME NEW t \in Sessions PROVE BatchInLineage(prepared[t])'
    <3>1. PICK p : p = prepared'[t]
      OBVIOUS
    <3>2. BatchInLineage(p)
      BY <1>0, <1>4, <3>1, NoBatchInLineage DEF TypeOK, LineageInv
    <3> QED BY <1>4, <3>1, <3>2 DEF BatchInLineage
  <2> QED BY <2>1, <2>2 DEF LineageInv
<1> QED BY <1>1, <1>2, <1>3, <1>4 DEF Next, Step, RollBack, EndNow, records, vars

LEMMA LineageInvariant == Spec => [](AllowanceInv /\ LineageInv)
BY InitAllowance, AllowanceStep, InitLineage, LineageStep, PTL DEF Spec

-----------------------------------------------------------------------------
\* Every reachable state is well typed, whatever the forest and the budgets.
THEOREM AllowanceTypeCorrect == Spec => []TypeOK
BY AllowanceInvariant, PTL DEF AllowanceInv

\* No Contract spends, returns or burns more than it has: the check made before
\* the lock may be stale, the one made under it is not (causal_allowance.py).
THEOREM NobodyOverdraws == Spec => []NeverOverdrawn
BY AllowanceInvariant, PTL DEF AllowanceInv

\* An outcome takes the whole balance, even in a batch that also reserves from
\* the Contract, credits it, or debits it.
THEOREM OutcomesSettle == Spec => []TerminalHoldsNothing
BY AllowanceInvariant, PTL DEF AllowanceInv

LEMMA HeldBalances ==
    ASSUME TypeOK, LineageInv, NEW c \in declared
    PROVE  /\ Held(c) <= Cost[{c}]
           /\ Parent[c] = NoContract => Held(c) = Cost[{c}]
<1>1. IsFiniteSet(Below(c)) /\ c \in Contracts
      /\ \A x \in Below(c) : returnedIn[x] \in Int /\ returnedOut[x] \in Int
  BY ParentAssumption, FS_Subset DEF Below, TypeOK
<1>2. Total(returnedIn, Below(c)) \in Int /\ Total(returnedOut, Below(c)) \in Int
  BY <1>1, TotalType
<1>3. Cost[{c}] \in Nat
  BY <1>1, CostAdds
<1>4. Held(c) = Cost[{c}] + Total(returnedIn, Below(c)) - Total(returnedOut, Below(c))
  BY HeldIsGrantAndReturns
<1>5. /\ Total(returnedIn, Below(c)) <= Total(returnedOut, Below(c))
      /\ Parent[c] = NoContract =>
            Total(returnedIn, Below(c)) = Total(returnedOut, Below(c))
  BY <1>1 DEF LineageInv, ReturnsUp
<1> QED BY <1>2, <1>3, <1>4, <1>5

\* Allowance is lineage authority: whatever is published, handed off, returned and
\* ended in whatever order, a Contract and all below it never have or burn more
\* than the Contract was granted.
THEOREM LineageIsBounded == Spec => []LineageBounded
<1>1. AllowanceInv /\ LineageInv => LineageBounded
  BY HeldBalances DEF AllowanceInv, LineageBounded
<1> QED BY <1>1, LineageInvariant, PTL

\* ... and a root and all below it exactly what the root was granted: stale
\* projections, returns and roll-backs neither mint nor lose a unit.
THEOREM AllowanceIsConserved == Spec => []Conserved
<1>1. AllowanceInv /\ LineageInv => Conserved
  BY HeldBalances DEF AllowanceInv, Conserved
<1> QED BY <1>1, LineageInvariant, PTL
=============================================================================
