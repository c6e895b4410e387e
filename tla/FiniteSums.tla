----------------------------- MODULE FiniteSums -----------------------------
(***************************************************************************)
(* Facts about sums over finite sets, SumFunctionOnSet of the community    *)
(* module Functions: the empty sum, one element more or less, the type,    *)
(* and that the sum depends on no more than the values that are added.     *)
(*                                                                         *)
(* The sum is defined by a recursive function over the subsets of the set. *)
(* That there is such a function, and what it computes, is proved by       *)
(* induction over the subsets of a finite set, which are well-founded by   *)
(* inclusion.  The property to be proved is given as the set of the        *)
(* subsets that have it.                                                   *)
(***************************************************************************)
EXTENDS FiniteSetsExt, FiniteSetTheorems, TLAPS

(***************************************************************************)
(* A finite set is in G if a subset of it is in G whenever all its own     *)
(* proper subsets are.                                                     *)
(***************************************************************************)
LEMMA SubsetInduction ==
    ASSUME NEW S, IsFiniteSet(S), NEW G,
           \A T \in SUBSET S : (\A U \in SUBSET T : U # T => U \in G) => T \in G
    PROVE  S \in G
<1> DEFINE Bad == { T \in SUBSET S : T \notin G }
           R == StrictSubsetOrdering(S)
<1>1. IsWellFoundedOn(R, SUBSET S)
  BY FS_StrictSubsetOrderingWellFounded, FS_FiniteSubsetsOfFinite
<1>2. SUFFICES ASSUME Bad # {} PROVE FALSE
  BY S \in SUBSET S
<1>3. PICK T \in Bad : \A U \in Bad : ~ (<<U, T>> \in R)
  <2> HIDE DEF R
  <2>1. Bad \subseteq SUBSET S
    OBVIOUS
  <2> HIDE DEF Bad
  <2> QED
    BY <1>1, <1>2, <2>1, WFMin
<1>4. ASSUME NEW U \in SUBSET T, U # T PROVE U \in G
  BY <1>3, <1>4 DEF StrictSubsetOrdering
<1> QED
  BY <1>3, <1>4

-----------------------------------------------------------------------------
(* The recursive function of the sum.                                      *)

Pick(s) == CHOOSE x \in s : TRUE

\* h adds up f over every subset of T, in the order of Pick.
AddsUp(h, f, T) ==
    h = [s \in SUBSET T |-> IF s = {} THEN 0 ELSE f[Pick(s)] + h[s \ {Pick(s)}]]

Adder(f, T) == CHOOSE h : AddsUp(h, f, T)

LEMMA SumIsAdder ==
    ASSUME NEW f, NEW S
    PROVE  SumFunctionOnSet(f, S) = Adder(f, S)[S]
BY DEF SumFunctionOnSet, FoldFunctionOnSet, MapThenFoldSet, Adder, AddsUp, Pick

LEMMA AddsUpAt ==
    ASSUME NEW h, NEW f, NEW T, AddsUp(h, f, T), NEW s \in SUBSET T
    PROVE  h[s] = IF s = {} THEN 0 ELSE f[Pick(s)] + h[s \ {Pick(s)}]
<1> HIDE DEF Pick
<1> QED
  BY DEF AddsUp

LEMMA PickIsIn == ASSUME NEW s, s # {} PROVE Pick(s) \in s
BY DEF Pick

LEMMA AddersAgree ==
    ASSUME NEW f, NEW h, NEW T, AddsUp(h, f, T), NEW k, NEW U, AddsUp(k, f, U),
           NEW S, IsFiniteSet(S), S \subseteq T, S \subseteq U
    PROVE  h[S] = k[S]
<1> DEFINE G == { s \in SUBSET S : h[s] = k[s] }
<1>1. ASSUME NEW s \in SUBSET S, \A u \in SUBSET s : u # s => u \in G
      PROVE  s \in G
  <2>1. CASE s = {}
    <3>1. {} \in SUBSET T /\ {} \in SUBSET U
      OBVIOUS
    <3>2. h[{}] = 0 /\ k[{}] = 0
      BY <3>1, AddsUpAt
    <3> QED
      BY <2>1, <3>2
  <2>2. CASE s # {}
    <3>1. s \ {Pick(s)} \in G
      BY <1>1, <2>2, PickIsIn
    <3>2. h[s] = f[Pick(s)] + h[s \ {Pick(s)}]
      <4>1. s \in SUBSET T
        OBVIOUS
      <4> QED
        BY <2>2, <4>1, AddsUpAt
    <3>3. k[s] = f[Pick(s)] + k[s \ {Pick(s)}]
      <4>1. s \in SUBSET U
        OBVIOUS
      <4> QED
        BY <2>2, <4>1, AddsUpAt
    <3> QED
      BY <3>1, <3>2, <3>3
  <2> QED
    BY <2>1, <2>2
<1>2. S \in G
  <2> HIDE DEF G
  <2> QED
    BY <1>1, SubsetInduction
<1> QED
  BY <1>2

LEMMA AdderAt ==
    ASSUME NEW f, NEW S, AddsUp(Adder(f, S), f, S)
    PROVE  Adder(f, S)[S] = IF S = {} THEN 0 ELSE f[Pick(S)] + Adder(f, S)[S \ {Pick(S)}]
<1> DEFINE h == Adder(f, S)
<1>1. AddsUp(h, f, S) /\ S \in SUBSET S
  OBVIOUS
<1> HIDE DEF h
<1>2. h[S] = IF S = {} THEN 0 ELSE f[Pick(S)] + h[S \ {Pick(S)}]
  BY <1>1, AddsUpAt
<1> QED
  BY <1>2 DEF h

LEMMA AdderAddsUp ==
    ASSUME NEW f, NEW S, IsFiniteSet(S)
    PROVE  AddsUp(Adder(f, S), f, S)
<1> DEFINE G == { T \in SUBSET S : \E h : AddsUp(h, f, T) }
<1>1. ASSUME NEW T \in SUBSET S, \A U \in SUBSET T : U # T => U \in G
      PROVE  T \in G
  <2> DEFINE Rest(s) == s \ {Pick(s)}
             k == [s \in SUBSET T |->
                     IF s = {} THEN 0 ELSE f[Pick(s)] + Adder(f, Rest(s))[Rest(s)]]
  <2>1. ASSUME NEW U \in SUBSET T, U # T
        PROVE  AddsUp(Adder(f, U), f, U)
    BY <1>1, <2>1 DEF Adder
  <2>2. ASSUME NEW s \in SUBSET T, s # {}
        PROVE  k[Rest(s)] = Adder(f, Rest(s))[Rest(s)]
    <3> DEFINE u == Rest(s)
    <3>1. u \in SUBSET T /\ u # T /\ IsFiniteSet(u)
      BY <2>2, PickIsIn, FS_Subset
    <3>2. AddsUp(Adder(f, u), f, u)
      BY <2>1, <3>1
    <3>3. Adder(f, u)[u] = IF u = {} THEN 0 ELSE f[Pick(u)] + Adder(f, u)[Rest(u)]
      BY <3>2, AdderAt
    <3>4. ASSUME u # {} PROVE Adder(f, u)[Rest(u)] = Adder(f, Rest(u))[Rest(u)]
      <4>1. Rest(u) \in SUBSET T /\ Rest(u) # T /\ IsFiniteSet(Rest(u)) /\ Rest(u) \subseteq u
        BY <3>1, <3>4, PickIsIn, FS_Subset
      <4>2. AddsUp(Adder(f, Rest(u)), f, Rest(u))
        BY <2>1, <4>1
      <4> QED
        BY <3>2, <4>1, <4>2, AddersAgree
    <3>5. k[u] = IF u = {} THEN 0 ELSE f[Pick(u)] + Adder(f, Rest(u))[Rest(u)]
      BY <3>1
    <3> QED
      BY <3>3, <3>4, <3>5
  <2>3. AddsUp(k, f, T)
    <3>1. k = [s \in SUBSET T |-> IF s = {} THEN 0 ELSE f[Pick(s)] + k[Rest(s)]]
      BY <2>2
    <3> QED
      BY <3>1 DEF AddsUp
  <2> HIDE DEF k
  <2> QED
    BY <2>3
<1>2. S \in G
  <2> HIDE DEF G
  <2> QED
    BY <1>1, SubsetInduction
<1> QED
  BY <1>2 DEF Adder

-----------------------------------------------------------------------------
(* Sums.                                                                   *)

LEMMA SumOfNone == ASSUME NEW f PROVE SumFunctionOnSet(f, {}) = 0
<1>1. IsFiniteSet({})
  BY FS_EmptySet
<1> QED
  BY <1>1, SumIsAdder, AdderAddsUp, AdderAt

LEMMA SumUnfolds ==
    ASSUME NEW f, NEW S, IsFiniteSet(S), S # {}
    PROVE  SumFunctionOnSet(f, S) =
               f[Pick(S)] + SumFunctionOnSet(f, S \ {Pick(S)})
<1> DEFINE R == S \ {Pick(S)}
<1>1. IsFiniteSet(R) /\ R \subseteq S
  BY FS_Subset
<1>2. Adder(f, S)[S] = f[Pick(S)] + Adder(f, S)[R]
  BY AdderAddsUp, AdderAt
<1>3. Adder(f, S)[R] = Adder(f, R)[R]
  <2> HIDE DEF R
  <2> QED
    BY <1>1, AdderAddsUp, AddersAgree
<1> QED
  BY <1>2, <1>3, SumIsAdder

LEMMA SumIsNat ==
    ASSUME NEW S, IsFiniteSet(S), NEW f, \A x \in S : f[x] \in Nat
    PROVE  SumFunctionOnSet(f, S) \in Nat
<1> DEFINE G == { T \in SUBSET S : SumFunctionOnSet(f, T) \in Nat }
<1>1. ASSUME NEW T \in SUBSET S, \A U \in SUBSET T : U # T => U \in G
      PROVE  T \in G
  <2>1. CASE T = {}
    BY <2>1, SumOfNone
  <2>2. CASE T # {}
    <3>1. IsFiniteSet(T) /\ Pick(T) \in T
      BY <2>2, FS_Subset, PickIsIn
    <3>2. T \ {Pick(T)} \in G
      BY <1>1, <3>1
    <3>3. f[Pick(T)] \in Nat /\ SumFunctionOnSet(f, T \ {Pick(T)}) \in Nat
      BY <3>1, <3>2
    <3>4. SumFunctionOnSet(f, T) = f[Pick(T)] + SumFunctionOnSet(f, T \ {Pick(T)})
      BY <2>2, <3>1, SumUnfolds
    <3> QED
      BY <3>3, <3>4
  <2> QED
    BY <2>1, <2>2
<1>2. S \in G
  <2> HIDE DEF G
  <2> QED
    BY <1>1, SubsetInduction
<1> QED
  BY <1>2

LEMMA SumWithout ==
    ASSUME NEW S, IsFiniteSet(S), NEW f, \A x \in S : f[x] \in Nat, NEW x \in S
    PROVE  SumFunctionOnSet(f, S) = f[x] + SumFunctionOnSet(f, S \ {x})
<1> DEFINE G == { T \in SUBSET S : \A y \in T :
                    SumFunctionOnSet(f, T) = f[y] + SumFunctionOnSet(f, T \ {y}) }
<1>1. ASSUME NEW T \in SUBSET S, \A U \in SUBSET T : U # T => U \in G
      PROVE  T \in G
  <2> SUFFICES ASSUME NEW y \in T
               PROVE  SumFunctionOnSet(f, T) = f[y] + SumFunctionOnSet(f, T \ {y})
    OBVIOUS
  <2> DEFINE p == Pick(T)
  <2>1. IsFiniteSet(T) /\ p \in T
    BY FS_Subset, PickIsIn
  <2>2. SumFunctionOnSet(f, T) = f[p] + SumFunctionOnSet(f, T \ {p})
    BY <2>1, SumUnfolds
  <2> HIDE DEF p
  <2>3. CASE y = p
    BY <2>2, <2>3
  <2>4. CASE y # p
    <3>1. T \ {p} \in G /\ T \ {y} \in G /\ y \in T \ {p} /\ p \in T \ {y}
      BY <1>1, <2>1, <2>4
    <3>2. /\ SumFunctionOnSet(f, T \ {p}) = f[y] + SumFunctionOnSet(f, (T \ {p}) \ {y})
          /\ SumFunctionOnSet(f, T \ {y}) = f[p] + SumFunctionOnSet(f, (T \ {y}) \ {p})
      BY <3>1
    <3>3. (T \ {p}) \ {y} = (T \ {y}) \ {p}
      OBVIOUS
    <3>4. f[y] \in Nat /\ f[p] \in Nat
      BY <2>1
    <3>5. SumFunctionOnSet(f, (T \ {y}) \ {p}) \in Nat
      <4>1. IsFiniteSet((T \ {y}) \ {p})
        BY <2>1, FS_Subset
      <4> QED
        BY <4>1, SumIsNat
    <3> QED
      BY <2>2, <3>2, <3>3, <3>4, <3>5
  <2> QED
    BY <2>3, <2>4
<1>2. S \in G
  <2> HIDE DEF G
  <2> QED
    BY <1>1, SubsetInduction
<1> QED
  BY <1>2

LEMMA SumWith ==
    ASSUME NEW S, IsFiniteSet(S), NEW f, \A y \in S : f[y] \in Nat,
           NEW x, x \notin S, f[x] \in Nat
    PROVE  SumFunctionOnSet(f, S \cup {x}) = SumFunctionOnSet(f, S) + f[x]
<1>1. IsFiniteSet(S \cup {x}) /\ (S \cup {x}) \ {x} = S
  BY FS_AddElement
<1>2. SumFunctionOnSet(f, S \cup {x}) = f[x] + SumFunctionOnSet(f, S)
  <2>1. \A y \in S \cup {x} : f[y] \in Nat
    OBVIOUS
  <2> DEFINE T == S \cup {x}
  <2>2. x \in T
    OBVIOUS
  <2> HIDE DEF T
  <2>3. SumFunctionOnSet(f, T) = f[x] + SumFunctionOnSet(f, T \ {x})
    BY <1>1, <2>1, <2>2, SumWithout DEF T
  <2> QED
    BY <1>1, <2>3 DEF T
<1>3. SumFunctionOnSet(f, S) \in Nat
  BY SumIsNat
<1> QED
  BY <1>2, <1>3

LEMMA SumOfEqual ==
    ASSUME NEW S, IsFiniteSet(S), NEW f, NEW g, \A x \in S : f[x] = g[x]
    PROVE  SumFunctionOnSet(f, S) = SumFunctionOnSet(g, S)
<1> DEFINE G == { T \in SUBSET S : SumFunctionOnSet(f, T) = SumFunctionOnSet(g, T) }
<1>1. ASSUME NEW T \in SUBSET S, \A U \in SUBSET T : U # T => U \in G
      PROVE  T \in G
  <2>1. CASE T = {}
    BY <2>1, SumOfNone
  <2>2. CASE T # {}
    <3>1. IsFiniteSet(T) /\ Pick(T) \in T
      BY <2>2, FS_Subset, PickIsIn
    <3>2. T \ {Pick(T)} \in G
      BY <1>1, <3>1
    <3>3. /\ SumFunctionOnSet(f, T) = f[Pick(T)] + SumFunctionOnSet(f, T \ {Pick(T)})
          /\ SumFunctionOnSet(g, T) = g[Pick(T)] + SumFunctionOnSet(g, T \ {Pick(T)})
      BY <2>2, <3>1, SumUnfolds
    <3> QED
      BY <3>1, <3>2, <3>3
  <2> QED
    BY <2>1, <2>2
<1>2. S \in G
  <2> HIDE DEF G
  <2> QED
    BY <1>1, SubsetInduction
<1> QED
  BY <1>2

\* A sum is that of a part and that of the rest.
LEMMA SumSplits ==
    ASSUME NEW S, IsFiniteSet(S), NEW f, \A x \in S : f[x] \in Nat, NEW P \in SUBSET S
    PROVE  SumFunctionOnSet(f, S) = SumFunctionOnSet(f, P) + SumFunctionOnSet(f, S \ P)
<1> DEFINE G == { T \in SUBSET P :
                    SumFunctionOnSet(f, S) = SumFunctionOnSet(f, T) + SumFunctionOnSet(f, S \ T) }
<1>0. IsFiniteSet(P)
  BY FS_Subset
<1>1. ASSUME NEW T \in SUBSET P, \A U \in SUBSET T : U # T => U \in G
      PROVE  T \in G
  <2>1. CASE T = {}
    <3>1. S \ T = S /\ SumFunctionOnSet(f, T) = 0
      BY <2>1, SumOfNone
    <3>2. SumFunctionOnSet(f, S) \in Nat
      BY SumIsNat
    <3> QED
      BY <3>1, <3>2
  <2>2. CASE T # {}
    <3>1. PICK x \in T : TRUE
      BY <2>2
    <3> DEFINE U == T \ {x}
    <3>2. /\ IsFiniteSet(T) /\ IsFiniteSet(U) /\ IsFiniteSet(S \ T) /\ IsFiniteSet(S \ U)
          /\ U \subseteq S /\ T \subseteq S /\ f[x] \in Nat
      BY FS_Subset
    <3>3. SumFunctionOnSet(f, S) = SumFunctionOnSet(f, U) + SumFunctionOnSet(f, S \ U)
      BY <1>1
    <3>4. SumFunctionOnSet(f, T) = f[x] + SumFunctionOnSet(f, U)
      BY <3>2, SumWithout
    <3>5. SumFunctionOnSet(f, S \ U) = f[x] + SumFunctionOnSet(f, S \ T)
      <4>1. x \in S \ U /\ (S \ U) \ {x} = S \ T /\ \A y \in S \ U : f[y] \in Nat
        BY <3>2
      <4> DEFINE V == S \ U
      <4> HIDE DEF V
      <4>2. SumFunctionOnSet(f, V) = f[x] + SumFunctionOnSet(f, V \ {x})
        BY <3>2, <4>1, SumWithout DEF V
      <4> QED
        BY <4>1, <4>2 DEF V
    <3>6. SumFunctionOnSet(f, U) \in Nat /\ SumFunctionOnSet(f, S \ T) \in Nat
      BY <3>2, SumIsNat
    <3> HIDE DEF U
    <3> QED
      BY <3>2, <3>3, <3>4, <3>5, <3>6
  <2> QED
    BY <2>1, <2>2
<1>2. P \in G
  <2> HIDE DEF G
  <2> QED
    BY <1>0, <1>1, SubsetInduction
<1> QED
  BY <1>2

\* A function that has one element more than another one.
LEMMA SumExtends ==
    ASSUME NEW f, IsFiniteSet(DOMAIN f), \A y \in DOMAIN f : f[y] \in Nat,
           NEW x, x \notin DOMAIN f,
           NEW g, DOMAIN g = DOMAIN f \cup {x}, \A y \in DOMAIN f : g[y] = f[y],
           g[x] \in Nat
    PROVE  SumFunction(g) = SumFunction(f) + g[x]
<1> DEFINE D == DOMAIN f
<1>1. SumFunctionOnSet(g, D \cup {x}) = SumFunctionOnSet(g, D) + g[x]
  <2>1. \A y \in D : g[y] \in Nat
    OBVIOUS
  <2> HIDE DEF D
  <2> QED
    BY <2>1, SumWith DEF D
<1>2. SumFunctionOnSet(g, D) = SumFunctionOnSet(f, D)
  <2>1. \A y \in D : g[y] = f[y]
    OBVIOUS
  <2> HIDE DEF D
  <2> QED
    BY <2>1, SumOfEqual DEF D
<1> QED
  BY <1>1, <1>2 DEF SumFunction

=============================================================================
