------------------------------- MODULE Lemmas -------------------------------
(***************************************************************************)
(* The facts that the proofs about several components cite: about finite   *)
(* sums (SumFunctionOnSet of the module Functions), about division, and    *)
(* about the operators of Remap.  A sum is defined by recursion on its     *)
(* set; what is said of it here for every set is proved from a least       *)
(* counterexample: a set of the smallest size among those for which a      *)
(* claim fails.                                                            *)
(***************************************************************************)
EXTENDS Remap, Functions, FiniteSetTheorems, WellFoundedInduction, TLAPS

-----------------------------------------------------------------------------
(* Finite sums. *)

(* A nonempty set of natural numbers has a least one.                       *)
LEMMA LeastNat ==
  ASSUME NEW T \in SUBSET Nat, T # {}
  PROVE  \E m \in T : \A n \in T : m <= n
  <1>1. PICK m \in T : \A n \in T : ~ (<<n, m>> \in OpToRel(<,Nat))
    BY NatLessThanWellFounded, WFMin
  <1>2. ASSUME NEW n \in T PROVE m <= n
    <2>1. m \in Nat /\ n \in Nat
      OBVIOUS
    <2>2. ~ (n < m)
      BY <1>1, <2>1 DEF OpToRel
    <2> QED BY <2>1, <2>2
  <1> QED BY <1>2

(* A set of finite sets has a smallest one. *)
LEMMA SmallestSet ==
  ASSUME NEW W, W # {}, \A s \in W : IsFiniteSet(s)
  PROVE  \E s \in W : \A t \in W : Cardinality(s) <= Cardinality(t)
  <1> DEFINE T == {Cardinality(s) : s \in W}
  <1>1. T \in SUBSET Nat /\ T # {}
    BY FS_CardinalityType
  <1>2. PICK m \in T : \A n \in T : m <= n
    <2> HIDE DEF T
    <2> QED BY <1>1, LeastNat
  <1> QED BY <1>2

SumStep(F, s, g) ==
  IF s = {} THEN 0
  ELSE F[CHOOSE x \in s : TRUE] + g[s \ {CHOOSE x \in s : TRUE}]

Sums(F, S, g) == g = [s \in SUBSET S |-> SumStep(F, s, g)]

(* SumFunctionOnSet, without its recursion: some g that adds up subset by
   subset. *)
LEMMA SumDef ==
  ASSUME NEW F, NEW S
  PROVE  SumFunctionOnSet(F, S) = (CHOOSE g : Sums(F, S, g))[S]
  BY DEF SumFunctionOnSet, FoldFunctionOnSet, MapThenFoldSet, Sums, SumStep

(* Over a finite set there is such a g. *)
LEMMA SumsExist ==
  ASSUME NEW F, NEW S, IsFiniteSet(S)
  PROVE  \E g : Sums(F, S, g)
  <1> DEFINE Upto(n, g) == \A s \in SUBSET S :
               Cardinality(s) <= n => g[s] = SumStep(F, s, g)
             Bad == {n \in Nat : ~ \E g : Upto(n, g)}
  <1>0. \A s \in SUBSET S : /\ IsFiniteSet(s) /\ Cardinality(s) \in Nat
                            /\ Cardinality(s) <= Cardinality(S)
                            /\ Cardinality(s) = 0 <=> s = {}
    BY FS_Subset, FS_CardinalityType, FS_EmptySet
  <1>1. Bad = {}
    <2> SUFFICES ASSUME Bad # {} PROVE FALSE
      OBVIOUS
    <2>1. PICK m \in Bad : \A n \in Bad : m <= n
      <3>1. Bad \in SUBSET Nat
        OBVIOUS
      <3> HIDE DEF Bad
      <3> QED BY <3>1, LeastNat
    <2>2. m # 0
      <3> DEFINE z == [s \in SUBSET S |-> 0]
      <3>1. Upto(0, z)
        BY <1>0 DEF SumStep
      <3> QED BY <3>1
    <2>3. m - 1 \in Nat /\ m - 1 \notin Bad
      BY <2>1, <2>2
    <2>4. PICK g : Upto(m - 1, g)
      BY <2>3
    <2> DEFINE h == [s \in SUBSET S |-> SumStep(F, s, g)]
    <2>5. ASSUME NEW s \in SUBSET S, Cardinality(s) <= m
          PROVE  h[s] = SumStep(F, s, h)
      <3>1. CASE s = {}
        BY <3>1 DEF SumStep
      <3>2. CASE s # {}
        <4> DEFINE c == CHOOSE x \in s : TRUE
                   t == s \ {c}
        <4>1. c \in s
          BY <3>2
        <4>2. t \in SUBSET S /\ Cardinality(t) = Cardinality(s) - 1
          BY <1>0, <4>1, FS_RemoveElement
        <4>3. Cardinality(t) <= m - 1
          BY <4>2, <2>5, <1>0
        <4>4. g[t] = SumStep(F, t, g)
          BY <2>4, <4>2, <4>3
        <4>5. h[t] = g[t]
          BY <4>2, <4>4
        <4> HIDE DEF h
        <4>6. SumStep(F, s, h) = F[c] + h[t]
          BY <3>2 DEF SumStep
        <4>7. SumStep(F, s, g) = F[c] + g[t]
          BY <3>2 DEF SumStep
        <4>8. h[s] = SumStep(F, s, g)
          BY DEF h
        <4> QED BY <4>5, <4>6, <4>7, <4>8
      <3> QED BY <3>1, <3>2
    <2>6. Upto(m, h)
      <3> HIDE DEF h
      <3> QED BY <2>5
    <2> QED BY <2>1, <2>6
  <1>2. PICK g : Upto(Cardinality(S), g)
    BY <1>1, FS_CardinalityType
  <1> DEFINE h == [s \in SUBSET S |-> SumStep(F, s, g)]
  <1>3. \A s \in SUBSET S : g[s] = SumStep(F, s, g)
    BY <1>0, <1>2
  <1>4. ASSUME NEW s \in SUBSET S PROVE SumStep(F, s, h) = SumStep(F, s, g)
    <2>1. \A t \in SUBSET S : h[t] = g[t]
      BY <1>3
    <2>2. s \ {CHOOSE x \in s : TRUE} \in SUBSET S
      OBVIOUS
    <2> HIDE DEF h
    <2> QED BY <2>1, <2>2 DEF SumStep
  <1>5. h = [s \in SUBSET S |-> SumStep(F, s, h)]
    BY <1>4
  <1> QED BY <1>5 DEF Sums

(* Over a set and a subset of it, two of them agree on all parts of the subset. *)
LEMMA SumsAgree ==
  ASSUME NEW F, NEW S, IsFiniteSet(S), NEW T \in SUBSET S, NEW g, NEW h,
         Sums(F, S, g), Sums(F, T, h)
  PROVE  \A s \in SUBSET T : g[s] = h[s]
  <1> DEFINE W == {s \in SUBSET T : g[s] # h[s]}
  <1> SUFFICES ASSUME W # {} PROVE FALSE
    OBVIOUS
  <1>1. \A s \in W : IsFiniteSet(s)
    BY FS_Subset
  <1>2. PICK s \in W : \A t \in W : Cardinality(s) <= Cardinality(t)
    <2> HIDE DEF W
    <2> QED BY <1>1, SmallestSet
  <1>3. /\ g[s] = SumStep(F, s, g) /\ h[s] = SumStep(F, s, h)
    <2>1. s \in SUBSET S /\ s \in SUBSET T
      OBVIOUS
    <2> QED BY <2>1 DEF Sums
  <1>4. s # {}
    BY <1>3 DEF SumStep
  <1> DEFINE t == s \ {CHOOSE x \in s : TRUE}
  <1>5. t \in SUBSET T /\ Cardinality(t) = Cardinality(s) - 1
        /\ Cardinality(s) \in Nat
    BY <1>1, <1>4, FS_RemoveElement, FS_CardinalityType
  <1>6. t \notin W
    BY <1>2, <1>5
  <1>7. g[t] = h[t]
    BY <1>5, <1>6
  <1> QED BY <1>3, <1>4, <1>7 DEF SumStep

(* Nothing adds up to 0. *)
LEMMA SumEmpty ==
  ASSUME NEW F PROVE SumFunctionOnSet(F, {}) = 0
  <1>1. PICK g : Sums(F, {}, g)
    BY SumsExist, FS_EmptySet
  <1> DEFINE h == CHOOSE x : Sums(F, {}, x)
  <1>2. Sums(F, {}, h)
    BY <1>1
  <1>3. SumFunctionOnSet(F, {}) = h[{}]
    BY SumDef
  <1> HIDE DEF h
  <1> QED BY <1>2, <1>3 DEF Sums, SumStep

(* A sum is one of its terms and the sum of the others. *)
LEMMA SumChoice ==
  ASSUME NEW F, NEW S, IsFiniteSet(S), S # {}
  PROVE  LET c == CHOOSE x \in S : TRUE
         IN SumFunctionOnSet(F, S) = F[c] + SumFunctionOnSet(F, S \ {c})
  <1> DEFINE c == CHOOSE x \in S : TRUE
             T == S \ {c}
             g == CHOOSE x : Sums(F, S, x)
             h == CHOOSE x : Sums(F, T, x)
  <1>1. IsFiniteSet(T) /\ T \in SUBSET S
    BY FS_Subset
  <1>2. Sums(F, S, g) /\ Sums(F, T, h)
    BY <1>1, SumsExist
  <1>3. SumFunctionOnSet(F, S) = g[S] /\ SumFunctionOnSet(F, T) = h[T]
    BY SumDef
  <1>4. g[T] = h[T]
    <2> HIDE DEF T, g, h
    <2> QED BY <1>1, <1>2, SumsAgree
  <1>5. g[S] = SumStep(F, S, g)
    <2> HIDE DEF g
    <2> QED BY <1>2 DEF Sums
  <1>6. SumStep(F, S, g) = F[c] + g[T]
    BY DEF SumStep
  <1> HIDE DEF T, g, h, c
  <1>7. SumFunctionOnSet(F, S) = F[c] + SumFunctionOnSet(F, T)
    BY <1>3, <1>4, <1>5, <1>6
  <1> QED BY <1>7 DEF T, c

(* Any element can be taken out of a sum.                                   *)
LEMMA SumTakeOut ==
  ASSUME NEW S, IsFiniteSet(S), NEW F \in [S -> Int]
  PROVE  \A T \in SUBSET S :
           /\ SumFunctionOnSet(F, T) \in Int
           /\ \A x \in T : SumFunctionOnSet(F, T) = F[x] + SumFunctionOnSet(F, T \ {x})
  <1> DEFINE Ok(T) == /\ SumFunctionOnSet(F, T) \in Int
                      /\ \A x \in T : SumFunctionOnSet(F, T)
                                        = F[x] + SumFunctionOnSet(F, T \ {x})
             W == {T \in SUBSET S : ~Ok(T)}
  <1> SUFFICES ASSUME W # {} PROVE FALSE
    OBVIOUS
  <1>1. \A s \in SUBSET S : IsFiniteSet(s) /\ Cardinality(s) \in Nat
    BY FS_Subset, FS_CardinalityType
  <1>2. PICK T \in W : \A U \in W : Cardinality(T) <= Cardinality(U)
    <2>1. \A s \in W : IsFiniteSet(s)
      BY <1>1
    <2> HIDE DEF W
    <2> QED BY <2>1, SmallestSet
  <1> HIDE DEF Ok
  <1>3. ASSUME NEW x \in T
        PROVE  /\ Ok(T \ {x}) /\ IsFiniteSet(T \ {x})
    <2>1. Cardinality(T \ {x}) = Cardinality(T) - 1 /\ T \ {x} \in SUBSET S
      BY <1>1, FS_RemoveElement
    <2>2. T \ {x} \notin W
      BY <1>1, <1>2, <2>1
    <2> QED BY <1>1, <2>1, <2>2
  <1>4. T # {}
    <2>1. Ok({})
      BY SumEmpty DEF Ok
    <2> QED BY <2>1
  <1> DEFINE c == CHOOSE x \in T : TRUE
  <1>5. c \in T /\ SumFunctionOnSet(F, T) = F[c] + SumFunctionOnSet(F, T \ {c})
    BY <1>1, <1>4, SumChoice
  <1> HIDE DEF c
  <1>6. \A x \in T : F[x] \in Int /\ SumFunctionOnSet(F, T \ {x}) \in Int
    BY <1>3 DEF Ok
  <1>7. ASSUME NEW x \in T
        PROVE  SumFunctionOnSet(F, T) = F[x] + SumFunctionOnSet(F, T \ {x})
    <2>1. CASE x = c
      BY <1>5, <2>1
    <2>2. CASE x # c
      <3>1. SumFunctionOnSet(F, T \ {c})
              = F[x] + SumFunctionOnSet(F, (T \ {c}) \ {x})
        BY <1>3, <1>5, <2>2 DEF Ok
      <3>2. SumFunctionOnSet(F, T \ {x})
              = F[c] + SumFunctionOnSet(F, (T \ {x}) \ {c})
        BY <1>3, <1>5, <2>2 DEF Ok
      <3>3. (T \ {c}) \ {x} = (T \ {x}) \ {c}
        OBVIOUS
      <3> DEFINE r == SumFunctionOnSet(F, (T \ {c}) \ {x})
      <3>4. r \in Int
        <4>1. Cardinality((T \ {c}) \ {x}) = Cardinality(T) - 2
          <5>1. IsFiniteSet(T \ {c}) /\ Cardinality(T \ {c}) = Cardinality(T) - 1
            BY <1>1, <1>5, FS_RemoveElement
          <5>2. Cardinality((T \ {c}) \ {x}) = Cardinality(T \ {c}) - 1
            BY <5>1, <2>2, FS_RemoveElement
          <5> QED BY <1>1, <5>1, <5>2
        <4>2. (T \ {c}) \ {x} \in SUBSET S
          OBVIOUS
        <4>3. (T \ {c}) \ {x} \notin W
          BY <1>1, <1>2, <4>1, <4>2
        <4> QED BY <4>2, <4>3 DEF Ok
      <3>5. F[x] \in Int /\ F[c] \in Int
        BY <1>5, <1>6
      <3> HIDE DEF r
      <3>6. SumFunctionOnSet(F, T \ {c}) = F[x] + r
        BY <3>1 DEF r
      <3>7. SumFunctionOnSet(F, T \ {x}) = F[c] + r
        BY <3>2, <3>3 DEF r
      <3>8. SumFunctionOnSet(F, T) = F[c] + (F[x] + r)
        BY <1>5, <3>6
      <3>9. F[c] + (F[x] + r) = F[x] + (F[c] + r)
        BY <3>4, <3>5
      <3> QED BY <3>7, <3>8, <3>9
    <2> QED BY <2>1, <2>2
  <1>8. SumFunctionOnSet(F, T) \in Int
    BY <1>5, <1>6
  <1> QED BY <1>7, <1>8 DEF Ok

(* A sum sees the values of the function on the set only.                   *)
LEMMA SumSame ==
  ASSUME NEW S, IsFiniteSet(S), NEW F \in [S -> Int], NEW G \in [S -> Int]
  PROVE  \A T \in SUBSET S :
           (\A x \in T : F[x] = G[x])
             => SumFunctionOnSet(F, T) = SumFunctionOnSet(G, T)
  <1> DEFINE W == {T \in SUBSET S : /\ \A x \in T : F[x] = G[x]
                                    /\ SumFunctionOnSet(F, T) # SumFunctionOnSet(G, T)}
  <1> SUFFICES ASSUME W # {} PROVE FALSE
    OBVIOUS
  <1>1. \A s \in SUBSET S : IsFiniteSet(s) /\ Cardinality(s) \in Nat
    BY FS_Subset, FS_CardinalityType
  <1>2. PICK T \in W : \A U \in W : Cardinality(T) <= Cardinality(U)
    <2>1. \A s \in W : IsFiniteSet(s)
      BY <1>1
    <2> HIDE DEF W
    <2> QED BY <2>1, SmallestSet
  <1>3. T # {}
    BY SumEmpty
  <1>4. PICK x \in T : TRUE
    BY <1>3
  <1>5. Cardinality(T \ {x}) = Cardinality(T) - 1 /\ T \ {x} \in SUBSET S
    BY <1>1, FS_RemoveElement
  <1>6. T \ {x} \notin W
    BY <1>1, <1>2, <1>5
  <1>7. SumFunctionOnSet(F, T \ {x}) = SumFunctionOnSet(G, T \ {x})
    BY <1>5, <1>6
  <1>8. SumFunctionOnSet(F, T) = F[x] + SumFunctionOnSet(F, T \ {x})
    BY SumTakeOut
  <1>9. SumFunctionOnSet(G, T) = G[x] + SumFunctionOnSet(G, T \ {x})
    BY SumTakeOut
  <1> QED BY <1>7, <1>8, <1>9

(* The sum of the opposites is the opposite of the sum.                     *)
LEMMA SumNegated ==
  ASSUME NEW S, IsFiniteSet(S), NEW F \in [S -> Int], NEW G \in [S -> Int],
         \A x \in S : G[x] = 0 - F[x]
  PROVE  SumFunctionOnSet(G, S) = 0 - SumFunctionOnSet(F, S)
  <1> DEFINE W == {T \in SUBSET S :
                     SumFunctionOnSet(G, T) # 0 - SumFunctionOnSet(F, T)}
  <1>1. \A s \in SUBSET S : IsFiniteSet(s) /\ Cardinality(s) \in Nat
    BY FS_Subset, FS_CardinalityType
  <1>2. W = {}
    <2> SUFFICES ASSUME W # {} PROVE FALSE
      OBVIOUS
    <2>1. PICK T \in W : \A U \in W : Cardinality(T) <= Cardinality(U)
      <3>1. \A s \in W : IsFiniteSet(s)
        BY <1>1
      <3> HIDE DEF W
      <3> QED BY <3>1, SmallestSet
    <2>2. T # {}
      <3>1. SumFunctionOnSet(G, {}) = 0 /\ SumFunctionOnSet(F, {}) = 0
        BY SumEmpty
      <3>2. SumFunctionOnSet(G, {}) = 0 - SumFunctionOnSet(F, {})
        BY <3>1
      <3> QED BY <3>2
    <2>3. PICK x \in T : TRUE
      BY <2>2
    <2>4. Cardinality(T \ {x}) = Cardinality(T) - 1 /\ T \ {x} \in SUBSET S
      BY <1>1, FS_RemoveElement
    <2>5. T \ {x} \notin W
      BY <1>1, <2>1, <2>4
    <2>6. SumFunctionOnSet(G, T \ {x}) = 0 - SumFunctionOnSet(F, T \ {x})
      BY <2>4, <2>5
    <2>7. /\ SumFunctionOnSet(F, T) = F[x] + SumFunctionOnSet(F, T \ {x})
          /\ SumFunctionOnSet(G, T) = G[x] + SumFunctionOnSet(G, T \ {x})
      BY SumTakeOut
    <2>8. F[x] \in Int /\ G[x] = 0 - F[x] /\ SumFunctionOnSet(F, T \ {x}) \in Int
      BY <2>4, SumTakeOut
    <2> QED BY <2>6, <2>7, <2>8
  <1> QED BY <1>2

(* Counting: the sum of a constant.                                         *)
LEMMA SumConstant ==
  ASSUME NEW S, IsFiniteSet(S), NEW k \in Int, NEW F \in [S -> Int],
         \A x \in S : F[x] = k
  PROVE  SumFunction(F) = k * Cardinality(S)
  <1> DEFINE W == {T \in SUBSET S : SumFunctionOnSet(F, T) # k * Cardinality(T)}
  <1>1. \A s \in SUBSET S : IsFiniteSet(s) /\ Cardinality(s) \in Nat
    BY FS_Subset, FS_CardinalityType
  <1>2. W = {}
    <2> SUFFICES ASSUME W # {} PROVE FALSE
      OBVIOUS
    <2>2. PICK T \in W : \A U \in W : Cardinality(T) <= Cardinality(U)
      <3>1. \A s \in W : IsFiniteSet(s)
        BY <1>1
      <3> HIDE DEF W
      <3> QED BY <3>1, SmallestSet
    <2>3. T # {}
      <3>1. SumFunctionOnSet(F, {}) = k * Cardinality({})
        BY SumEmpty, FS_EmptySet
      <3> QED BY <3>1
    <2>4. PICK x \in T : TRUE
      BY <2>3
    <2>5. Cardinality(T \ {x}) = Cardinality(T) - 1 /\ T \ {x} \in SUBSET S
      BY <1>1, FS_RemoveElement
    <2>6. T \ {x} \notin W
      BY <1>1, <2>2, <2>5
    <2>7. SumFunctionOnSet(F, T \ {x}) = k * (Cardinality(T) - 1)
      BY <2>5, <2>6
    <2>8. SumFunctionOnSet(F, T) = k + SumFunctionOnSet(F, T \ {x})
      BY SumTakeOut
    <2>9. Cardinality(T) \in Nat /\ k + k * (Cardinality(T) - 1) = k * Cardinality(T)
      BY <1>1
    <2> QED BY <2>7, <2>8, <2>9
  <1> QED BY <1>2 DEF SumFunction

(* One value of the function grows by one: so does the sum.                 *)
LEMMA SumGrows ==
  ASSUME NEW S, IsFiniteSet(S), NEW F \in [S -> Int], NEW G \in [S -> Int],
         NEW x \in S, G[x] = F[x] + 1, \A y \in S \ {x} : G[y] = F[y]
  PROVE  SumFunction(G) = SumFunction(F) + 1
  <1>1. SumFunction(F) = F[x] + SumFunctionOnSet(F, S \ {x})
    BY SumTakeOut DEF SumFunction
  <1>2. SumFunction(G) = G[x] + SumFunctionOnSet(G, S \ {x})
    BY SumTakeOut DEF SumFunction
  <1>3. SumFunctionOnSet(F, S \ {x}) = SumFunctionOnSet(G, S \ {x})
    <2>1. S \ {x} \in SUBSET S
      OBVIOUS
    <2> QED BY <2>1, SumSame
  <1>4. SumFunctionOnSet(F, S \ {x}) \in Int
    BY SumTakeOut
  <1>5. F[x] \in Int
    OBVIOUS
  <1> QED BY <1>1, <1>2, <1>3, <1>4, <1>5

(* Counting a set by the values of a function on it.                        *)
Fibre(D, p, s) == {u \in D : p[u] = s}
Fibres(S, D, p) == [s \in S |-> Cardinality(Fibre(D, p, s))]

(* The sizes of the parts of a set add up to its size. *)
LEMMA SumOfParts ==
  ASSUME NEW S, IsFiniteSet(S), NEW D, IsFiniteSet(D), NEW p \in [D -> S]
  PROVE  SumFunction(Fibres(S, D, p)) = Cardinality(D)
  <1> DEFINE Part(T) == [s \in S |-> Cardinality({u \in T : p[u] = s})]
             W == {T \in SUBSET D : SumFunction(Part(T)) # Cardinality(T)}
  <1>1. \A T \in SUBSET D : IsFiniteSet(T) /\ Cardinality(T) \in Nat
    BY FS_Subset, FS_CardinalityType
  <1>2. \A T \in SUBSET D : Part(T) \in [S -> Int]
    <2>1. ASSUME NEW T \in SUBSET D, NEW s \in S
          PROVE  Cardinality({u \in T : p[u] = s}) \in Int
      <3> DEFINE U == {u \in T : p[u] = s}
      <3>1. U \in SUBSET D
        OBVIOUS
      <3> HIDE DEF U
      <3>2. Cardinality(U) \in Nat
        BY <1>1, <3>1
      <3> QED BY <3>2 DEF U
    <2> QED BY <2>1
  <1>3. W = {}
    <2> SUFFICES ASSUME W # {} PROVE FALSE
      OBVIOUS
    <2>1. PICK T \in W : \A U \in W : Cardinality(T) <= Cardinality(U)
      <3>1. \A s \in W : IsFiniteSet(s)
        BY <1>1
      <3> HIDE DEF W
      <3> QED BY <3>1, SmallestSet
    <2>2. T \in SUBSET D /\ SumFunction(Part(T)) # Cardinality(T)
      BY <2>1
    <2>3. CASE T = {}
      <3> DEFINE F == Part(T)
      <3>1. \A s \in S : F[s] = 0
        <4>1. \A s \in S : {u \in T : p[u] = s} = {}
          BY <2>3
        <4> QED BY <4>1, FS_EmptySet
      <3>2. F \in [S -> Int]
        BY <1>2, <2>2
      <3> HIDE DEF F
      <3>3. SumFunction(F) = 0 * Cardinality(S)
        BY <3>1, <3>2, SumConstant
      <3>4. Cardinality(S) \in Nat
        BY FS_CardinalityType
      <3>5. SumFunction(F) = 0
        BY <3>3, <3>4
      <3> QED BY <2>2, <2>3, <3>5, FS_EmptySet DEF F
    <2>4. CASE T # {}
      <3>1. PICK x \in T : TRUE
        BY <2>4
      <3> DEFINE U == T \ {x}
                 F == Part(U)
                 G == Part(T)
      <3>2. U \in SUBSET D /\ Cardinality(U) = Cardinality(T) - 1
            /\ Cardinality(T) \in Nat /\ x \in D /\ p[x] \in S
        BY <1>1, <2>2, <3>1, FS_RemoveElement
      <3>3. U \notin W
        BY <2>1, <3>2
      <3>4. SumFunction(F) = Cardinality(U)
        BY <3>2, <3>3
      <3>5. F \in [S -> Int] /\ G \in [S -> Int]
        BY <1>2, <2>2, <3>2
      <3>6. \A y \in S \ {p[x]} : G[y] = F[y]
        <4>1. ASSUME NEW y \in S \ {p[x]}
              PROVE  {u \in T : p[u] = y} = {u \in U : p[u] = y}
          OBVIOUS
        <4> QED BY <4>1
      <3>7. G[p[x]] = F[p[x]] + 1
        <4> DEFINE A == {u \in U : p[u] = p[x]}
                   B == {u \in T : p[u] = p[x]}
        <4>1. B = A \cup {x} /\ x \notin A /\ A \in SUBSET D
          BY <3>1, <3>2
        <4>2. F[p[x]] = Cardinality(A) /\ G[p[x]] = Cardinality(B)
          BY <3>2
        <4> HIDE DEF A, B, F, G
        <4>3. Cardinality(B) = Cardinality(A) + 1
          BY <1>1, <4>1, FS_AddElement
        <4> QED BY <4>2, <4>3
      <3> HIDE DEF F, G, U
      <3>8. SumFunction(G) = SumFunction(F) + 1
        BY <3>2, <3>5, <3>6, <3>7, SumGrows
      <3>9. SumFunction(G) = Cardinality(T)
        BY <3>2, <3>4, <3>8
      <3> QED BY <2>2, <3>9 DEF G
    <2> QED BY <2>3, <2>4
  <1>4. D \in SUBSET D
    OBVIOUS
  <1>5. Part(D) = Fibres(S, D, p)
    BY DEF Fibres, Fibre
  <1> HIDE DEF Part
  <1> QED BY <1>3, <1>4, <1>5

(* Values of at most k add up to at most k for each.                        *)
LEMMA SumBounded ==
  ASSUME NEW S, IsFiniteSet(S), NEW k \in Int, NEW F \in [S -> Int],
         \A x \in S : F[x] <= k
  PROVE  \A T \in SUBSET S : SumFunctionOnSet(F, T) <= k * Cardinality(T)
  <1> DEFINE W == {T \in SUBSET S : ~ (SumFunctionOnSet(F, T) <= k * Cardinality(T))}
  <1>1. \A s \in SUBSET S : IsFiniteSet(s) /\ Cardinality(s) \in Nat
    BY FS_Subset, FS_CardinalityType
  <1> SUFFICES ASSUME W # {} PROVE FALSE
    OBVIOUS
  <1>2. PICK T \in W : \A U \in W : Cardinality(T) <= Cardinality(U)
    <2>1. \A s \in W : IsFiniteSet(s)
      BY <1>1
    <2> HIDE DEF W
    <2> QED BY <2>1, SmallestSet
  <1>3. T # {}
    <2>1. SumFunctionOnSet(F, {}) <= k * Cardinality({})
      BY SumEmpty, FS_EmptySet
    <2> QED BY <2>1
  <1>4. PICK x \in T : TRUE
    BY <1>3
  <1>5. Cardinality(T \ {x}) = Cardinality(T) - 1 /\ T \ {x} \in SUBSET S
    BY <1>1, FS_RemoveElement
  <1>6. T \ {x} \notin W
    BY <1>1, <1>2, <1>5
  <1>7. SumFunctionOnSet(F, T \ {x}) <= k * (Cardinality(T) - 1)
    BY <1>5, <1>6
  <1>8. SumFunctionOnSet(F, T) = F[x] + SumFunctionOnSet(F, T \ {x})
        /\ SumFunctionOnSet(F, T \ {x}) \in Int /\ F[x] \in Int /\ F[x] <= k
    BY <1>5, SumTakeOut
  <1> DEFINE q == Cardinality(T)
             r == SumFunctionOnSet(F, T \ {x})
             y == F[x]
  <1>9. q \in Nat /\ r \in Int /\ y \in Int /\ r <= k * (q - 1) /\ y <= k
    BY <1>1, <1>7, <1>8
  <1>10. ~ (y + r <= k * q)
    BY <1>2, <1>8
  <1> HIDE DEF q, r, y
  <1>11. k + k * (q - 1) = k * q /\ k * (q - 1) \in Int
    BY <1>9
  <1> DEFINE a == k * (q - 1)
             b == k * q
  <1>12. a \in Int /\ r <= a /\ k + a = b /\ ~ (y + r <= b)
    BY <1>9, <1>10, <1>11
  <1> HIDE DEF a, b
  <1> QED BY <1>9, <1>12

(* With one value below k they add up to less.                               *)
LEMMA SumShort ==
  ASSUME NEW S, IsFiniteSet(S), NEW k \in Int, NEW F \in [S -> Int], NEW t \in S,
         \A x \in S : F[x] <= k, F[t] # k
  PROVE  SumFunction(F) # k * Cardinality(S)
  <1>1. Cardinality(S) \in Nat /\ Cardinality(S \ {t}) = Cardinality(S) - 1
        /\ S \ {t} \in SUBSET S /\ S \in SUBSET S /\ DOMAIN F = S
    BY FS_RemoveElement, FS_CardinalityType
  <1>2. SumFunctionOnSet(F, S \ {t}) <= k * Cardinality(S \ {t})
    BY <1>1, SumBounded
  <1>3. SumFunction(F) = F[t] + SumFunctionOnSet(F, S \ {t})
        /\ SumFunctionOnSet(F, S \ {t}) \in Int
    BY <1>1, SumTakeOut DEF SumFunction
  <1> DEFINE q == Cardinality(S)
             r == SumFunctionOnSet(F, S \ {t})
             y == F[t]
  <1>4. q \in Nat /\ r \in Int /\ y \in Int /\ r <= k * (q - 1) /\ y <= k /\ y # k
    BY <1>1, <1>2, <1>3
  <1> SUFFICES ASSUME y + r = k * q PROVE FALSE
    BY <1>3
  <1> HIDE DEF q, r, y
  <1>5. k + k * (q - 1) = k * q /\ k * (q - 1) \in Int
    BY <1>4
  <1> DEFINE a == k * (q - 1)
             b == k * q
  <1>6. a \in Int /\ r <= a /\ k + a = b /\ y + r = b
    BY <1>4, <1>5
  <1> HIDE DEF a, b
  <1> QED BY <1>4, <1>6

(* Natural numbers add up to a natural number. *)
LEMMA SumNatural ==
  ASSUME NEW S, IsFiniteSet(S), NEW F \in [S -> Nat]
  PROVE  SumFunctionOnSet(F, S) \in Nat
  <1> DEFINE W == {T \in SUBSET S : SumFunctionOnSet(F, T) \notin Nat}
  <1>1. \A T \in SUBSET S : IsFiniteSet(T)
    BY FS_Subset
  <1>2. F \in [S -> Int]
    OBVIOUS
  <1>3. W = {}
    <2> SUFFICES ASSUME W # {} PROVE FALSE
      OBVIOUS
    <2>1. \A s \in W : IsFiniteSet(s)
      BY <1>1
    <2>2. PICK T \in W : \A t \in W : Cardinality(T) <= Cardinality(t)
      <3> HIDE DEF W
      <3> QED BY <2>1, SmallestSet
    <2>3. T \in SUBSET S /\ T # {} /\ SumFunctionOnSet(F, T) \notin Nat
      BY <2>2, SumEmpty
    <2>4. PICK x \in T : TRUE
      BY <2>3
    <2>5. SumFunctionOnSet(F, T) = F[x] + SumFunctionOnSet(F, T \ {x})
      BY <1>2, <2>3, SumTakeOut
    <2>6. F[x] \in Nat
      BY <2>3
    <2>7. T \ {x} \in W
      BY <2>3, <2>5, <2>6
    <2>8. /\ Cardinality(T \ {x}) = Cardinality(T) - 1
          /\ Cardinality(T) \in Nat
      BY <1>1, <2>3, FS_RemoveElement, FS_CardinalityType
    <2>9. Cardinality(T) <= Cardinality(T \ {x})
      BY <2>2, <2>7
    <2> QED BY <2>8, <2>9
  <1> QED BY <1>3

(* Two functions that agree but in two places differ in sum by what they    *)
(* differ there.                                                            *)
LEMMA SumTwoPlaces ==
  ASSUME NEW S, IsFiniteSet(S), NEW F \in [S -> Int], NEW G \in [S -> Int],
         NEW x \in S, NEW y \in S, x # y,
         \A z \in S : z # x /\ z # y => F[z] = G[z]
  PROVE  SumFunctionOnSet(G, S) - SumFunctionOnSet(F, S)
           = (G[x] - F[x]) + (G[y] - F[y])
  <1> DEFINE T == (S \ {x}) \ {y}
  <1>1. /\ S \in SUBSET S /\ S \ {x} \in SUBSET S /\ T \in SUBSET S
        /\ x \in S /\ y \in S \ {x}
    OBVIOUS
  <1> HIDE DEF T
  <1>2. /\ SumFunctionOnSet(F, S) = F[x] + SumFunctionOnSet(F, S \ {x})
        /\ SumFunctionOnSet(G, S) = G[x] + SumFunctionOnSet(G, S \ {x})
    BY <1>1, SumTakeOut
  <1>3. /\ SumFunctionOnSet(F, S \ {x}) = F[y] + SumFunctionOnSet(F, T)
        /\ SumFunctionOnSet(G, S \ {x}) = G[y] + SumFunctionOnSet(G, T)
    BY <1>1, SumTakeOut DEF T
  <1>4. \A z \in T : F[z] = G[z]
    BY DEF T
  <1>5. SumFunctionOnSet(F, T) = SumFunctionOnSet(G, T)
    BY <1>1, <1>4, SumSame
  <1>6. /\ F[x] \in Int /\ F[y] \in Int /\ G[x] \in Int /\ G[y] \in Int
        /\ SumFunctionOnSet(F, T) \in Int
    BY <1>1, SumTakeOut
  <1> QED BY <1>2, <1>3, <1>5, <1>6

(* One number is its own sum. *)
LEMMA SumOfOne ==
  ASSUME NEW S, IsFiniteSet(S), NEW F \in [S -> Int], NEW t \in S
  PROVE  SumFunctionOnSet(F, {t}) = F[t]
  <1>1. {t} \in SUBSET S /\ t \in {t} /\ {t} \ {t} = {}
    OBVIOUS
  <1>2. SumFunctionOnSet(F, {t}) = F[t] + SumFunctionOnSet(F, {t} \ {t})
    <2> DEFINE T == {t}
    <2>1. T \in SUBSET S /\ t \in T
      OBVIOUS
    <2> HIDE DEF T
    <2>2. SumFunctionOnSet(F, T) = F[t] + SumFunctionOnSet(F, T \ {t})
      BY <2>1, SumTakeOut
    <2> QED BY <2>2 DEF T
  <1>4. SumFunctionOnSet(F, {t}) = F[t] + SumFunctionOnSet(F, {})
    BY <1>1, <1>2, Zenon
  <1>5. SumFunctionOnSet(F, {}) = 0 /\ F[t] \in Int
    BY SumEmpty
  <1> QED BY <1>4, <1>5

-----------------------------------------------------------------------------
(* Division. *)

(* A number is its quotient's multiple and its remainder. *)
LEMMA DivMod ==
  ASSUME NEW m \in Nat \ {0}, NEW w \in Nat
  PROVE  /\ w \div m \in Nat /\ w % m \in 0 .. (m - 1)
         /\ w = (w \div m) * m + (w % m)
  OBVIOUS

(* And those are the only ones. *)
LEMMA DivModOf ==
  ASSUME NEW m \in Nat \ {0}, NEW k \in Nat, NEW i \in 0 .. (m - 1)
  PROVE  (k * m + i) % m = i /\ (k * m + i) \div m = k
  <1> DEFINE w == k * m + i
             q == w \div m
             r == w % m
  <1>1. k * m \in Nat
    OBVIOUS
  <1>2. w \in Nat
    BY <1>1
  <1>3. q \in Nat /\ r \in 0 .. (m - 1) /\ w = q * m + r
    BY <1>2, DivMod
  <1> HIDE DEF q, r
  <1>4. (q - k) * m = i - r
    BY <1>3
  <1> DEFINE d == q - k
  <1>5. d \in Int /\ d * m = i - r /\ i - r < m /\ i - r > -m
    BY <1>3, <1>4
  <1>6. d = 0
    <2> HIDE DEF d
    <2>1. d >= 1 => d * m >= m
      BY <1>5
    <2>2. d <= -1 => d * m <= -m
      BY <1>5
    <2> QED BY <1>5, <2>1, <2>2
  <1>7. i - r = 0 /\ q = k
    BY <1>3, <1>5, <1>6
  <1> QED BY <1>3, <1>7 DEF r, q

-----------------------------------------------------------------------------
(* The remap operators, for a table of any size. *)

(* Copying nothing leaves a table as it was (a step without an install). *)
LEMMA OverwriteNothing ==
  ASSUME NEW M \in Nat, NEW t \in [Tiles(M) -> Tiles(M)], NEW f
  PROVE  Overwrite(t, f, 0) = t
  BY DEF Overwrite, Tiles

(* set_order keeps the table a table. *)
LEMMA OverwriteType ==
  ASSUME NEW M \in Nat, NEW n \in 0 .. M,
         NEW t \in [Tiles(M) -> Tiles(M)], NEW f \in [Tiles(M) -> Tiles(M)]
  PROVE  Overwrite(t, f, n) \in [Tiles(M) -> Tiles(M)]
  BY DEF Overwrite

(* Installing an order of n tiles over any table, stale tail included, makes *)
(* the table coherent with the stamp n.                                      *)
LEMMA OverwriteCoherent ==
  ASSUME NEW M \in Nat, NEW n \in 1 .. M,
         NEW t \in [Tiles(M) -> Tiles(M)], NEW f \in Orders(M, n)
  PROVE  Coherent(Overwrite(t, f, n), n)
  <1>1. \A i \in Tiles(n) : Overwrite(t, f, n)[i] = f[i]
    BY DEF Overwrite, Tiles
  <1>2. PermutesPrefix(f, n)
    BY DEF Orders
  <1>3. PermutesPrefix(Overwrite(t, f, n), n)
    BY <1>1, <1>2 DEF PermutesPrefix, InjectiveOn
  <1>4. n # 0
    OBVIOUS
  <1> QED BY <1>3, <1>4 DEF Coherent

(* The clamp: whatever was loaded, the task is a tile of the launch. *)
LEMMA GuardedInLaunch ==
  ASSUME NEW e \in Nat, NEW bound \in Nat, NEW pid \in Tiles(bound), NEW stamp
  PROVE  Guarded(e, pid, stamp, bound) \in Tiles(bound)
  BY DEF Guarded, Tiles

(* The stamp: over a coherent table the remap of one launch is injective,   *)
(* for a launch of any size.                                                *)
LEMMA TargetInjective ==
  ASSUME NEW M \in Nat, NEW t \in [Tiles(M) -> Tiles(M)], NEW s \in 0 .. M,
         Coherent(t, s), NEW bound \in Nat,
         NEW p \in Tiles(bound), NEW q \in Tiles(bound),
         Target(t, s, p, bound) = Target(t, s, q, bound)
  PROVE  p = q
  <1>1. CASE s = 0
    BY <1>1 DEF Coherent, Target, Guarded
  <1>2. CASE s # 0 /\ s = bound
    <2>1. PermutesPrefix(t, bound) /\ Tiles(bound) \subseteq Tiles(M)
      BY <1>2 DEF Coherent, Tiles
    <2>2. /\ Target(t, s, p, bound) = t[p]
          /\ Target(t, s, q, bound) = t[q]
      BY <1>2, <2>1 DEF Target, Guarded, SizeOK, PermutesPrefix, Tiles
    <2> QED BY <2>1, <2>2 DEF PermutesPrefix, InjectiveOn
  <1>3. CASE s # 0 /\ s # bound
    BY <1>3 DEF Target, Guarded, SizeOK
  <1> QED BY <1>1, <1>2, <1>3

(* An injection of the tiles of a launch into themselves misses none. *)
LEMMA InjectiveCovers ==
  ASSUME NEW n \in Nat, NEW f \in [Tiles(n) -> Tiles(n)],
         InjectiveOn(f, Tiles(n))
  PROVE  {f[i] : i \in Tiles(n)} = Tiles(n)
  <1>1. IsFiniteSet(Tiles(n))
    BY FS_Interval DEF Tiles
  <1>2. f \in Injection(Tiles(n), Tiles(n))
    BY DEF InjectiveOn, Injection, IsInjective
  <1>3. f \in Surjection(Tiles(n), Tiles(n))
    BY <1>1, <1>2, FS_Injection
  <1> QED BY <1>3 DEF Surjection

(* An order of n tiles over its own padding, under any of the words a host  *)
(* publishes with it (stamped or not, bounded by n or disarmed by 0), maps  *)
(* the raw ids of a launch of at least that many tasks one to one.          *)
LEMMA OrderedTargetInjective ==
  ASSUME NEW M \in Nat, NEW n \in 0 .. M, NEW t \in Orders(M, n),
         NEW stamp \in {0, n}, NEW bound \in {0, n},
         NEW size \in Nat, bound <= size
  PROVE  /\ \A p \in Tiles(size) : Target(t, stamp, p, bound) \in Tiles(size)
         /\ \A p, q \in Tiles(size) :
             Target(t, stamp, p, bound) = Target(t, stamp, q, bound) => p = q
  <1> DEFINE T(p) == Target(t, stamp, p, bound)
  <1>1. /\ t \in [Tiles(M) -> Tiles(M)] /\ PermutesPrefix(t, n)
        /\ \A i \in Tiles(M) \ Tiles(n) : t[i] = i
    BY DEF Orders
  <1>2. CASE bound = 0
    <2>1. \A p \in Tiles(size) : T(p) = p
      BY <1>1, <1>2 DEF Target, Guarded, Tiles
    <2> QED BY <2>1
  <1>3. CASE bound = n /\ n # 0
    <2>1. \A p \in Tiles(n) : T(p) = t[p] /\ t[p] \in Tiles(n)
      BY <1>1, <1>3 DEF Target, Guarded, SizeOK, PermutesPrefix, Tiles
    <2>2. \A p \in Tiles(size) \ Tiles(n) : T(p) = p
      BY <1>1, <1>3 DEF Target, Guarded, Tiles
    <2>3. Tiles(n) \subseteq Tiles(size)
      BY <1>3 DEF Tiles
    <2>4. \A p, q \in Tiles(size) : T(p) = T(q) => p = q
      BY <1>1, <2>1, <2>2, <2>3 DEF PermutesPrefix, InjectiveOn
    <2>5. \A p \in Tiles(size) : T(p) \in Tiles(size)
      BY <2>1, <2>2, <2>3
    <2> QED BY <2>4, <2>5
  <1> QED BY <1>2, <1>3
=============================================================================
