-------------------------- MODULE OrderPolicy_proofs --------------------------
(***************************************************************************)
(* For batches of any size, any predictions, regions, blocks and any       *)
(* dead-band: what is written orders exactly the tiles of its batch; under *)
(* srpt it is near the best order there is, under lpt it is never replaced *)
(* by another of its size; region and block orders have their shapes.      *)
(***************************************************************************)
EXTENDS OrderPolicy, SequenceTheorems, Lemmas

-----------------------------------------------------------------------------
(* Sorting. *)

(* Those of D that a sort by key puts no later than x, and their number. *)
UpTo(key, D, x) == {y \in D : y = x \/ Before(key, y, x)}
Rank(key, D, x) == Cardinality(UpTo(key, D, x))

Ascends(key, o) ==
  \A i, j \in DOMAIN o : i < j => Before(key, o[i], o[j])

(* The order of a sort is strict and total. *)
LEMMA BeforeIsOrder ==
  ASSUME NEW D \in SUBSET Nat, NEW key \in [D -> Int]
  PROVE  /\ \A x \in D : ~ Before(key, x, x)
         /\ \A x, y \in D : x = y \/ Before(key, x, y) \/ Before(key, y, x)
         /\ \A x, y, z \in D :
              Before(key, x, y) /\ Before(key, y, z) => Before(key, x, z)
  <1>1. \A x \in D : x \in Nat /\ key[x] \in Int
    OBVIOUS
  <1>2. \A x \in D : ~ Before(key, x, x)
    BY <1>1 DEF Before
  <1>3. \A x, y \in D : x = y \/ Before(key, x, y) \/ Before(key, y, x)
    BY <1>1 DEF Before
  <1>4. \A x, y, z \in D :
          Before(key, x, y) /\ Before(key, y, z) => Before(key, x, z)
    BY <1>1 DEF Before
  <1> QED BY <1>2, <1>3, <1>4

(* Ranks count from 1 to the size of the set, and rise along the order. *)
LEMMA RanksRise ==
  ASSUME NEW D \in SUBSET Nat, IsFiniteSet(D), NEW key \in [D -> Int]
  PROVE  /\ \A x \in D : Rank(key, D, x) \in 1 .. Cardinality(D)
         /\ \A x, y \in D : Before(key, x, y) =>
                              Rank(key, D, x) < Rank(key, D, y)
  <1>1. \A x \in D : /\ UpTo(key, D, x) \in SUBSET D
                     /\ x \in UpTo(key, D, x)
    BY DEF UpTo
  <1>2. Cardinality(D) \in Nat
    BY FS_CardinalityType
  <1>3. ASSUME NEW x \in D
        PROVE  Rank(key, D, x) \in 1 .. Cardinality(D)
    <2>1. IsFiniteSet(UpTo(key, D, x)) /\ Rank(key, D, x) <= Cardinality(D)
      BY <1>1, FS_Subset DEF Rank
    <2>2. Rank(key, D, x) \in Nat
      BY <2>1, FS_CardinalityType DEF Rank
    <2>3. Rank(key, D, x) # 0
      BY <1>1, <2>1, FS_EmptySet DEF Rank
    <2> QED BY <1>2, <2>1, <2>2, <2>3
  <1>4. ASSUME NEW x \in D, NEW y \in D, Before(key, x, y)
        PROVE  Rank(key, D, x) < Rank(key, D, y)
    <2>1. UpTo(key, D, x) \in SUBSET UpTo(key, D, y)
      BY <1>4, BeforeIsOrder DEF UpTo
    <2>2. y \notin UpTo(key, D, x)
      BY <1>4, BeforeIsOrder DEF UpTo
    <2>3. IsFiniteSet(UpTo(key, D, y))
      BY <1>1, FS_Subset
    <2>4. /\ Rank(key, D, x) <= Rank(key, D, y)
          /\ Rank(key, D, y) = Rank(key, D, x) =>
               UpTo(key, D, y) = UpTo(key, D, x)
      BY <2>1, <2>3, FS_Subset DEF Rank
    <2>5. Rank(key, D, x) # Rank(key, D, y)
      BY <1>1, <2>2, <2>4
    <2>6. Rank(key, D, x) \in Int /\ Rank(key, D, y) \in Int
      BY <1>3
    <2> QED BY <2>4, <2>5, <2>6
  <1> QED BY <1>3, <1>4

(* Whatever the keys, a set of numbers has a sorted order.  (order: sorted) *)
LEMMA SortedExists ==
  ASSUME NEW D \in SUBSET Nat, IsFiniteSet(D), NEW key \in [D -> Int]
  PROVE  \E o \in SetToSeqs(D) : Ascends(key, o)
  <1> DEFINE n == Cardinality(D)
             rank == [x \in D |-> Rank(key, D, x)]
             o == [k \in 1 .. n |-> CHOOSE x \in D : rank[x] = k]
  <1>1. n \in Nat
    BY FS_CardinalityType
  <1>2. IsFiniteSet(1 .. n) /\ Cardinality(1 .. n) = n
    <2> HIDE DEF n
    <2> QED BY <1>1, FS_Interval
  <1>3. /\ \A x \in D : rank[x] \in 1 .. n
        /\ \A x, y \in D : Before(key, x, y) => rank[x] < rank[y]
    BY RanksRise
  <1> HIDE DEF n, rank
  <1>4. rank \in Injection(D, 1 .. n)
    <2>1. rank \in [D -> 1 .. n]
      BY <1>3 DEF rank
    <2>2. \A x, y \in D : rank[x] = rank[y] => x = y
      <3> SUFFICES ASSUME NEW x \in D, NEW y \in D, x # y
                   PROVE  rank[x] # rank[y]
        OBVIOUS
      <3>1. rank[x] \in Int /\ rank[y] \in Int
        BY <1>3
      <3>2. Before(key, x, y) \/ Before(key, y, x)
        BY BeforeIsOrder
      <3>3. rank[x] < rank[y] \/ rank[y] < rank[x]
        BY <1>3, <3>2
      <3> QED BY <3>1, <3>3
    <2> QED BY <2>1, <2>2 DEF Injection, IsInjective
  <1>5. rank \in Surjection(D, 1 .. n)
    BY <1>2, <1>4, FS_Injection DEF n
  <1>6. \A k \in 1 .. n : \E x \in D : rank[x] = k
    BY <1>5 DEF Surjection
  <1>7. \A k \in 1 .. n : o[k] \in D /\ rank[o[k]] = k
    BY <1>6
  <1>8. o \in [1 .. n -> D] /\ DOMAIN o = 1 .. n
    BY <1>7
  <1> HIDE DEF o
  <1>9. \A i, j \in 1 .. n : i # j => o[i] # o[j]
    BY <1>7
  <1>10. o \in SetToSeqs(D)
    BY <1>8, <1>9 DEF SetToSeqs, n
  <1>11. ASSUME NEW i \in 1 .. n, NEW j \in 1 .. n, i < j
         PROVE  Before(key, o[i], o[j])
    <2>1. o[i] \in D /\ o[j] \in D /\ o[i] # o[j]
      BY <1>7, <1>9, <1>11
    <2>2. CASE Before(key, o[j], o[i])
      <3>1. rank[o[j]] < rank[o[i]]
        BY <1>3, <2>1, <2>2
      <3>2. rank[o[j]] = j /\ rank[o[i]] = i
        BY <1>7
      <3>3. j < i
        BY <3>1, <3>2
      <3> QED BY <1>11, <3>3
    <2> QED BY <2>1, <2>2, BeforeIsOrder
  <1> QED BY <1>8, <1>10, <1>11 DEF Ascends

(* So sorting gives an order of exactly what is sorted, in ascending keys. *)
LEMMA SortedIs ==
  ASSUME NEW D \in SUBSET Nat, IsFiniteSet(D), NEW key \in [D -> Int]
  PROVE  /\ SortedBy(key) \in SetToSeqs(D)
         /\ Ascends(key, SortedBy(key))
  <1>1. DOMAIN key = D
    OBVIOUS
  <1>2. \E o \in SetToSeqs(D) :
          \A i, j \in DOMAIN o : i < j => Before(key, o[i], o[j])
    BY SortedExists DEF Ascends
  <1> QED BY <1>1, <1>2 DEF SortedBy, Ascends

-----------------------------------------------------------------------------
(* The completion times of an order. *)

(* o is an order of n tiles. *)
Arranges(o, n) ==
  /\ o \in [1 .. n -> 0 .. (n - 1)]
  /\ \A i, j \in 1 .. n : i # j => o[i] # o[j]

(* A batch of n tiles: its size, and what the orders of its tiles are. *)
LEMMA BatchOf ==
  ASSUME NEW n \in Nat, NEW c, DOMAIN c = 0 .. (n - 1)
  PROVE  /\ Size(c) = n
         /\ IsFiniteSet(DOMAIN c)
         /\ \A o : o \in SetToSeqs(TilesOf(c)) <=> Arranges(o, n)
  <1>1. IsFiniteSet(0 .. (n - 1)) /\ Cardinality(0 .. (n - 1)) = n
    <2>1. IF 0 > n - 1 THEN n = 0 ELSE (n - 1) - 0 + 1 = n
      OBVIOUS
    <2> QED BY <2>1, FS_Interval
  <1>2. \A o : o \in SetToSeqs(0 .. (n - 1)) <=> Arranges(o, n)
    BY <1>1 DEF SetToSeqs, Arranges
  <1> QED BY <1>1, <1>2 DEF Size, TilesOf

(* The completion times that the costs c give an order of n tiles: Span for *)
(* any costs.                                                               *)
Terms(c, o, n) == [k \in 1 .. n |-> (n + 1 - k) * c[o[k]]]
Worth(c, o, n) == SumFunctionOnSet(Terms(c, o, n), 1 .. n)

(* The controller's span of an order is the sum of its completion times. *)
LEMMA SpanIsWorth ==
  ASSUME NEW n \in Nat, NEW o, Arranges(o, n)
  PROVE  Span(o) = Worth(cost, o, n)
  <1>1. DOMAIN o = 1 .. n /\ Len(o) = n
    BY DEF Arranges
  <1>2. [k \in DOMAIN o |-> (Len(o) + 1 - k) * cost[o[k]]] = Terms(cost, o, n)
    BY <1>1 DEF Terms
  <1>3. DOMAIN Terms(cost, o, n) = 1 .. n
    BY DEF Terms
  <1> QED BY <1>2, <1>3 DEF Span, Worth, SumFunction

(* The terms, and their sum, are integers. *)
LEMMA WorthType ==
  ASSUME NEW n \in Nat, NEW c \in [0 .. (n - 1) -> Int], NEW o, Arranges(o, n)
  PROVE  /\ IsFiniteSet(1 .. n)
         /\ Terms(c, o, n) \in [1 .. n -> Int]
         /\ Worth(c, o, n) \in Int
  <1>1. IsFiniteSet(1 .. n)
    BY FS_Interval
  <1>2. ASSUME NEW k \in 1 .. n
        PROVE  (n + 1 - k) * c[o[k]] \in Int
    <2>1. o[k] \in 0 .. (n - 1)
      BY DEF Arranges
    <2>2. c[o[k]] \in Int /\ n + 1 - k \in Int
      BY <2>1
    <2> QED BY <2>2
  <1>3. Terms(c, o, n) \in [1 .. n -> Int]
    BY <1>2 DEF Terms
  <1> QED BY <1>1, <1>3, SumTakeOut DEF Worth

(* Of costs that are natural numbers the span is one. *)
LEMMA SpanType ==
  ASSUME NEW n \in Nat, cost \in [0 .. (n - 1) -> Nat], NEW o, Arranges(o, n)
  PROVE  Span(o) \in Nat
  <1>1. IsFiniteSet(1 .. n)
    BY FS_Interval
  <1>2. ASSUME NEW k \in 1 .. n
        PROVE  (n + 1 - k) * cost[o[k]] \in Nat
    <2>1. o[k] \in 0 .. (n - 1)
      BY DEF Arranges
    <2>2. cost[o[k]] \in Nat /\ n + 1 - k \in Nat
      BY <2>1
    <2> QED BY <2>2
  <1>3. Terms(cost, o, n) \in [1 .. n -> Nat]
    BY <1>2 DEF Terms
  <1>4. Worth(cost, o, n) \in Nat
    BY <1>1, <1>3, SumNatural DEF Worth
  <1> QED BY <1>4, SpanIsWorth

(* Two entries of an order change places. *)
Swapped(o, a, b) == [o EXCEPT ![a] = o[b], ![b] = o[a]]

Exchanges(p, o, a, b, n) ==
  /\ Arranges(p, n)
  /\ p[a] = o[b] /\ p[b] = o[a]
  /\ \A k \in 1 .. n : k # a /\ k # b => p[k] = o[k]

(* Swapping two tiles of an order exchanges their places. *)
LEMMA SwappedExchanges ==
  ASSUME NEW n \in Nat, NEW o, Arranges(o, n),
         NEW a \in 1 .. n, NEW b \in 1 .. n, a # b
  PROVE  Exchanges(Swapped(o, a, b), o, a, b, n)
  BY DEF Arranges, Swapped, Exchanges

(* Bringing the lighter of two tiles forward costs nothing. *)
LEMMA SwapGains ==
  ASSUME NEW n \in Nat, NEW c \in [0 .. (n - 1) -> Int], NEW o, Arranges(o, n),
         NEW a \in 1 .. n, NEW b \in 1 .. n, a < b, c[o[b]] <= c[o[a]]
  PROVE  Worth(c, Swapped(o, a, b), n) <= Worth(c, o, n)
  <1> DEFINE s == Swapped(o, a, b)
             F == Terms(c, o, n)
             G == Terms(c, s, n)
  <1>1. /\ Arranges(s, n) /\ s[a] = o[b] /\ s[b] = o[a]
        /\ \A k \in 1 .. n : k # a /\ k # b => s[k] = o[k]
    <2>1. a # b
      OBVIOUS
    <2>2. Exchanges(s, o, a, b, n)
      BY <2>1, SwappedExchanges, Zenon
    <2> HIDE DEF s
    <2> QED BY <2>2 DEF Exchanges
  <1> HIDE DEF s
  <1>2. /\ F \in [1 .. n -> Int] /\ G \in [1 .. n -> Int] /\ IsFiniteSet(1 .. n)
        /\ Worth(c, o, n) \in Int /\ Worth(c, s, n) \in Int
    BY <1>1, WorthType
  <1>3. \A z \in (1 .. n) \ {a, b} : F[z] = G[z]
    BY <1>1 DEF Terms
  <1>4. /\ F[a] = (n + 1 - a) * c[o[a]] /\ G[a] = (n + 1 - a) * c[o[b]]
        /\ F[b] = (n + 1 - b) * c[o[b]] /\ G[b] = (n + 1 - b) * c[o[a]]
    BY <1>1 DEF Terms
  <1> HIDE DEF F, G
  <1>6. SumFunctionOnSet(G, 1 .. n) - SumFunctionOnSet(F, 1 .. n)
          = (G[a] - F[a]) + (G[b] - F[b])
    <2>1. a # b
      OBVIOUS
    <2> DEFINE S == 1 .. n
    <2>2. /\ IsFiniteSet(S) /\ F \in [S -> Int] /\ G \in [S -> Int]
          /\ a \in S /\ b \in S
          /\ \A z \in S : z # a /\ z # b => F[z] = G[z]
      BY <1>2, <1>3
    <2> HIDE DEF S
    <2>3. SumFunctionOnSet(G, S) - SumFunctionOnSet(F, S)
            = (G[a] - F[a]) + (G[b] - F[b])
      BY <2>1, <2>2, SumTwoPlaces, Zenon
    <2> QED BY <2>3 DEF S
  <1>7. Worth(c, s, n) - Worth(c, o, n) = (G[a] - F[a]) + (G[b] - F[b])
    BY <1>6 DEF Worth, F, G
  <1>8. c[o[a]] \in Int /\ c[o[b]] \in Int
    BY DEF Arranges
  <1>9. \A x, y, u, v \in Int :
          u <= v /\ y <= x => (x * u - x * v) + (y * v - y * u) <= 0
    <2> TAKE x, y, u, v \in Int
    <2> HAVE u <= v /\ y <= x
    <2>1. (x * u - x * v) + (y * v - y * u) = 0 - (x - y) * (v - u)
      OBVIOUS
    <2>2. x - y \in Nat /\ v - u \in Nat
      OBVIOUS
    <2>3. (x - y) * (v - u) \in Nat
      BY <2>2
    <2> QED BY <2>1, <2>3
  <1>10. n + 1 - b <= n + 1 - a /\ n + 1 - a \in Int /\ n + 1 - b \in Int
    OBVIOUS
  <1>11. (G[a] - F[a]) + (G[b] - F[b]) <= 0
    <2> DEFINE x == n + 1 - a
               y == n + 1 - b
               u == c[o[b]]
               v == c[o[a]]
    <2>1. /\ x \in Int /\ y \in Int /\ u \in Int /\ v \in Int
          /\ u <= v /\ y <= x
      BY <1>8, <1>10
    <2>2. /\ F[a] = x * v /\ G[a] = x * u /\ F[b] = y * u /\ G[b] = y * v
      BY <1>4
    <2> HIDE DEF x, y, u, v
    <2>3. (x * u - x * v) + (y * v - y * u) <= 0
      BY <1>9, <2>1
    <2> QED BY <2>2, <2>3
  <1> QED BY <1>2, <1>7, <1>11 DEF s

(* An order of n tiles leaves none out. *)
LEMMA ArrangesAll ==
  ASSUME NEW n \in Nat, NEW o, Arranges(o, n)
  PROVE  \A t \in 0 .. (n - 1) : \E k \in 1 .. n : o[k] = t
  <1> DEFINE S == 1 .. n
             T == 0 .. (n - 1)
  <1>1. /\ IsFiniteSet(S) /\ Cardinality(S) = n
        /\ IsFiniteSet(T) /\ Cardinality(T) = n
    <2>1. /\ IF 0 > n - 1 THEN n = 0 ELSE (n - 1) - 0 + 1 = n
          /\ IF 1 > n THEN n = 0 ELSE n - 1 + 1 = n
      OBVIOUS
    <2> QED BY <2>1, FS_Interval
  <1>2. o \in [S -> T] /\ \A i, j \in S : o[i] = o[j] => i = j
    BY DEF Arranges
  <1> HIDE DEF S, T
  <1>3. o \in Injection(S, T)
    BY <1>2 DEF Injection, IsInjective
  <1>4. o \in Surjection(S, T)
    BY <1>1, <1>3, FS_Injection
  <1> QED BY <1>4 DEF Surjection, S, T

(* Shortest first is best: no order of the batch has smaller completion     *)
(* times.  The argument brings the first tile that is out of its place to   *)
(* it, in an order that would be better and differs from s the least.       *)
Unlike(o, s, n) == {k \in 1 .. n : o[k] # s[k]}

(* Of all orders the one by ascending cost has the least sum of completion
   times: of the orders with a lesser sum, take one with the fewest tiles out
   of place; an exchange makes its sum no greater and puts one more in place. *)
LEMMA LightestFirstIsBest ==
  ASSUME NEW n \in Nat, NEW c \in [0 .. (n - 1) -> Int], NEW s, Arranges(s, n),
         \A i, j \in 1 .. n : i < j => c[s[i]] <= c[s[j]]
  PROVE  \A o : Arranges(o, n) => Worth(c, s, n) <= Worth(c, o, n)
  <1> DEFINE Better == {o \in [1 .. n -> 0 .. (n - 1)] :
                          Arranges(o, n) /\ Worth(c, o, n) < Worth(c, s, n)}
             Gaps == {Unlike(o, s, n) : o \in Better}
  <1>1. \A o : Arranges(o, n) => Worth(c, o, n) \in Int
    BY WorthType
  <1>2. Better = {}
    <2> SUFFICES ASSUME Better # {} PROVE FALSE
      OBVIOUS
    <2>1. IsFiniteSet(1 .. n) /\ \A o : Unlike(o, s, n) \in SUBSET (1 .. n)
      BY FS_Interval DEF Unlike
    <2>2. \A g \in Gaps : IsFiniteSet(g)
      BY <2>1, FS_Subset
    <2>3. PICK g \in Gaps : \A h \in Gaps : Cardinality(g) <= Cardinality(h)
      <3>1. Gaps # {}
        OBVIOUS
      <3> HIDE DEF Gaps
      <3> QED BY <2>2, <3>1, SmallestSet
    <2>4. PICK o \in Better : g = Unlike(o, s, n)
      OBVIOUS
    <2>5. Arranges(o, n) /\ Worth(c, o, n) < Worth(c, s, n)
      BY <2>4
    <2>6. \A h \in Better : Cardinality(g) <= Cardinality(Unlike(h, s, n))
      BY <2>3
    <2>7. IsFiniteSet(g) /\ g \in SUBSET (1 .. n)
      BY <2>1, <2>2, <2>4
    <2>8. \A h : Arranges(h, n) /\ Worth(c, h, n) < Worth(c, s, n)
                   => h \in Better
      BY DEF Arranges
    <2> HIDE DEF Better, Gaps
    <2>9. g # {}
      <3> SUFFICES ASSUME g = {} PROVE FALSE
        OBVIOUS
      <3>1. \A k \in 1 .. n : o[k] = s[k]
        BY <2>4 DEF Unlike
      <3>2. o = s
        BY <2>5, <3>1 DEF Arranges
      <3> QED BY <1>1, <2>5, <3>2
    <2>10. PICK a \in g : \A k \in g : a <= k
      <3>1. g \in SUBSET Nat
        BY <2>7
      <3> QED BY <2>9, <3>1, LeastNat
    <2>11. a \in 1 .. n /\ o[a] # s[a] /\ \A k \in 1 .. n : k < a => o[k] = s[k]
      BY <2>4, <2>7, <2>10 DEF Unlike
    <2>12. s[a] \in 0 .. (n - 1) /\ o[a] \in 0 .. (n - 1)
      BY <2>5, <2>11 DEF Arranges
    <2>13. PICK b \in 1 .. n : o[b] = s[a]
      <3>1. \A t \in 0 .. (n - 1) : \E k \in 1 .. n : o[k] = t
        BY <2>5, ArrangesAll
      <3> QED BY <2>12, <3>1
    <2>14. PICK m \in 1 .. n : s[m] = o[a]
      BY <2>12, ArrangesAll
    <2>15. a < b
      <3>1. b # a
        BY <2>11, <2>13
      <3>2. ASSUME b < a PROVE FALSE
        <4>1. s[b] = s[a]
          BY <2>11, <2>13, <3>2
        <4> QED BY <2>11, <2>13, <3>1, <4>1 DEF Arranges
      <3> QED BY <2>11, <2>13, <3>1, <3>2
    <2>16. a < m
      <3>1. m # a
        BY <2>11, <2>14
      <3>2. ASSUME m < a PROVE FALSE
        <4>1. o[m] = o[a]
          BY <2>11, <2>14, <3>2
        <4> QED BY <2>5, <2>11, <2>14, <3>1, <4>1 DEF Arranges
      <3> QED BY <2>11, <2>14, <3>1, <3>2
    <2>17. c[o[b]] <= c[o[a]]
      BY <2>11, <2>13, <2>14, <2>16
    <2> DEFINE p == Swapped(o, a, b)
    <2>18. /\ Arranges(p, n) /\ p[a] = o[b]
           /\ \A k \in 1 .. n : k # a /\ k # b => p[k] = o[k]
      <3>1. a # b
        BY <2>15
      <3>2. a \in 1 .. n /\ b \in 1 .. n /\ Arranges(o, n)
        BY <2>5, <2>11, <2>13
      <3>3. Exchanges(p, o, a, b, n)
        BY <3>1, <3>2, SwappedExchanges, Zenon
      <3> HIDE DEF p
      <3> QED BY <3>3 DEF Exchanges
    <2>19. Worth(c, p, n) <= Worth(c, o, n)
      BY <2>5, <2>11, <2>13, <2>15, <2>17, SwapGains
    <2> HIDE DEF p
    <2>20. p \in Better
      <3>1. /\ Worth(c, p, n) \in Int /\ Worth(c, o, n) \in Int
            /\ Worth(c, s, n) \in Int
        BY <1>1, <2>5, <2>18
      <3>2. Worth(c, p, n) < Worth(c, s, n)
        BY <2>5, <2>19, <3>1
      <3> QED BY <2>8, <2>18, <3>2
    <2>21. Unlike(p, s, n) \in SUBSET (g \ {a})
      <3>1. b \in g
        <4>1. s[b] # s[a]
          BY <2>11, <2>13, <2>15 DEF Arranges
        <4> QED BY <2>4, <2>13, <4>1 DEF Unlike
      <3>2. a \notin Unlike(p, s, n)
        BY <2>13, <2>18 DEF Unlike
      <3>3. ASSUME NEW k \in Unlike(p, s, n) PROVE k \in g
        <4>1. k \in 1 .. n /\ p[k] # s[k]
          BY DEF Unlike
        <4>2. CASE k = b
          BY <3>1, <4>2
        <4>3. CASE k # b /\ k # a
          BY <2>4, <2>18, <4>1, <4>3 DEF Unlike
        <4> QED BY <3>2, <4>2, <4>3
      <3> QED BY <3>2, <3>3
    <2>22. /\ IsFiniteSet(g \ {a})
           /\ Cardinality(g \ {a}) = Cardinality(g) - 1
           /\ Cardinality(g) \in Nat
      BY <2>7, <2>10, FS_RemoveElement, FS_CardinalityType
    <2>23. /\ Cardinality(Unlike(p, s, n)) <= Cardinality(g) - 1
           /\ Cardinality(Unlike(p, s, n)) \in Nat
      BY <2>21, <2>22, FS_Subset, FS_CardinalityType
    <2>24. Cardinality(g) <= Cardinality(Unlike(p, s, n))
      BY <2>6, <2>20
    <2> QED BY <2>22, <2>23, <2>24
  <1>3. ASSUME NEW o, Arranges(o, n)
        PROVE  Worth(c, s, n) <= Worth(c, o, n)
    <2>1. o \in [1 .. n -> 0 .. (n - 1)]
      BY <1>3 DEF Arranges
    <2>2. ~ (Worth(c, o, n) < Worth(c, s, n))
      BY <1>2, <1>3, <2>1
    <2>3. Worth(c, o, n) \in Int /\ Worth(c, s, n) \in Int
      BY <1>1, <1>3
    <2> QED BY <2>2, <2>3
  <1> QED BY <1>3

(* And the one by descending cost has the greatest: of the opposite costs it
   has the least. *)
LEMMA HeaviestFirstIsWorst ==
  ASSUME NEW n \in Nat, NEW c \in [0 .. (n - 1) -> Int], NEW s, Arranges(s, n),
         \A i, j \in 1 .. n : i < j => c[s[i]] >= c[s[j]]
  PROVE  \A o : Arranges(o, n) => Worth(c, o, n) <= Worth(c, s, n)
  <1> DEFINE d == [i \in 0 .. (n - 1) |-> 0 - c[i]]
  <1>1. d \in [0 .. (n - 1) -> Int] /\ \A i \in 0 .. (n - 1) : d[i] = 0 - c[i]
    OBVIOUS
  <1> HIDE DEF d
  <1>2. ASSUME NEW o, Arranges(o, n)
        PROVE  Worth(d, o, n) = 0 - Worth(c, o, n)
    <2> DEFINE F == Terms(c, o, n)
               G == Terms(d, o, n)
    <2>1. /\ F \in [1 .. n -> Int] /\ G \in [1 .. n -> Int]
          /\ IsFiniteSet(1 .. n)
      BY <1>1, <1>2, WorthType
    <2>2. ASSUME NEW k \in 1 .. n PROVE G[k] = 0 - F[k]
      <3>1. o[k] \in 0 .. (n - 1)
        BY <1>2 DEF Arranges
      <3>2. G[k] = (n + 1 - k) * d[o[k]] /\ F[k] = (n + 1 - k) * c[o[k]]
        BY DEF Terms
      <3> DEFINE x == n + 1 - k
                 y == c[o[k]]
      <3>3. x \in Int /\ y \in Int /\ d[o[k]] = 0 - y
        BY <1>1, <3>1
      <3> HIDE DEF x, y
      <3>4. x * (0 - y) = 0 - x * y
        BY <3>3
      <3> QED BY <3>2, <3>3, <3>4 DEF x, y
    <2> HIDE DEF F, G
    <2>3. SumFunctionOnSet(G, 1 .. n) = 0 - SumFunctionOnSet(F, 1 .. n)
      BY <2>1, <2>2, SumNegated
    <2> QED BY <2>3 DEF Worth, F, G
  <1>3. \A i, j \in 1 .. n : i < j => d[s[i]] <= d[s[j]]
    <2>1. \A i \in 1 .. n : s[i] \in 0 .. (n - 1)
      BY DEF Arranges
    <2>2. ASSUME NEW i \in 1 .. n, NEW j \in 1 .. n, i < j
          PROVE  d[s[i]] <= d[s[j]]
      <3>1. /\ c[s[i]] \in Int /\ d[s[i]] = 0 - c[s[i]]
            /\ c[s[j]] \in Int /\ d[s[j]] = 0 - c[s[j]]
        BY <1>1, <2>1
      <3>2. c[s[i]] >= c[s[j]]
        BY <2>2
      <3> QED BY <3>1, <3>2
    <2> QED BY <2>2
  <1>4. ASSUME NEW o, Arranges(o, n)
        PROVE  Worth(c, o, n) <= Worth(c, s, n)
    <2>1. Worth(d, s, n) <= Worth(d, o, n)
      BY <1>1, <1>3, <1>4, LightestFirstIsBest
    <2>2. Worth(c, o, n) \in Int /\ Worth(c, s, n) \in Int
      BY <1>4, WorthType
    <2> QED BY <1>2, <1>4, <2>1, <2>2
  <1> QED BY <1>4

-----------------------------------------------------------------------------
(* The controller. *)

(* A batch: its costs, and what else its order depends on. *)
BatchInv ==
  /\ \E n \in Nat : /\ cost \in [0 .. (n - 1) -> Costs]
                    /\ slack \in [0 .. (n - 1) -> Int]
  /\ R \in Nat
  /\ block \in Int

(* The controller's stored order is the one it last wrote: an order of a    *)
(* batch of some size, not always of the batch that waits.                  *)
StoredInv ==
  policy # "region" => pi = last /\ \E m \in Nat : Arranges(last, m)

ControlInv == policy \in Policies /\ BatchInv /\ StoredInv

(* The fresh order is one of the batch; under srpt the shortest come first,  *)
(* under lpt the longest.  (order)                                           *)
LEMMA FreshIs ==
  ASSUME policy \in Policies, policy # "region",
         NEW n \in Nat, cost \in [0 .. (n - 1) -> Costs],
         slack \in [0 .. (n - 1) -> Int]
  PROVE  /\ Arranges(Fresh, n)
         /\ policy = "srpt" =>
              \A i, j \in 1 .. n : i < j => cost[Fresh[i]] <= cost[Fresh[j]]
         /\ policy = "lpt" =>
              \A i, j \in 1 .. n : i < j => cost[Fresh[i]] >= cost[Fresh[j]]
  <1> DEFINE D == 0 .. (n - 1)
             key == [i \in D |-> CASE policy = "lpt"  -> 0 - cost[i]
                                   [] policy = "srpt" -> cost[i]
                                   [] policy = "edf"  -> slack[i] - cost[i]]
  <1>1. policy \in {"lpt", "srpt", "edf"}
    BY OrderAssumption DEF OrderAssumption
  <1>2. \A i \in D : cost[i] \in Int /\ slack[i] \in Int
    <2>1. cost \in [0 .. (n - 1) -> Int]
      <3>1. \A x \in Costs : x \in Int
        BY OrderAssumption DEF OrderAssumption
      <3> QED BY <3>1
    <2> QED BY <2>1
  <1>3. D \in SUBSET Nat /\ IsFiniteSet(D)
    BY FS_Interval
  <1>4. Fresh = SortedBy(key)
    BY DEF Fresh, TilesOf
  <1>5. key \in [D -> Int]
    <2>1. \A i \in D : key[i] \in Int
      BY <1>1, <1>2
    <2> QED BY <2>1
  <1>6. /\ policy = "srpt" => \A i \in D : key[i] = cost[i]
        /\ policy = "lpt" => \A i \in D : key[i] = 0 - cost[i]
    OBVIOUS
  <1> HIDE DEF key
  <1>7. Fresh \in SetToSeqs(D) /\ Ascends(key, Fresh)
    BY <1>3, <1>4, <1>5, SortedIs
  <1>8. Arranges(Fresh, n)
    BY <1>7, BatchOf DEF TilesOf
  <1>9. ASSUME policy = "srpt", NEW i \in 1 .. n, NEW j \in 1 .. n, i < j
        PROVE  cost[Fresh[i]] <= cost[Fresh[j]]
    <2>1. Fresh[i] \in D /\ Fresh[j] \in D /\ DOMAIN Fresh = 1 .. n
      BY <1>8 DEF Arranges
    <2>2. Before(key, Fresh[i], Fresh[j])
      BY <1>7, <1>9, <2>1 DEF Ascends
    <2> QED BY <1>2, <1>6, <1>9, <2>1, <2>2 DEF Before
  <1>10. ASSUME policy = "lpt", NEW i \in 1 .. n, NEW j \in 1 .. n, i < j
         PROVE  cost[Fresh[i]] >= cost[Fresh[j]]
    <2>1. Fresh[i] \in D /\ Fresh[j] \in D /\ DOMAIN Fresh = 1 .. n
      BY <1>8 DEF Arranges
    <2>2. Before(key, Fresh[i], Fresh[j])
      BY <1>7, <1>10, <2>1 DEF Ascends
    <2> QED BY <1>2, <1>6, <1>10, <2>1, <2>2 DEF Before
  <1> QED BY <1>8, <1>9, <1>10

(* Init and a prediction give a batch. *)
LEMMA BatchInit == Init => BatchInv
  <1> SUFFICES ASSUME Init PROVE BatchInv
    OBVIOUS
  <1>1. cost = <<>> /\ slack = <<>> /\ R = 0 /\ block = 1
    BY DEF Init
  <1>2. <<>> \in [0 .. (0 - 1) -> Costs] /\ <<>> \in [0 .. (0 - 1) -> Int]
    <2>1. 0 .. (0 - 1) = {}
      OBVIOUS
    <2> QED BY <2>1
  <1> QED BY <1>1, <1>2 DEF BatchInv

(* A new prediction is of the tiles of its batch. *)
LEMMA BatchPredicted == Predict => BatchInv'
  <1> SUFFICES ASSUME Predict PROVE BatchInv'
    OBVIOUS
  <1>1. PICK n \in 1 .. MaxTiles :
          /\ cost' \in [0 .. (n - 1) -> Costs]
          /\ slack' \in IF policy = "edf" THEN [0 .. (n - 1) -> Slacks]
                        ELSE {[i \in 0 .. (n - 1) |-> 0]}
    BY DEF Predict
  <1>2. slack' \in [0 .. (n - 1) -> Int]
    <2>1. CASE policy = "edf"
      BY <1>1, <2>1, OrderAssumption DEF OrderAssumption
    <2>2. CASE policy # "edf"
      BY <1>1, <2>2
    <2> QED BY <2>1, <2>2
  <1>3. R' \in Nat /\ block' \in Int
    BY OrderAssumption DEF Predict, OrderAssumption
  <1>4. n \in Nat
    OBVIOUS
  <1> QED BY <1>1, <1>2, <1>3, <1>4 DEF BatchInv

(* What order() decides, of a stored order of any size. *)
Decided(n) ==
  /\ cost \in [0 .. (n - 1) -> Nat]
  /\ last' = pi' /\ Arranges(pi', n)
  /\ Arranges(Fresh, n)
  /\ policy = "srpt" =>
       \A i, j \in 1 .. n : i < j => cost[Fresh[i]] <= cost[Fresh[j]]
  /\ policy = "lpt" =>
       \A i, j \in 1 .. n : i < j => cost[Fresh[i]] >= cost[Fresh[j]]
  /\ \/ /\ pi' = Fresh
        /\ Len(last) = n =>
             /\ Arranges(last, n)
             /\ (Span(last) - Span(Fresh)) * Deadband >= Span(Fresh)
             /\ Span(last) # Span(Fresh)
     \/ /\ pi' = last
        /\ \/ (Span(last) - Span(Fresh)) * Deadband < Span(Fresh)
           \/ Span(last) = Span(Fresh)

(* order() either keeps the stored order or stores and writes the sorted one. *)
LEMMA OrderDecides ==
  ASSUME ControlInv, OrderStep
  PROVE  \E n \in Nat : Decided(n)
  <1>0. Deadband \in Nat \ {0}
    BY OrderAssumption DEF OrderAssumption
  <1>1. policy # "region" /\ last' = (IF Damped THEN last ELSE Fresh) /\ pi' = last'
    BY DEF OrderStep
  <1>2. PICK n \in Nat : /\ cost \in [0 .. (n - 1) -> Costs]
                         /\ slack \in [0 .. (n - 1) -> Int]
    BY DEF ControlInv, BatchInv
  <1>3. cost \in [0 .. (n - 1) -> Nat]
    BY <1>2, OrderAssumption DEF OrderAssumption
  <1>4. Size(cost) = n
    BY <1>3, BatchOf
  <1>5. /\ Arranges(Fresh, n)
        /\ policy = "srpt" =>
             \A i, j \in 1 .. n : i < j => cost[Fresh[i]] <= cost[Fresh[j]]
        /\ policy = "lpt" =>
             \A i, j \in 1 .. n : i < j => cost[Fresh[i]] >= cost[Fresh[j]]
    BY <1>1, <1>2, FreshIs DEF ControlInv
  <1>6. PICK m \in Nat : Arranges(last, m)
    BY <1>1 DEF ControlInv, StoredInv
  <1>7. Len(last) = m
    BY <1>6 DEF Arranges
  <1>8. Len(last) = n => /\ Arranges(last, n)
                         /\ Span(last) \in Nat /\ Span(Fresh) \in Nat
    <2> SUFFICES ASSUME Len(last) = n
                 PROVE  /\ Arranges(last, n)
                        /\ Span(last) \in Nat /\ Span(Fresh) \in Nat
      OBVIOUS
    <2>1. Arranges(last, n)
      BY <1>6, <1>7
    <2> QED BY <1>3, <1>5, <2>1, SpanType
  <1>9. CASE Damped
    <2>1. /\ pi' = last /\ Len(last) = n
          /\ \/ (Span(last) - Span(Fresh)) * Deadband < Span(Fresh)
             \/ Span(last) - Span(Fresh) = 0
      BY <1>1, <1>4, <1>9 DEF Damped
    <2>2. Span(last) - Span(Fresh) = 0 => Span(last) = Span(Fresh)
      BY <1>8, <2>1
    <2> QED BY <1>1, <1>3, <1>5, <1>8, <2>1, <2>2 DEF Decided
  <1>10. CASE ~ Damped
    <2>1. pi' = Fresh
      BY <1>1, <1>10
    <2>2. ASSUME Len(last) = n
          PROVE  (Span(last) - Span(Fresh)) * Deadband >= Span(Fresh)
      <3>1. ~ ((Span(last) - Span(Fresh)) * Deadband < Span(Fresh))
        BY <1>4, <1>10, <2>2 DEF Damped
      <3>2. (Span(last) - Span(Fresh)) * Deadband \in Int /\ Span(Fresh) \in Int
        BY <1>0, <1>8, <2>2
      <3> QED BY <3>1, <3>2
    <2>3. ASSUME Len(last) = n
          PROVE  Span(last) # Span(Fresh)
      <3>1. Span(last) - Span(Fresh) # 0
        BY <1>4, <1>10, <2>3 DEF Damped
      <3> QED BY <1>8, <2>3, <3>1
    <2> QED BY <1>1, <1>3, <1>5, <1>8, <2>1, <2>2, <2>3 DEF Decided
  <1> QED BY <1>9, <1>10

(* Before the first batch nothing is stored. *)
LEMMA ControlInit == Init => ControlInv
  <1> SUFFICES ASSUME Init PROVE ControlInv
    OBVIOUS
  <1>1. pi = last /\ Arranges(last, 0)
    BY DEF Init, Arranges
  <1>2. 0 \in Nat
    OBVIOUS
  <1> QED BY <1>1, <1>2, BatchInit DEF Init, ControlInv, StoredInv

(* Every step preserves the batch and the stored order. *)
LEMMA ControlNext == ControlInv /\ [Next]_vars => ControlInv'
  <1> SUFFICES ASSUME ControlInv, [Next]_vars PROVE ControlInv'
    OBVIOUS
  <1>1. CASE Predict
    BY <1>1, BatchPredicted DEF Predict, ControlInv, StoredInv, Arranges
  <1>2. CASE OrderStep
    <2>1. policy' = policy /\ BatchInv'
      BY <1>2 DEF OrderStep, batch, ControlInv, BatchInv
    <2>2. StoredInv'
      <3>1. PICK n \in Nat : last' = pi' /\ Arranges(pi', n)
        BY <1>2, OrderDecides DEF Decided
      <3> QED BY <3>1 DEF StoredInv, Arranges
    <2> QED BY <2>1, <2>2 DEF ControlInv
  <1>3. CASE RegionStep
    BY <1>3 DEF RegionStep, batch, ControlInv, BatchInv, StoredInv
  <1>4. CASE UNCHANGED vars
    BY <1>4 DEF vars, batch, ControlInv, BatchInv, StoredInv, Arranges
  <1> QED BY <1>1, <1>2, <1>3, <1>4 DEF Next

(* So the stored order is always one of as many tiles as it has. *)
LEMMA ControlAlways == Spec => []ControlInv
  BY ControlInit, ControlNext, PTL DEF Spec

(* Within the dead-band of the best: what is stored was the fresh order     *)
(* once, and it is replaced as soon as the fresh order gains more.  (order) *)
LEMMA SrptState ==
  ASSUME ControlInv, OrderStep, policy = "srpt"
  PROVE  \A o \in SetToSeqs(TilesOf(cost)) :
           Span(pi') * Deadband <= (Deadband + 1) * Span(o)
  <1>0. Deadband \in Nat \ {0}
    BY OrderAssumption DEF OrderAssumption
  <1>1. PICK n \in Nat :
           /\ cost \in [0 .. (n - 1) -> Nat]
           /\ Arranges(pi', n)
           /\ Arranges(Fresh, n)
           /\ \A i, j \in 1 .. n : i < j => cost[Fresh[i]] <= cost[Fresh[j]]
           /\ \/ pi' = Fresh
              \/ (Span(pi') - Span(Fresh)) * Deadband < Span(Fresh)
              \/ Span(pi') = Span(Fresh)
    <2>1. PICK n \in Nat : Decided(n)
      BY OrderDecides
    <2> QED BY <2>1 DEF Decided
  <1>2. SUFFICES ASSUME NEW o \in SetToSeqs(TilesOf(cost))
                 PROVE  Span(pi') * Deadband <= (Deadband + 1) * Span(o)
    OBVIOUS
  <1>3. Arranges(o, n)
    BY <1>1, BatchOf
  <1>4. Worth(cost, Fresh, n) <= Worth(cost, o, n)
    <2>1. cost \in [0 .. (n - 1) -> Int]
      BY <1>1
    <2> QED BY <1>1, <1>3, <2>1, LightestFirstIsBest
  <1>5. /\ Span(Fresh) = Worth(cost, Fresh, n) /\ Span(Fresh) \in Nat
        /\ Span(o) = Worth(cost, o, n) /\ Span(o) \in Nat
    BY <1>1, <1>3, SpanIsWorth, SpanType
  <1>6. Span(pi') \in Nat
    <2> DEFINE p == pi'
    <2>1. Arranges(p, n)
      BY <1>1
    <2> HIDE DEF p
    <2>2. Span(p) \in Nat
      BY <1>1, <2>1, SpanIsWorth, SpanType
    <2> QED BY <2>2 DEF p
  <1>7. \A x, f, b \in Nat :
          /\ f <= b
          /\ x = f \/ (x - f) * Deadband < f
          => x * Deadband <= (Deadband + 1) * b
    <2> TAKE x, f, b \in Nat
    <2> HAVE f <= b /\ (x = f \/ (x - f) * Deadband < f)
    <2>1. f * Deadband <= b * Deadband
      BY <1>0
    <2>2. (Deadband + 1) * b = b * Deadband + b
      BY <1>0
    <2>3. (x - f) * Deadband = x * Deadband - f * Deadband
      BY <1>0
    <2>4. /\ x * Deadband \in Int /\ f * Deadband \in Int
          /\ b * Deadband \in Int
      BY <1>0
    <2>5. CASE x = f
      BY <2>1, <2>2, <2>4, <2>5
    <2>6. CASE (x - f) * Deadband < f
      BY <2>1, <2>2, <2>3, <2>4, <2>6
    <2> QED BY <2>5, <2>6
  <1>8. Span(Fresh) <= Span(o)
    BY <1>4, <1>5
  <1>9. Span(pi') = Span(Fresh)
          \/ (Span(pi') - Span(Fresh)) * Deadband < Span(Fresh)
    BY <1>1
  <1> QED BY <1>5, <1>6, <1>7, <1>8, <1>9

(* Before the first batch nothing is written. *)
LEMMA SrptInit == Init => SrptNearBest
  <1> SUFFICES ASSUME Init,
                      NEW o \in SetToSeqs(TilesOf(cost))
               PROVE  Span(pi) * Deadband <= (Deadband + 1) * Span(o)
    BY DEF SrptNearBest
  <1>1. cost = <<>> /\ pi = <<>> /\ 0 .. (0 - 1) = {} /\ 1 .. 0 = {}
    BY DEF Init
  <1>0. PICK n \in Nat : n = 0
    OBVIOUS
  <1>2. cost \in [0 .. (n - 1) -> Nat] /\ Arranges(pi, n) /\ 1 .. n = {}
    BY <1>0, <1>1 DEF Arranges
  <1>3. Arranges(o, n)
    BY <1>2, BatchOf
  <1>4. o = pi
    <2>1. DOMAIN o = {} /\ DOMAIN pi = {}
      BY <1>2, <1>3 DEF Arranges
    <2>2. o = [k \in {} |-> o[k]] /\ pi = [k \in {} |-> pi[k]]
      BY <1>2, <1>3, <2>1 DEF Arranges
    <2>3. [k \in {} |-> o[k]] = [k \in {} |-> pi[k]]
      OBVIOUS
    <2> QED BY <2>2, <2>3, Zenon
  <1>5. Span(pi) \in Nat
    BY <1>2, SpanIsWorth, SpanType
  <1>6. \A x, d \in Nat : x * d <= (d + 1) * x
    OBVIOUS
  <1>7. Deadband \in Nat
    BY OrderAssumption DEF OrderAssumption
  <1> QED BY <1>4, <1>5, <1>6, <1>7

(* Every step preserves SrptNearBest. *)
LEMMA SrptNext ==
  ControlInv /\ SrptNearBest /\ [Next]_vars => SrptNearBest'
  <1> SUFFICES ASSUME ControlInv, SrptNearBest, [Next]_vars
               PROVE  SrptNearBest'
    OBVIOUS
  <1>1. CASE Predict
    BY <1>1 DEF Predict, SrptNearBest, Ordered
  <1>2. CASE OrderStep
    <2>1. cost' = cost /\ policy' = policy
      BY <1>2 DEF OrderStep, batch
    <2>2. policy = "srpt" =>
            \A o \in SetToSeqs(TilesOf(cost)) :
              Span(pi') * Deadband <= (Deadband + 1) * Span(o)
      BY <1>2, SrptState
    <2> QED BY <2>1, <2>2 DEF SrptNearBest, Span, TilesOf
  <1>3. CASE RegionStep
    BY <1>3 DEF RegionStep, batch, SrptNearBest
  <1>4. CASE UNCHANGED vars
    BY <1>4 DEF vars, batch, SrptNearBest, Ordered, Span, TilesOf
  <1> QED BY <1>1, <1>2, <1>3, <1>4 DEF Next

(* Under srpt, every order the controller writes has completion times       *)
(* within the dead-band of the best order of its batch, whatever batches    *)
(* and predictions came before and however long an old order was kept: for  *)
(* batches of any size, any costs and any dead-band.  (order, _span)        *)
THEOREM KeptIsNearBest == Spec => []SrptNearBest
  BY SrptInit, SrptNext, ControlAlways, PTL DEF Spec

(* A stored lpt order of the size of the batch is kept: the fresh order has *)
(* the greatest completion times of all, so it gains nothing on it.         *)
LEMMA LptKeeps ==
  ASSUME ControlInv, OrderStep, policy = "lpt", Len(pi') = Len(pi)
  PROVE  pi' = pi
  <1>0. Deadband \in Nat \ {0}
    BY OrderAssumption DEF OrderAssumption
  <1>1. pi = last
    BY DEF ControlInv, StoredInv
  <1>2. PICK n \in Nat : Decided(n)
    BY OrderDecides
  <1>3. SUFFICES ASSUME pi' # last PROVE FALSE
    BY <1>1
  <1>4. Len(last) = n
    BY <1>1, <1>2 DEF Decided, Arranges
  <1>5. /\ Arranges(last, n) /\ Arranges(Fresh, n)
        /\ cost \in [0 .. (n - 1) -> Nat]
        /\ \A i, j \in 1 .. n : i < j => cost[Fresh[i]] >= cost[Fresh[j]]
        /\ (Span(last) - Span(Fresh)) * Deadband >= Span(Fresh)
        /\ Span(last) # Span(Fresh)
    BY <1>2, <1>3, <1>4 DEF Decided
  <1>6. Worth(cost, last, n) <= Worth(cost, Fresh, n)
    <2>1. cost \in [0 .. (n - 1) -> Int]
      BY <1>5
    <2> QED BY <1>5, <2>1, HeaviestFirstIsWorst
  <1>7. /\ Span(last) = Worth(cost, last, n) /\ Span(last) \in Nat
        /\ Span(Fresh) = Worth(cost, Fresh, n) /\ Span(Fresh) \in Nat
    BY <1>5, SpanIsWorth, SpanType
  <1>8. \A x, f \in Nat : x < f => (x - f) * Deadband < 0
    <2> TAKE x, f \in Nat
    <2> HAVE x < f
    <2>1. f - x \in Nat \ {0}
      OBVIOUS
    <2>2. (f - x) * Deadband > 0
      BY <1>0, <2>1
    <2>3. (x - f) * Deadband = 0 - (f - x) * Deadband
      BY <1>0
    <2> QED BY <1>0, <2>2, <2>3
  <1>9. Span(last) < Span(Fresh)
    BY <1>5, <1>6, <1>7
  <1>10. (Span(last) - Span(Fresh)) * Deadband < 0
    BY <1>7, <1>8, <1>9
  <1> DEFINE g == (Span(last) - Span(Fresh)) * Deadband
  <1>11. g \in Int /\ g < 0 /\ g >= Span(Fresh)
    BY <1>0, <1>5, <1>7, <1>10
  <1> HIDE DEF g
  <1> QED BY <1>7, <1>11

(* Batches of any size, any predictions and any dead-band: under lpt an     *)
(* order, once written, is never replaced by another of its size, however   *)
(* the predictions turn.  What the comment of _span calls "silently frozen" *)
(* is so still under this policy.  (order, _span)                           *)
THEOREM LptFrozen == Spec => LptNeverReorders
  <1> DEFINE Kept == (policy = "lpt" /\ Len(pi') = Len(pi)) => pi' = pi
  <1>1. ControlInv /\ [Next]_vars => [Kept]_vars
    <2> SUFFICES ASSUME ControlInv, Next, policy = "lpt", Len(pi') = Len(pi)
                 PROVE  pi' = pi
      OBVIOUS
    <2>1. CASE Predict
      BY <2>1 DEF Predict
    <2>2. CASE RegionStep
      BY <2>2 DEF RegionStep
    <2>3. CASE OrderStep
      BY <2>3, LptKeeps
    <2> QED BY <2>1, <2>2, <2>3 DEF Next
  <1> QED BY <1>1, ControlAlways, PTL DEF Spec, LptNeverReorders

-----------------------------------------------------------------------------
(* The stripes of a region. *)

(* Where Striped takes the entry at place k of an order of n tiles from. *)
Source(k, n, r) ==
  IF k <= r
  THEN IF k % 2 = 1 THEN (k + 1) \div 2 ELSE n + 1 - k \div 2
  ELSE k - r + Heavies(r)

(* The region is split into its heavy and its light slots. *)
LEMMA Slots ==
  ASSUME NEW r \in Nat
  PROVE  /\ Heavies(r) \in Nat /\ Lights(r) \in Nat
         /\ Heavies(r) + Lights(r) = r
         /\ 2 * Heavies(r) = r \/ 2 * Heavies(r) = r + 1
  BY DEF Heavies, Lights

(* Each place takes its entry from another place, and from one that exists. *)
LEMMA SourceInjective ==
  ASSUME NEW n \in Nat, NEW r \in Nat, r < n
  PROVE  /\ \A k \in 1 .. n : Source(k, n, r) \in 1 .. n
         /\ \A k, l \in 1 .. n : Source(k, n, r) = Source(l, n, r) => k = l
  <1>1. \A k \in 1 .. n : Source(k, n, r) \in 1 .. n
    BY Slots DEF Source
  <1>2. ASSUME NEW k \in 1 .. n, NEW l \in 1 .. n,
               Source(k, n, r) = Source(l, n, r)
        PROVE  k = l
    <2>0. /\ Heavies(r) \in Nat /\ Lights(r) \in Nat
          /\ 2 * Heavies(r) = r \/ 2 * Heavies(r) = r + 1
      BY Slots
    <2>1. CASE k <= r /\ l <= r
      BY <1>2, <2>1 DEF Source
    <2>2. CASE k > r /\ l > r
      BY <1>2, <2>0, <2>2 DEF Source
    <2>3. CASE k <= r /\ l > r
      BY <1>2, <2>0, <2>3 DEF Source
    <2>4. CASE k > r /\ l <= r
      BY <1>2, <2>0, <2>4 DEF Source
    <2> QED BY <2>1, <2>2, <2>3, <2>4
  <1> QED BY <1>1, <1>2

(* Striped puts at each place the entry that Source says. *)
LEMMA StripedEntries ==
  ASSUME NEW n \in Nat, NEW lpt \in [1 .. n -> DOMAIN cost],
         NEW r \in Nat, r < n
  PROVE  Striped(lpt, r) = [k \in 1 .. n |-> lpt[Source(k, n, r)]]
  <1> DEFINE S == DOMAIN cost
             pre == [k \in 1 .. r |->
                       IF k % 2 = 1 THEN lpt[(k + 1) \div 2]
                                    ELSE lpt[Len(lpt) + 1 - k \div 2]]
             suf == SubSeq(lpt, Heavies(r) + 1, Len(lpt) - Lights(r))
  <1>0. /\ Heavies(r) \in Nat /\ Lights(r) \in Nat
        /\ Heavies(r) + Lights(r) = r
    BY Slots
  <1> HIDE DEF S
  <1>1. Len(lpt) = n /\ lpt \in Seq(S)
    BY DEF S
  <1>2. \A k \in 1 .. r : pre[k] = lpt[Source(k, n, r)]
    BY <1>1 DEF Source
  <1>3. \A k \in 1 .. n : lpt[Source(k, n, r)] \in S
    BY SourceInjective DEF S
  <1>4. pre \in Seq(S) /\ Len(pre) = r
    <2>1. \A k \in 1 .. r : pre[k] \in S
      <3>1. \A k \in 1 .. r : k \in 1 .. n
        OBVIOUS
      <3> HIDE DEF pre
      <3> QED BY <1>2, <1>3, <3>1
    <2>2. DOMAIN pre = 1 .. r /\ pre = [k \in 1 .. r |-> pre[k]]
      OBVIOUS
    <2> HIDE DEF pre
    <2>3. pre \in [1 .. r -> S]
      BY <2>1, <2>2
    <2> QED BY <2>3
  <1>5. /\ suf \in Seq(S)
        /\ Len(suf) = n - r
        /\ \A i \in 1 .. (n - r) : suf[i] = lpt[Heavies(r) + i]
    <2>1. /\ Heavies(r) + 1 \in Int /\ n - Lights(r) \in Int
          /\ Heavies(r) + 1 <= n - Lights(r)
          /\ n - Lights(r) - (Heavies(r) + 1) + 1 = n - r
      BY <1>0
    <2>2. \A i \in (Heavies(r) + 1) .. (n - Lights(r)) : lpt[i] \in S
      BY <1>0 DEF S
    <2> DEFINE a == Heavies(r) + 1
               b == n - Lights(r)
    <2>3. suf = SubSeq(lpt, a, b)
      BY <1>1
    <2> HIDE DEF suf, a, b
    <2>4. /\ SubSeq(lpt, a, b) \in Seq(S)
          /\ Len(SubSeq(lpt, a, b)) = IF a <= b THEN b - a + 1 ELSE 0
          /\ \A i \in 1 .. (b - a + 1) : SubSeq(lpt, a, b)[i] = lpt[a + i - 1]
      <3>1. a \in Int /\ b \in Int /\ \A i \in a .. b : lpt[i] \in S
        BY <2>1, <2>2 DEF a, b
      <3> QED BY <3>1, SubSeqProperties
    <2>5. a <= b /\ b - a + 1 = n - r
      BY <2>1 DEF a, b
    <2>6. \A i \in 1 .. (n - r) : a + i - 1 = Heavies(r) + i
      BY <1>0 DEF a
    <2> QED BY <2>3, <2>4, <2>5, <2>6
  <1>6. Striped(lpt, r) = pre \o suf
    BY DEF Striped
  <1> HIDE DEF pre, suf
  <1>7. /\ pre \o suf \in Seq(S)
        /\ Len(pre \o suf) = n
        /\ \A k \in 1 .. n : (pre \o suf)[k] =
                               IF k <= r THEN pre[k] ELSE suf[k - r]
    <2>1. /\ pre \o suf \in Seq(S)
          /\ Len(pre \o suf) = Len(pre) + Len(suf)
          /\ \A i \in 1 .. Len(pre) + Len(suf) : (pre \o suf)[i] =
               IF i <= Len(pre) THEN pre[i] ELSE suf[i - Len(pre)]
      BY <1>4, <1>5, ConcatProperties, Zenon
    <2>2. Len(pre) = r /\ Len(suf) = n - r /\ r + (n - r) = n
      BY <1>4, <1>5
    <2> QED BY <2>1, <2>2
  <1>8. \A k \in 1 .. n : (pre \o suf)[k] = lpt[Source(k, n, r)]
    <2> TAKE k \in 1 .. n
    <2>1. CASE k <= r
      BY <1>2, <1>7, <2>1
    <2>2. CASE k > r
      <3>1. suf[k - r] = lpt[Heavies(r) + (k - r)]
        BY <1>5, <2>2
      <3>2. Heavies(r) + (k - r) = Source(k, n, r)
        BY <1>0, <2>2 DEF Source
      <3>3. (pre \o suf)[k] = suf[k - r]
        BY <1>7, <2>2
      <3>4. suf[k - r] = lpt[Source(k, n, r)]
        BY <3>1, <3>2
      <3> QED BY <3>3, <3>4
    <2>3. k <= r \/ k > r
      OBVIOUS
    <2> QED BY <2>1, <2>2, <2>3, Zenon
  <1>9. pre \o suf \in [1 .. n -> S]
    BY <1>7, LenProperties
  <1> QED BY <1>6, <1>8, <1>9

(* A region order is an order of its batch, and takes the extremes of it    *)
(* into the prefix.  (region_order, the CLC path)                           *)
RegionOK(o, n) ==
  /\ Arranges(o, n)
  /\ \A k \in (R + 1) .. n :
       /\ \A p \in 1 .. R : IF p % 2 = 1 THEN cost[o[p]] >= cost[o[k]]
                                         ELSE cost[o[p]] <= cost[o[k]]
       /\ \A p \in (R + 1) .. k : cost[o[p]] >= cost[o[k]]

(* The striped region orders take their prefix from both ends of the ranking. *)
LEMMA RegionOrdersOK ==
  ASSUME NEW n \in Nat, cost \in [0 .. (n - 1) -> Nat],
         R \in Nat, R > 0, n > R, NEW o \in RegionOrders
  PROVE  RegionOK(o, n)
  <1>1. Size(cost) = n /\ DOMAIN cost = 0 .. (n - 1)
    BY BatchOf
  <1>2. PICK lpt \in Heaviest(cost) : o = Striped(lpt, R)
    BY <1>1 DEF RegionOrders
  <1>3. /\ Arranges(lpt, n)
        /\ \A i, j \in 1 .. n : i < j => cost[lpt[i]] >= cost[lpt[j]]
    <2>1. lpt \in SetToSeqs(TilesOf(cost))
      BY <1>2 DEF Heaviest, TilesOf
    <2>2. Arranges(lpt, n)
      BY <1>1, <2>1, BatchOf
    <2> QED BY <1>2, <2>2 DEF Heaviest, Arranges
  <1>4. o = [k \in 1 .. n |-> lpt[Source(k, n, R)]]
    <2>1. R < n
      OBVIOUS
    <2>2. lpt \in [1 .. n -> DOMAIN cost]
      BY <1>1, <1>3 DEF Arranges
    <2>3. Striped(lpt, R) = [k \in 1 .. n |-> lpt[Source(k, n, R)]]
      BY <2>1, <2>2, StripedEntries
    <2> QED BY <1>2, <2>3
  <1>5. /\ \A k \in 1 .. n : Source(k, n, R) \in 1 .. n
        /\ \A k, l \in 1 .. n : Source(k, n, R) = Source(l, n, R) => k = l
    BY SourceInjective
  <1>6. Arranges(o, n)
    BY <1>3, <1>4, <1>5 DEF Arranges
  <1>7. \A i, j \in 1 .. n : i <= j => cost[lpt[i]] >= cost[lpt[j]]
    <2> SUFFICES ASSUME NEW i \in 1 .. n, NEW j \in 1 .. n, i <= j
                 PROVE  cost[lpt[i]] >= cost[lpt[j]]
      OBVIOUS
    <2>1. CASE i < j
      BY <1>3, <2>1
    <2>2. CASE i = j
      <3>1. lpt[i] \in 0 .. (n - 1)
        BY <1>3 DEF Arranges
      <3>2. cost[lpt[i]] \in Nat
        BY <3>1
      <3> QED BY <2>2, <3>2
    <2> QED BY <2>1, <2>2
  <1>8. \A k, l \in 1 .. n : Source(k, n, R) <= Source(l, n, R)
                               => cost[o[k]] >= cost[o[l]]
    BY <1>4, <1>5, <1>7
  <1>9. ASSUME NEW k \in (R + 1) .. n
        PROVE  /\ \A p \in 1 .. R : IF p % 2 = 1 THEN cost[o[p]] >= cost[o[k]]
                                             ELSE cost[o[p]] <= cost[o[k]]
               /\ \A p \in (R + 1) .. k : cost[o[p]] >= cost[o[k]]
    <2>1. k \in 1 .. n /\ Source(k, n, R) = k - R + Heavies(R)
      BY DEF Source
    <2>2. /\ Heavies(R) \in Nat /\ Lights(R) \in Nat
          /\ Heavies(R) + Lights(R) = R
          /\ 2 * Heavies(R) = R \/ 2 * Heavies(R) = R + 1
      BY Slots
    <2>3. ASSUME NEW p \in 1 .. R
          PROVE  IF p % 2 = 1 THEN cost[o[p]] >= cost[o[k]]
                              ELSE cost[o[p]] <= cost[o[k]]
      <3>1. p \in 1 .. n
        OBVIOUS
      <3>2. CASE p % 2 = 1
        <4>1. Source(p, n, R) = (p + 1) \div 2
          BY <3>2 DEF Source
        <4>2. Source(p, n, R) <= Source(k, n, R)
          <5>1. 2 * ((p + 1) \div 2) = p + 1 /\ (p + 1) \div 2 \in Int
            BY <3>2
          <5>2. (p + 1) \div 2 <= Heavies(R)
            BY <2>2, <5>1
          <5> QED BY <2>1, <2>2, <4>1, <5>1, <5>2
        <4> QED BY <1>8, <2>1, <3>1, <3>2, <4>2
      <3>3. CASE p % 2 # 1
        <4>1. Source(p, n, R) = n + 1 - p \div 2
          BY <3>3 DEF Source
        <4>2. Source(k, n, R) <= Source(p, n, R)
          <5>1. 2 * (p \div 2) = p /\ p \div 2 \in Int
            BY <3>3
          <5>2. p \div 2 <= Lights(R)
            BY <2>2, <5>1
          <5> QED BY <2>1, <2>2, <4>1, <5>1, <5>2
        <4>3. cost[o[k]] >= cost[o[p]]
          BY <1>8, <2>1, <3>1, <4>2
        <4>4. cost[o[k]] \in Nat /\ cost[o[p]] \in Nat
          BY <1>6, <2>1, <3>1 DEF Arranges
        <4> QED BY <3>3, <4>3, <4>4
      <3> QED BY <3>2, <3>3
    <2>4. ASSUME NEW p \in (R + 1) .. k
          PROVE  cost[o[p]] >= cost[o[k]]
      <3>1. p \in 1 .. n /\ Source(p, n, R) = p - R + Heavies(R)
        BY DEF Source
      <3>2. Source(p, n, R) <= Source(k, n, R)
        BY <2>1, <2>2, <3>1
      <3> QED BY <1>8, <2>1, <3>1, <3>2
    <2> QED BY <2>3, <2>4
  <1> QED BY <1>6, <1>9 DEF RegionOK

-----------------------------------------------------------------------------
(* Blocks. *)

(* Enough blocks of B for n tiles, and none too many. *)
LEMMA BlocksFit ==
  ASSUME NEW n \in Nat \ {0}, NEW B \in Nat \ {0}
  PROVE  /\ CeilDiv(n, B) \in Nat \ {0}
         /\ n <= CeilDiv(n, B) * B
         /\ (CeilDiv(n, B) - 1) * B < n
  <1> DEFINE w == n + B - 1
             q == w \div B
             r == w % B
  <1>1. w \in Nat
    OBVIOUS
  <1>2. q \in Nat /\ r \in 0 .. (B - 1) /\ w = q * B + r
    BY <1>1, DivMod
  <1>3. CeilDiv(n, B) = q
    BY DEF CeilDiv
  <1> HIDE DEF q, r
  <1>4. (q - 1) * B = q * B - B /\ q * B \in Nat
    BY <1>2
  <1>5. q # 0
    <2>1. q = 0 => q * B = 0
      OBVIOUS
    <2> QED BY <1>2, <2>1
  <1>6. n <= q * B /\ q * B - B < n
    BY <1>2, <1>4
  <1> QED BY <1>2, <1>3, <1>4, <1>5, <1>6

(* border orders nb blocks of B. *)
Blocked(border, nb, B) ==
  /\ nb \in Nat \ {0} /\ B \in Nat \ {0}
  /\ Arranges(border, nb)

(* A row of the table, and a place in it. *)
RowOf(k, B) == ((k - 1) \div B) + 1
PlaceOf(k, B) == (k - 1) % B

(* A position of the padded table is a row and a place in it, and back. *)
LEMMA RowsAndPlaces ==
  ASSUME NEW nb \in Nat, NEW B \in Nat \ {0}
  PROVE  /\ \A k \in 1 .. (nb * B) :
              /\ RowOf(k, B) \in 1 .. nb /\ PlaceOf(k, B) \in 0 .. (B - 1)
              /\ k = (RowOf(k, B) - 1) * B + PlaceOf(k, B) + 1
         /\ \A j \in 1 .. nb, p \in 0 .. (B - 1) :
              /\ (j - 1) * B + p + 1 \in 1 .. (nb * B)
              /\ RowOf((j - 1) * B + p + 1, B) = j
              /\ PlaceOf((j - 1) * B + p + 1, B) = p
  <1>1. nb * B \in Nat
    OBVIOUS
  <1>2. ASSUME NEW k \in 1 .. (nb * B)
        PROVE  /\ RowOf(k, B) \in 1 .. nb /\ PlaceOf(k, B) \in 0 .. (B - 1)
               /\ k = (RowOf(k, B) - 1) * B + PlaceOf(k, B) + 1
    <2> DEFINE w == k - 1
               q == w \div B
               r == w % B
    <2>1. w \in Nat /\ w < nb * B
      BY <1>1
    <2>2. q \in Nat /\ r \in 0 .. (B - 1) /\ w = q * B + r
      BY <2>1, DivMod
    <2>3. RowOf(k, B) = q + 1 /\ PlaceOf(k, B) = r
      BY DEF RowOf, PlaceOf
    <2> HIDE DEF q, r
    <2>4. q < nb
      <3>1. q >= nb => q * B >= nb * B
        BY <2>2
      <3>2. q * B \in Nat
        BY <2>2
      <3> QED BY <1>1, <2>1, <2>2, <3>1, <3>2
    <2>5. (q + 1) - 1 = q
      BY <2>2
    <2>6. k = q * B + r + 1
      <3>1. q * B \in Nat
        BY <2>2
      <3> QED BY <1>1, <2>2, <3>1
    <2> QED BY <2>2, <2>3, <2>4, <2>5, <2>6
  <1>3. ASSUME NEW j \in 1 .. nb, NEW p \in 0 .. (B - 1)
        PROVE  /\ (j - 1) * B + p + 1 \in 1 .. (nb * B)
               /\ RowOf((j - 1) * B + p + 1, B) = j
               /\ PlaceOf((j - 1) * B + p + 1, B) = p
    <2> DEFINE i == j - 1
               s == i * B
    <2>1. i \in Nat /\ i + 1 <= nb
      OBVIOUS
    <2>2. (i * B + p) % B = p /\ (i * B + p) \div B = i
      BY <2>1, DivModOf
    <2>3. s \in Nat /\ s + B <= nb * B
      <3>1. (i + 1) * B <= nb * B
        BY <2>1
      <3>2. (i + 1) * B = i * B + B
        BY <2>1
      <3> QED BY <2>1, <3>1, <3>2
    <2>4. i + 1 = j
      OBVIOUS
    <2> HIDE DEF s
    <2>5. s + p + 1 - 1 = s + p /\ s + p + 1 \in 1 .. (nb * B)
      BY <1>1, <2>3
    <2>6. (s + p) % B = p /\ (s + p) \div B = i
      BY <2>2 DEF s
    <2>7. RowOf(s + p + 1, B) = i + 1 /\ PlaceOf(s + p + 1, B) = p
      <3> DEFINE k == s + p + 1
      <3>1. k - 1 = s + p
        <4>1. s \in Int /\ p \in Int
          BY <2>3
        <4> QED BY <4>1
      <3> HIDE DEF k
      <3>2. (k - 1) \div B = i /\ (k - 1) % B = p
        BY <2>6, <3>1, Zenon
      <3>3. RowOf(k, B) = i + 1 /\ PlaceOf(k, B) = p
        BY <3>2, Zenon DEF RowOf, PlaceOf
      <3> QED BY <3>3 DEF k
    <2> HIDE DEF i
    <2>8. s + p + 1 \in 1 .. (nb * B) /\ RowOf(s + p + 1, B) = j
          /\ PlaceOf(s + p + 1, B) = p
      BY <2>4, <2>5, <2>7
    <2> QED BY <2>8 DEF s, i
  <1> QED BY <1>2, <1>3

(* The table holds each index once: at its place in the row of its block.   *)
LEMMA RowsAre ==
  ASSUME NEW nb, NEW B, NEW border, Blocked(border, nb, B)
  PROVE  /\ DOMAIN BlockRows(border, B) = 1 .. (nb * B)
         /\ \A k \in 1 .. (nb * B) :
              /\ BlockRows(border, B)[k]
                   = border[RowOf(k, B)] * B + PlaceOf(k, B)
              /\ BlockRows(border, B)[k] \in Nat
              /\ BlockRows(border, B)[k] \div B = border[RowOf(k, B)]
              /\ BlockRows(border, B)[k] % B = PlaceOf(k, B)
  <1>1. nb \in Nat \ {0} /\ B \in Nat \ {0} /\ Arranges(border, nb)
    BY DEF Blocked
  <1>2. Len(border) = nb
    BY <1>1 DEF Arranges
  <1>3. BlockRows(border, B) = [k \in 1 .. (nb * B) |->
                                  border[RowOf(k, B)] * B + PlaceOf(k, B)]
    BY <1>2 DEF BlockRows, RowOf, PlaceOf
  <1>4. ASSUME NEW k \in 1 .. (nb * B)
        PROVE  /\ border[RowOf(k, B)] * B + PlaceOf(k, B) \in Nat
               /\ (border[RowOf(k, B)] * B + PlaceOf(k, B)) \div B
                    = border[RowOf(k, B)]
               /\ (border[RowOf(k, B)] * B + PlaceOf(k, B)) % B = PlaceOf(k, B)
    <2>1. RowOf(k, B) \in 1 .. nb /\ PlaceOf(k, B) \in 0 .. (B - 1)
      BY <1>1, RowsAndPlaces
    <2>2. border[RowOf(k, B)] \in Nat
      BY <1>1, <2>1 DEF Arranges
    <2> DEFINE b == border[RowOf(k, B)]
               p == PlaceOf(k, B)
    <2> HIDE DEF b, p
    <2>3. b \in Nat /\ p \in 0 .. (B - 1)
      BY <2>1, <2>2 DEF b, p
    <2>4. (b * B + p) \div B = b /\ (b * B + p) % B = p
      BY <1>1, <2>3, DivModOf
    <2>5. b * B + p \in Nat
      <3>1. b * B \in Nat
        BY <1>1, <2>3
      <3> QED BY <2>3, <3>1
    <2> QED BY <2>4, <2>5 DEF b, p
  <1> QED BY <1>3, <1>4

(* No index is missing from the table, and none is in it twice. *)
LEMMA RowsOnce ==
  ASSUME NEW nb, NEW B, NEW border, Blocked(border, nb, B)
  PROVE  /\ \A k, l \in 1 .. (nb * B) :
              BlockRows(border, B)[k] = BlockRows(border, B)[l] => k = l
         /\ \A t \in Nat : t < nb * B =>
              \E k \in 1 .. (nb * B) : BlockRows(border, B)[k] = t
  <1>1. nb \in Nat \ {0} /\ B \in Nat \ {0} /\ Arranges(border, nb)
    BY DEF Blocked
  <1> DEFINE rows == BlockRows(border, B)
             S == 1 .. (nb * B)
  <1>2. /\ \A k \in S : /\ rows[k] = border[RowOf(k, B)] * B + PlaceOf(k, B)
                        /\ rows[k] \div B = border[RowOf(k, B)]
                        /\ rows[k] % B = PlaceOf(k, B)
        /\ \A k \in S : /\ RowOf(k, B) \in 1 .. nb
                        /\ k = (RowOf(k, B) - 1) * B + PlaceOf(k, B) + 1
    <2>1. \A k \in S :
            /\ rows[k] = border[RowOf(k, B)] * B + PlaceOf(k, B)
            /\ rows[k] \div B = border[RowOf(k, B)]
            /\ rows[k] % B = PlaceOf(k, B)
      BY RowsAre
    <2>2. \A k \in S : /\ RowOf(k, B) \in 1 .. nb
                       /\ k = (RowOf(k, B) - 1) * B + PlaceOf(k, B) + 1
      BY <1>1, RowsAndPlaces
    <2> HIDE DEF rows, S
    <2> QED BY <2>1, <2>2, Zenon
  <1>3. \A j \in 1 .. nb, p \in 0 .. (B - 1) :
              /\ (j - 1) * B + p + 1 \in S
              /\ RowOf((j - 1) * B + p + 1, B) = j
              /\ PlaceOf((j - 1) * B + p + 1, B) = p
    BY <1>1, RowsAndPlaces
  <1> HIDE DEF rows, S
  <1>4. ASSUME NEW k \in S, NEW l \in S, rows[k] = rows[l]
        PROVE  k = l
    <2>1. PlaceOf(k, B) = PlaceOf(l, B)
          /\ border[RowOf(k, B)] = border[RowOf(l, B)]
      BY <1>2, <1>4
    <2>2. RowOf(k, B) = RowOf(l, B)
      BY <1>1, <1>2, <2>1 DEF Arranges
    <2> QED BY <1>2, <2>1, <2>2
  <1>5. ASSUME NEW t \in Nat, t < nb * B
        PROVE  \E k \in S : rows[k] = t
    <2> DEFINE q == t \div B
               r == t % B
    <2>1. q \in Nat /\ r \in 0 .. (B - 1) /\ t = q * B + r
      BY <1>1, DivMod
    <2> HIDE DEF q, r
    <2>2. q < nb
      <3>1. q >= nb => q * B >= nb * B
        BY <1>1, <2>1
      <3>2. q * B \in Nat /\ nb * B \in Nat
        BY <1>1, <2>1
      <3> QED BY <1>1, <1>5, <2>1, <3>1, <3>2
    <2>3. q \in 0 .. (nb - 1)
      BY <1>1, <2>1, <2>2
    <2>4. PICK j \in 1 .. nb : border[j] = q
      <3>1. nb \in Nat
        BY <1>1
      <3> QED BY <1>1, <2>3, <3>1, ArrangesAll
    <2>5. PICK k \in S : RowOf(k, B) = j /\ PlaceOf(k, B) = r
      BY <1>3, <2>1
    <2>6. rows[k] = t
      BY <1>2, <2>1, <2>4, <2>5
    <2> QED BY <2>6
  <1> QED BY <1>4, <1>5 DEF rows, S

(* The places that Unpadded keeps, as a set and in their order. *)
Kept(border, n, B) ==
  {k \in DOMAIN BlockRows(border, B) : BlockRows(border, B)[k] < n}
Places(border, n, B) == SortedBy([k \in Kept(border, n, B) |-> k])

(* What remains of the table is an order of the batch, in the table's order. *)
LEMMA UnpaddedIs ==
  ASSUME NEW n \in Nat \ {0}, NEW B \in Nat \ {0}, NEW border,
         Blocked(border, CeilDiv(n, B), B)
  PROVE  LET rows == BlockRows(border, B)
             P == Places(border, n, B)
         IN  /\ P \in [1 .. n -> Kept(border, n, B)]
             /\ \A i, j \in 1 .. n : i < j => P[i] < P[j]
             /\ \A k \in Kept(border, n, B) : \E i \in 1 .. n : P[i] = k
             /\ Unpadded(rows, n) = [j \in 1 .. n |-> rows[P[j]]]
             /\ Arranges(Unpadded(rows, n), n)
  <1> DEFINE nb == CeilDiv(n, B)
             rows == BlockRows(border, B)
             K == Kept(border, n, B)
             T == 0 .. (n - 1)
             f == [k \in K |-> rows[k]]
             id == [k \in K |-> k]
             P == Places(border, n, B)
             u == Unpadded(rows, n)
  <1>1. /\ nb \in Nat \ {0} /\ n <= nb * B /\ nb * B \in Nat
        /\ Blocked(border, nb, B)
    BY BlocksFit
  <1> HIDE DEF nb
  <1>2. /\ DOMAIN rows = 1 .. (nb * B)
        /\ \A k \in 1 .. (nb * B) : rows[k] \in Nat
        /\ \A k, l \in 1 .. (nb * B) : rows[k] = rows[l] => k = l
        /\ \A t \in Nat : t < nb * B => \E k \in 1 .. (nb * B) : rows[k] = t
    <2>1. /\ DOMAIN rows = 1 .. (nb * B)
          /\ \A k \in 1 .. (nb * B) : rows[k] \in Nat
      BY <1>1, RowsAre
    <2>2. /\ \A k, l \in 1 .. (nb * B) : rows[k] = rows[l] => k = l
          /\ \A t \in Nat : t < nb * B => \E k \in 1 .. (nb * B) : rows[k] = t
      BY <1>1, RowsOnce
    <2> HIDE DEF rows
    <2> QED BY <2>1, <2>2, Zenon
  <1>3. K = {k \in 1 .. (nb * B) : rows[k] < n}
    BY <1>2 DEF Kept
  <1> HIDE DEF rows, K
  <1>4. IsFiniteSet(T) /\ Cardinality(T) = n
    <2>1. ~ (0 > n - 1) /\ n - 1 - 0 + 1 = n
      OBVIOUS
    <2> QED BY <2>1, FS_Interval
  <1>5. f \in [K -> T] /\ \A k, l \in K : f[k] = f[l] => k = l
    BY <1>2, <1>3
  <1>6. \A t \in T : \E k \in K : f[k] = t
    <2> SUFFICES ASSUME NEW t \in T PROVE \E k \in K : f[k] = t
      OBVIOUS
    <2>1. t \in Nat /\ t < nb * B /\ t < n
      BY <1>1
    <2>2. PICK k \in 1 .. (nb * B) : rows[k] = t
      BY <1>2, <2>1
    <2> QED BY <1>3, <2>1, <2>2
  <1> HIDE DEF f, T
  <1>7. f \in Injection(K, T) /\ f \in Surjection(K, T)
    BY <1>5, <1>6 DEF Injection, Surjection, IsInjective
  <1>8. IsFiniteSet(K) /\ Cardinality(K) = n
    BY <1>4, <1>7, FS_Injection
  <1>9. K \in SUBSET Nat /\ id \in [K -> Int] /\ \A k \in K : id[k] = k
    BY <1>3
  <1> HIDE DEF id
  <1>10. P = SortedBy(id)
    BY DEF Places, K, id
  <1> HIDE DEF P
  <1>11. P \in SetToSeqs(K) /\ Ascends(id, P)
    BY <1>8, <1>9, <1>10, SortedIs
  <1>12. P \in [1 .. n -> K] /\ \A i, j \in 1 .. n : i # j => P[i] # P[j]
    BY <1>8, <1>11 DEF SetToSeqs
  <1>13. ASSUME NEW i \in 1 .. n, NEW j \in 1 .. n, i < j
         PROVE  P[i] < P[j]
    <2>1. P[i] \in K /\ P[j] \in K
      BY <1>12
    <2>2. Before(id, P[i], P[j])
      BY <1>11, <1>12, <1>13 DEF Ascends
    <2> QED BY <1>9, <2>1, <2>2 DEF Before
  <1>14. \A k \in K : \E i \in 1 .. n : P[i] = k
    <2> DEFINE S == 1 .. n
    <2>1. IsFiniteSet(S) /\ Cardinality(S) = n
      <3>1. ~ (1 > n) /\ n - 1 + 1 = n
        OBVIOUS
      <3> QED BY <3>1, FS_Interval
    <2>2. P \in [S -> K] /\ \A i, j \in S : P[i] = P[j] => i = j
      BY <1>12
    <2> HIDE DEF S
    <2>3. P \in Injection(S, K)
      BY <2>2 DEF Injection, IsInjective
    <2>4. P \in Surjection(S, K)
      BY <1>8, <2>1, <2>3, FS_Injection
    <2> QED BY <2>4 DEF Surjection, S
  <1>15. u = [j \in 1 .. n |-> rows[P[j]]]
    <2>1. {k \in DOMAIN rows : rows[k] < n} = K
      BY <1>2, <1>3
    <2>2. [k \in {k \in DOMAIN rows : rows[k] < n} |-> k] = id
      BY <2>1 DEF id
    <2>3. u = [j \in DOMAIN P |-> rows[P[j]]]
      BY <1>10, <2>2, Zenon DEF Unpadded
    <2>4. DOMAIN P = 1 .. n
      BY <1>12
    <2> QED BY <2>3, <2>4
  <1> HIDE DEF u
  <1>16. Arranges(u, n)
    <2>1. \A j \in 1 .. n : rows[P[j]] \in 0 .. (n - 1)
      BY <1>2, <1>3, <1>12
    <2>2. \A i, j \in 1 .. n : i # j => rows[P[i]] # rows[P[j]]
      BY <1>2, <1>3, <1>12
    <2> QED BY <1>15, <2>1, <2>2 DEF Arranges
  <1> QED BY <1>12, <1>13, <1>14, <1>15, <1>16 DEF u, P, K, rows

(* Tiles side by side in an order of blocks, as BlocksStayTogether has them. *)
Weight(B, t) ==
  SumFunctionOnSet(cost, {u \in TilesOf(cost) : u \div B = t \div B})

SideBySide(x, y, n, B) ==
  \/ y = x + 1 /\ y % B # 0
  \/ /\ y % B = 0
     /\ x % B = B - 1 \/ x = n - 1
     /\ Weight(B, x) >= Weight(B, y)

(* An order of the blocks of a batch: all of them, heaviest first. *)
LEMMA BorderIs ==
  ASSUME NEW n \in Nat \ {0}, NEW B \in Nat \ {0},
         DOMAIN cost = 0 .. (n - 1),
         NEW border \in Heaviest(BlockCosts(cost, B))
  PROVE  /\ Blocked(border, CeilDiv(n, B), B)
         /\ \A i, j \in 1 .. CeilDiv(n, B), x, y \in Nat :
              /\ i < j /\ x \div B = border[i] /\ y \div B = border[j]
              => Weight(B, x) >= Weight(B, y)
  <1> DEFINE nb == CeilDiv(n, B)
             bc == BlockCosts(cost, B)
  <1>1. nb \in Nat \ {0}
    BY BlocksFit
  <1>2. Size(cost) = n
    BY BatchOf
  <1>3. bc = [b \in 0 .. (nb - 1) |->
                SumFunctionOnSet(cost, {t \in TilesOf(cost) : t \div B = b})]
    BY <1>2 DEF BlockCosts
  <1> HIDE DEF nb, bc
  <1>4. DOMAIN bc = 0 .. (nb - 1)
    BY <1>3
  <1>5. border \in SetToSeqs(TilesOf(bc))
        /\ \A i, j \in DOMAIN border : i < j => bc[border[i]] >= bc[border[j]]
    BY DEF Heaviest, TilesOf, bc
  <1>6. Arranges(border, nb)
    BY <1>1, <1>4, <1>5, BatchOf
  <1>7. ASSUME NEW i \in 1 .. nb, NEW j \in 1 .. nb, NEW x \in Nat, NEW y \in Nat,
               i < j, x \div B = border[i], y \div B = border[j]
        PROVE  Weight(B, x) >= Weight(B, y)
    <2>1. /\ border[i] \in 0 .. (nb - 1) /\ border[j] \in 0 .. (nb - 1)
          /\ DOMAIN border = 1 .. nb
      BY <1>6 DEF Arranges
    <2>2. bc[border[i]] >= bc[border[j]]
      BY <1>5, <1>7, <2>1
    <2>3. /\ bc[border[i]] = Weight(B, x)
          /\ bc[border[j]] = Weight(B, y)
      BY <1>3, <1>7, <2>1 DEF Weight
    <2> QED BY <2>2, <2>3
  <1> QED BY <1>1, <1>6, <1>7 DEF Blocked, nb

(* The start of the row after the one of place p. *)
LEMMA NextRow ==
  ASSUME NEW nb \in Nat, NEW B \in Nat \ {0},
         NEW p \in 1 .. (nb * B), NEW q \in 1 .. (nb * B), p < q
  PROVE  \/ RowOf(q, B) = RowOf(p, B) /\ PlaceOf(p, B) < PlaceOf(q, B)
         \/ \E s \in 1 .. (nb * B) :
              /\ RowOf(p, B) + 1 \in 1 .. nb
              /\ RowOf(s, B) = RowOf(p, B) + 1 /\ PlaceOf(s, B) = 0
              /\ p < s /\ s <= q
  <1> DEFINE j == RowOf(p, B)
             a == PlaceOf(p, B)
             l == RowOf(q, B)
             b == PlaceOf(q, B)
  <1>1. /\ j \in 1 .. nb /\ a \in 0 .. (B - 1) /\ p = (j - 1) * B + a + 1
        /\ l \in 1 .. nb /\ b \in 0 .. (B - 1) /\ q = (l - 1) * B + b + 1
    BY RowsAndPlaces
  <1> HIDE DEF j, a, l, b
  <1> DEFINE u == (j - 1) * B
             v == (l - 1) * B
  <1>2. u \in Int /\ v \in Int
    BY <1>1
  <1>3. CASE l < j
    <2>1. (l - 1) + 1 <= j - 1 /\ l - 1 \in Int /\ j - 1 \in Int
      BY <1>1, <1>3
    <2>2. v + B <= u
      <3>1. ((l - 1) + 1) * B <= (j - 1) * B
        BY <2>1
      <3>2. ((l - 1) + 1) * B = (l - 1) * B + B
        BY <2>1
      <3> QED BY <3>1, <3>2
    <2> HIDE DEF u, v
    <2>3. p = u + a + 1 /\ q = v + b + 1
      BY <1>1 DEF u, v
    <2>4. q <= p
      BY <1>1, <1>2, <2>2, <2>3
    <2> QED BY <2>4
  <1>4. CASE l = j
    <2>1. u = v /\ p = u + a + 1 /\ q = v + b + 1
      BY <1>1, <1>4
    <2> HIDE DEF u, v
    <2>2. a < b
      BY <1>1, <1>2, <2>1
    <2> QED BY <1>4, <2>2 DEF j, a, l, b
  <1>5. CASE l > j
    <2>1. j + 1 \in 1 .. nb /\ 0 \in 0 .. (B - 1)
      BY <1>1, <1>5
    <2> DEFINE s == ((j + 1) - 1) * B + 0 + 1
    <2>2. s \in 1 .. (nb * B) /\ RowOf(s, B) = j + 1 /\ PlaceOf(s, B) = 0
      <3>1. \A i \in 1 .. nb, c \in 0 .. (B - 1) :
              /\ (i - 1) * B + c + 1 \in 1 .. (nb * B)
              /\ RowOf((i - 1) * B + c + 1, B) = i
              /\ PlaceOf((i - 1) * B + c + 1, B) = c
        BY RowsAndPlaces
      <3> QED BY <2>1, <3>1, Zenon
    <2>3. s = j * B + 1 /\ j * B = u + B
      BY <1>1
    <2>4. j * B <= v
      <3>1. j <= l - 1 /\ l - 1 \in Int
        BY <1>1, <1>5
      <3>2. j * B <= (l - 1) * B
        BY <1>1, <3>1
      <3> QED BY <3>2
    <2>5. p = u + a + 1 /\ q = v + b + 1
      BY <1>1
    <2> DEFINE w == j * B
    <2>6. s = w + 1 /\ w = u + B /\ w <= v
      BY <2>3, <2>4
    <2> HIDE DEF s, u, v, w
    <2>7. p < s /\ s <= q
      BY <1>1, <1>2, <2>5, <2>6
    <2> QED BY <2>1, <2>2, <2>7 DEF j
  <1> QED BY <1>1, <1>3, <1>4, <1>5

(* What blocks give: an order of the batch, and one that keeps a block's    *)
(* tiles together.  (_grouped_lpt)                                          *)
LEMMA BlocksAdjacent ==
  ASSUME NEW n \in Nat \ {0}, NEW B \in Nat \ {0},
         DOMAIN cost = 0 .. (n - 1),
         NEW border \in Heaviest(BlockCosts(cost, B)),
         NEW o, o = Unpadded(BlockRows(border, B), n)
  PROVE  /\ Arranges(o, n)
         /\ \A k \in 1 .. (n - 1) : SideBySide(o[k], o[k + 1], n, B)
  <1> DEFINE nb == CeilDiv(n, B)
             S == 1 .. (nb * B)
             rows == BlockRows(border, B)
             K == Kept(border, n, B)
             P == Places(border, n, B)
  <1>1. /\ nb \in Nat \ {0} /\ (nb - 1) * B < n
        /\ Blocked(border, nb, B)
        /\ \A i, j \in 1 .. nb, x, y \in Nat :
              /\ i < j /\ x \div B = border[i] /\ y \div B = border[j]
              => Weight(B, x) >= Weight(B, y)
    BY BlocksFit, BorderIs
  <1>2. /\ P \in [1 .. n -> K]
        /\ \A i, j \in 1 .. n : i < j => P[i] < P[j]
        /\ \A k \in K : \E i \in 1 .. n : P[i] = k
        /\ o = [j \in 1 .. n |-> rows[P[j]]]
        /\ Arranges(o, n)
    BY <1>1, UnpaddedIs
  <1>3. /\ K = {k \in S : rows[k] < n}
        /\ \A k \in S : /\ rows[k] = border[RowOf(k, B)] * B + PlaceOf(k, B)
                        /\ rows[k] \in Nat
                        /\ rows[k] \div B = border[RowOf(k, B)]
                        /\ rows[k] % B = PlaceOf(k, B)
    BY <1>1, RowsAre DEF Kept
  <1>4. \A j \in 1 .. nb : border[j] \in 0 .. (nb - 1)
    BY <1>1 DEF Blocked, Arranges
  <1>5. \A k \in S : /\ RowOf(k, B) \in 1 .. nb /\ PlaceOf(k, B) \in 0 .. (B - 1)
                     /\ k = (RowOf(k, B) - 1) * B + PlaceOf(k, B) + 1
    BY <1>1, RowsAndPlaces
  <1> HIDE DEF nb, S, rows, K, P
  <1>6. SUFFICES ASSUME NEW k \in 1 .. (n - 1)
                 PROVE  SideBySide(o[k], o[k + 1], n, B)
    BY <1>2
  <1> DEFINE p == P[k]
             q == P[k + 1]
             x == rows[p]
             y == rows[q]
  <1>7. k \in 1 .. n /\ k + 1 \in 1 .. n /\ k < k + 1
    OBVIOUS
  <1>8. o[k] = x /\ o[k + 1] = y
    BY <1>2, <1>7
  <1>9. p \in K /\ q \in K /\ p < q
    BY <1>2, <1>7
  <1>10. ASSUME NEW s \in K, p < s, s <= q PROVE s = q
    <2>1. PICK i \in 1 .. n : P[i] = s
      BY <1>2
    <2>2. ~ (i <= k)
      <3>1. i < k => s < p
        BY <1>2, <1>7, <2>1
      <3>2. i = k => s = p
        BY <2>1
      <3>3. s \in Int /\ p \in Int
        BY <1>3, <1>9 DEF S
      <3> QED BY <1>7, <1>10, <2>1, <3>1, <3>2, <3>3
    <2>3. ~ (k + 1 < i)
      <3>1. k + 1 < i => q < s
        BY <1>2, <1>7, <2>1
      <3>2. s \in Int /\ q \in Int
        BY <1>3, <1>9 DEF S
      <3> QED BY <1>10, <3>1, <3>2
    <2>4. i = k + 1
      BY <2>1, <2>2, <2>3
    <2> QED BY <2>1, <2>4
  <1> HIDE DEF p, q
  <1>11. /\ p \in S /\ q \in S /\ x < n /\ y < n /\ x \in Nat /\ y \in Nat
    BY <1>3, <1>9
  <1> DEFINE j == RowOf(p, B)
             a == PlaceOf(p, B)
  <1>12. /\ j \in 1 .. nb /\ a \in 0 .. (B - 1)
         /\ x = border[j] * B + a /\ x \div B = border[j] /\ x % B = a
    BY <1>3, <1>5, <1>11
  <1>13. border[j] \in Nat /\ border[j] * B \in Nat
    <2>1. border[j] \in Nat
      BY <1>1, <1>4, <1>12
    <2> QED BY <2>1
  <1> HIDE DEF x, y, j, a
  (* The next tile of the block, where there is one, comes next.            *)
  <1>14. CASE a < B - 1 /\ x + 1 < n
    <2> DEFINE s == p + 1
    <2>1. s \in S /\ RowOf(s, B) = j /\ PlaceOf(s, B) = a + 1
      <3>1. p = (j - 1) * B + a + 1
        BY <1>5, <1>11 DEF j, a
      <3>2. \A c \in 0 .. (B - 1) :
              /\ (j - 1) * B + c + 1 \in S
              /\ RowOf((j - 1) * B + c + 1, B) = j
              /\ PlaceOf((j - 1) * B + c + 1, B) = c
        BY <1>1, <1>12, RowsAndPlaces DEF S
      <3>3. a + 1 \in 0 .. (B - 1)
        BY <1>12, <1>14
      <3> DEFINE c == a + 1
      <3>4. s = (j - 1) * B + c + 1
        <4> DEFINE u == (j - 1) * B
        <4>1. u \in Int
          BY <1>12
        <4> HIDE DEF u
        <4>2. p = u + a + 1
          BY <3>1 DEF u
        <4>3. s = u + c + 1
          BY <1>12, <4>1, <4>2
        <4> QED BY <4>3 DEF u
      <3>5. c \in 0 .. (B - 1)
        BY <3>3
      <3> HIDE DEF c, s
      <3>6. s \in S /\ RowOf(s, B) = j /\ PlaceOf(s, B) = c
        BY <3>2, <3>4, <3>5, Zenon
      <3> QED BY <3>6 DEF c, s
    <2>2. rows[s] = x + 1
      <3> HIDE DEF s
      <3>1. rows[s] = border[j] * B + (a + 1)
        BY <1>3, <2>1
      <3> DEFINE w == border[j] * B
      <3>2. w \in Nat /\ x = w + a /\ rows[s] = w + (a + 1) /\ a \in Int
        BY <1>12, <1>13, <3>1
      <3> HIDE DEF w
      <3> QED BY <3>2
    <2>3. s \in K /\ p < s /\ s <= q
      <3>1. p \in Int /\ q \in Int
        BY <1>11 DEF S
      <3>2. s \in K
        BY <1>3, <1>14, <2>1, <2>2
      <3> QED BY <1>9, <3>1, <3>2
    <2>4. s = q
      BY <1>10, <2>3
    <2>5. y = x + 1
      BY <2>2, <2>4 DEF y
    <2>6. y % B = a + 1
      <3>1. rows[s] % B = PlaceOf(s, B)
        BY <1>3, <2>1
      <3> QED BY <2>1, <2>4, <3>1 DEF y
    <2>7. a + 1 # 0
      BY <1>12
    <2> QED BY <1>8, <2>5, <2>6, <2>7 DEF SideBySide
  (* At the end of a block, or of the tiles, the next block starts.         *)
  <1>15. CASE a = B - 1 \/ x + 1 >= n
    <2>1. ~ (RowOf(q, B) = j /\ a < PlaceOf(q, B))
      <3> SUFFICES ASSUME RowOf(q, B) = j, a < PlaceOf(q, B) PROVE FALSE
        OBVIOUS
      <3> DEFINE b == PlaceOf(q, B)
      <3>1. b \in 0 .. (B - 1) /\ y = border[j] * B + b
        BY <1>3, <1>5, <1>11 DEF y
      <3> HIDE DEF b
      <3>2. a < b
        BY DEF b
      <3>3. CASE a = B - 1
        BY <1>12, <3>1, <3>2, <3>3
      <3>4. CASE x + 1 >= n
        <4> DEFINE w == border[j] * B
        <4>1. w \in Nat /\ x = w + a /\ y = w + b
          BY <1>12, <1>13, <3>1
        <4> HIDE DEF w
        <4> QED BY <1>11, <1>12, <3>1, <3>2, <3>4, <4>1
      <3> QED BY <1>15, <3>3, <3>4
    <2>2. PICK s \in S : /\ j + 1 \in 1 .. nb
                         /\ RowOf(s, B) = j + 1 /\ PlaceOf(s, B) = 0
                         /\ p < s /\ s <= q
      BY <1>1, <1>9, <1>11, <2>1, NextRow DEF S, j, a
    <2>3. s \in K
      <3> DEFINE b == border[j + 1]
      <3>1. b \in 0 .. (nb - 1)
        BY <1>4, <2>2
      <3>2. rows[s] = b * B + 0
        BY <1>3, <2>2
      <3> HIDE DEF b
      <3>3. b * B <= (nb - 1) * B /\ b * B \in Nat /\ (nb - 1) * B \in Int
        BY <1>1, <3>1
      <3>4. rows[s] < n
        <4> DEFINE u == b * B
                   v == (nb - 1) * B
        <4>1. u <= v /\ u \in Nat /\ v \in Int /\ v < n /\ rows[s] = u + 0
          BY <1>1, <3>2, <3>3
        <4> HIDE DEF u, v
        <4> QED BY <4>1
      <3> QED BY <1>3, <3>4
    <2>4. s = q
      BY <1>10, <2>2, <2>3
    <2>5. y % B = 0 /\ y \div B = border[j + 1]
      BY <1>3, <2>2, <2>4 DEF y
    <2>6. Weight(B, x) >= Weight(B, y)
      <3>1. j < j + 1
        BY <1>12
      <3> QED BY <1>1, <1>11, <1>12, <2>2, <2>5, <3>1
    <2>7. x % B = B - 1 \/ x = n - 1
      <3>1. CASE a = B - 1
        BY <1>12, <3>1
      <3>2. CASE x + 1 >= n
        BY <1>11, <3>2
      <3> QED BY <1>15, <3>1, <3>2
    <2> QED BY <1>8, <2>5, <2>6, <2>7 DEF SideBySide
  <1>16. (a < B - 1 /\ x + 1 < n) \/ a = B - 1 \/ x + 1 >= n
    BY <1>11, <1>12
  <1> QED BY <1>14, <1>15, <1>16

(* Tiles as blocks of one: no block is lighter than the next. *)
LEMMA SinglesSideBySide ==
  ASSUME NEW n \in Nat, cost \in [0 .. (n - 1) -> Nat],
         NEW o, Arranges(o, n),
         \A i, j \in 1 .. n : i < j => cost[o[i]] >= cost[o[j]]
  PROVE  \A k \in 1 .. (n - 1) : SideBySide(o[k], o[k + 1], n, 1)
  <1>1. DOMAIN cost = 0 .. (n - 1) /\ IsFiniteSet(0 .. (n - 1))
        /\ cost \in [0 .. (n - 1) -> Int]
    BY FS_Interval
  <1>2. \A t \in Nat : t % 1 = 0 /\ t \div 1 = t
    OBVIOUS
  <1>3. ASSUME NEW t \in 0 .. (n - 1)
        PROVE  Weight(1, t) = cost[t]
    <2>1. {u \in TilesOf(cost) : u \div 1 = t \div 1} = {t}
      BY <1>1, <1>2 DEF TilesOf
    <2>2. SumFunctionOnSet(cost, {t}) = cost[t]
      BY <1>1, SumOfOne
    <2>3. Weight(1, t) = SumFunctionOnSet(cost, {t})
      BY <2>1, Zenon DEF Weight
    <2> QED BY <2>2, <2>3
  <1>4. ASSUME NEW k \in 1 .. (n - 1)
        PROVE  SideBySide(o[k], o[k + 1], n, 1)
    <2>1. k \in 1 .. n /\ k + 1 \in 1 .. n /\ k < k + 1
      OBVIOUS
    <2>2. o[k] \in 0 .. (n - 1) /\ o[k + 1] \in 0 .. (n - 1)
      BY <2>1 DEF Arranges
    <2>3. cost[o[k]] >= cost[o[k + 1]]
      BY <2>1
    <2>4. Weight(1, o[k]) >= Weight(1, o[k + 1])
      BY <1>3, <2>2, <2>3
    <2>5. o[k] % 1 = 1 - 1 /\ o[k + 1] % 1 = 0
      BY <1>2, <2>2
    <2> QED BY <2>4, <2>5 DEF SideBySide
  <1> QED BY <1>4

(* What region_order decides for a batch. *)
RegionDecided(n) ==
  /\ cost \in [0 .. (n - 1) -> Nat]
  /\ Arranges(pi', n)
  /\ R > 0 /\ n > R => RegionOK(pi', n)
  /\ (R = 0 \/ n <= R) /\ 0 < block /\ block < n =>
       \A k \in 1 .. (n - 1) : SideBySide(pi'[k], pi'[k + 1], n, block)

(* region_order writes an order of the batch: shaped for the region if a suffix
   is left outside it, and otherwise for the blocks. *)
LEMMA RegionDecides ==
  ASSUME BatchInv, RegionStep
  PROVE  \E n \in Nat : RegionDecided(n)
  <1>1. PICK n \in Nat : cost \in [0 .. (n - 1) -> Costs]
    BY DEF BatchInv
  <1>2. cost \in [0 .. (n - 1) -> Nat]
    BY <1>1, OrderAssumption DEF OrderAssumption
  <1>3. R \in Nat /\ block \in Int
    BY DEF BatchInv
  <1>4. Size(cost) = n /\ DOMAIN cost = 0 .. (n - 1)
    BY <1>2, BatchOf
  <1>5. PICK o \in RegionOrders : o = pi'
    BY DEF RegionStep
  <1>6. CASE ~ (R = 0 \/ n <= R)
    <2>1. R > 0 /\ n > R
      BY <1>3, <1>6
    <2>2. RegionOK(o, n)
      BY <1>2, <1>3, <2>1, RegionOrdersOK
    <2>3. Arranges(o, n)
      BY <2>2 DEF RegionOK
    <2> QED BY <1>2, <1>5, <1>6, <2>2, <2>3 DEF RegionDecided
  <1>7. CASE R = 0 \/ n <= R
    <2>0. ~ (R > 0 /\ n > R)
      BY <1>3, <1>7
    <2>1. o \in GroupedLPT(cost, block)
      BY <1>4, <1>5, <1>7 DEF RegionOrders
    <2>2. CASE block <= 1 \/ n <= block
      <3>1. o \in Heaviest(cost)
        BY <1>4, <2>1, <2>2 DEF GroupedLPT
      <3>2. o \in SetToSeqs(TilesOf(cost))
        BY <3>1 DEF Heaviest, TilesOf
      <3>3. Arranges(o, n)
        BY <1>4, <3>2, BatchOf
      <3>4. \A i, j \in 1 .. n : i < j => cost[o[i]] >= cost[o[j]]
        BY <3>1, <3>3 DEF Heaviest, Arranges
      <3>5. \A k \in 1 .. (n - 1) : SideBySide(o[k], o[k + 1], n, 1)
        BY <1>2, <3>3, <3>4, SinglesSideBySide
      <3>6. 0 < block /\ block < n => block = 1
        BY <1>3, <2>2
      <3> QED BY <1>2, <1>5, <2>0, <3>3, <3>5, <3>6 DEF RegionDecided
    <2>3. CASE ~ (block <= 1 \/ n <= block)
      <3>1. PICK border \in Heaviest(BlockCosts(cost, block)) :
              o = Unpadded(BlockRows(border, block), n)
        BY <1>4, <2>1, <2>3 DEF GroupedLPT
      <3>2. n \in Nat \ {0} /\ block \in Nat \ {0}
        BY <1>3, <2>3
      <3>3. /\ Arranges(o, n)
            /\ \A k \in 1 .. (n - 1) : SideBySide(o[k], o[k + 1], n, block)
        BY <1>4, <3>1, <3>2, BlocksAdjacent
      <3> QED BY <1>2, <1>5, <2>0, <3>3 DEF RegionDecided
    <2> QED BY <2>2, <2>3
  <1> QED BY <1>6, <1>7

-----------------------------------------------------------------------------
(* What is written is an order of its batch. *)

(* Before the first batch nothing is written. *)
LEMMA WrittenInit == Init => WrittenIsOrder
  <1> SUFFICES ASSUME Init PROVE pi \in SetToSeqs(TilesOf(cost))
    BY DEF WrittenIsOrder
  <1>1. cost = <<>> /\ pi = <<>> /\ 0 .. (0 - 1) = {} /\ 1 .. 0 = {}
    BY DEF Init
  <1>2. PICK n \in Nat : n = 0
    OBVIOUS
  <1>3. DOMAIN cost = 0 .. (n - 1) /\ Arranges(pi, n)
    BY <1>1, <1>2 DEF Arranges
  <1> QED BY <1>3, BatchOf

(* Every step writes an order of its batch. *)
LEMMA WrittenNext ==
  ControlInv /\ WrittenIsOrder /\ [Next]_vars => WrittenIsOrder'
  <1> SUFFICES ASSUME ControlInv, WrittenIsOrder, [Next]_vars
               PROVE  WrittenIsOrder'
    OBVIOUS
  <1>1. CASE Predict
    BY <1>1 DEF Predict, WrittenIsOrder, Ordered
  <1>2. CASE OrderStep
    <2>1. PICK n \in Nat : DOMAIN cost = 0 .. (n - 1) /\ Arranges(pi', n)
      <3>1. PICK n \in Nat : Decided(n)
        BY <1>2, OrderDecides
      <3> QED BY <3>1 DEF Decided
    <2>2. pi' \in SetToSeqs(TilesOf(cost))
      BY <2>1, BatchOf
    <2>3. cost' = cost
      BY <1>2 DEF OrderStep, batch
    <2> QED BY <2>2, <2>3 DEF WrittenIsOrder, TilesOf
  <1>3. CASE RegionStep
    <2>1. PICK n \in Nat : DOMAIN cost = 0 .. (n - 1) /\ Arranges(pi', n)
      <3>1. PICK n \in Nat : RegionDecided(n)
        BY <1>3, RegionDecides DEF ControlInv
      <3> QED BY <3>1 DEF RegionDecided
    <2>2. pi' \in SetToSeqs(TilesOf(cost))
      BY <2>1, BatchOf
    <2>3. cost' = cost
      BY <1>3 DEF RegionStep, batch
    <2> QED BY <2>2, <2>3 DEF WrittenIsOrder, TilesOf
  <1>4. CASE UNCHANGED vars
    BY <1>4 DEF vars, batch, WrittenIsOrder, Ordered, TilesOf
  <1> QED BY <1>1, <1>2, <1>3, <1>4 DEF Next

(* E1, for every policy, region and block, batches of any size and whatever *)
(* is predicted: what is written orders exactly the tiles of its batch.     *)
(* Under damping the stored order may be of a batch of another size; it is  *)
(* then never written.  (order, region_order, _grouped_lpt)                 *)
THEOREM EveryOrderIsOne == Spec => []WrittenIsOrder
  BY WrittenInit, WrittenNext, ControlAlways, PTL DEF Spec

-----------------------------------------------------------------------------
(* The shapes of region and block orders. *)

(* Before the first batch no region is filled. *)
LEMMA ExtremesInit == Init => RegionTakesExtremes
  BY DEF Init, RegionTakesExtremes

(* Every step preserves RegionTakesExtremes. *)
LEMMA ExtremesNext ==
  ControlInv /\ RegionTakesExtremes /\ [Next]_vars => RegionTakesExtremes'
  <1> SUFFICES ASSUME ControlInv, RegionTakesExtremes, [Next]_vars
               PROVE  RegionTakesExtremes'
    OBVIOUS
  <1>1. CASE Predict
    BY <1>1 DEF Predict, RegionTakesExtremes, Ordered
  <1>2. CASE OrderStep
    BY <1>2 DEF OrderStep, RegionTakesExtremes
  <1>3. CASE RegionStep
    <2>1. PICK n \in Nat : RegionDecided(n)
      BY <1>3, RegionDecides DEF ControlInv
    <2>2. cost' = cost /\ R' = R
      BY <1>3 DEF RegionStep, batch
    <2>3. Size(cost) = n /\ Len(pi') = n
      <3>1. DOMAIN cost = 0 .. (n - 1) /\ Arranges(pi', n)
        BY <2>1 DEF RegionDecided
      <3> QED BY <3>1, BatchOf DEF Arranges
    <2>4. R > 0 /\ n > R =>
            \A k \in (R + 1) .. n :
              /\ \A p \in 1 .. R : IF p % 2 = 1 THEN cost[pi'[p]] >= cost[pi'[k]]
                                                ELSE cost[pi'[p]] <= cost[pi'[k]]
              /\ \A p \in (R + 1) .. k : cost[pi'[p]] >= cost[pi'[k]]
      BY <2>1 DEF RegionDecided, RegionOK
    <2> QED BY <2>2, <2>3, <2>4, Zenon DEF RegionTakesExtremes, Size
  <1>4. CASE UNCHANGED vars
    BY <1>4 DEF vars, batch, RegionTakesExtremes, Ordered, Size
  <1> QED BY <1>1, <1>2, <1>3, <1>4 DEF Next

(* An order for a region of any size, for any costs: the slots of the       *)
(* prefix take the heaviest and the lightest tiles in turn, and the rest    *)
(* follows heaviest first.  (region_order)                                  *)
THEOREM ExtremesFirst == Spec => []RegionTakesExtremes
  BY ExtremesInit, ExtremesNext, ControlAlways, PTL DEF Spec

(* Before the first batch no block is placed. *)
LEMMA TogetherInit == Init => BlocksStayTogether
  <1> SUFFICES ASSUME Init, 0 < block, block < Size(cost) PROVE FALSE
    BY DEF BlocksStayTogether
  <1>1. block = 1 /\ DOMAIN cost = {}
    BY DEF Init
  <1>2. Size(cost) = 0
    BY <1>1, FS_EmptySet DEF Size
  <1> QED BY <1>1, <1>2

(* Every step preserves BlocksStayTogether. *)
LEMMA TogetherNext ==
  ControlInv /\ BlocksStayTogether /\ [Next]_vars => BlocksStayTogether'
  <1> SUFFICES ASSUME ControlInv, BlocksStayTogether, [Next]_vars
               PROVE  BlocksStayTogether'
    OBVIOUS
  <1>1. CASE Predict
    BY <1>1 DEF Predict, BlocksStayTogether, Ordered
  <1>2. CASE OrderStep
    BY <1>2 DEF OrderStep, BlocksStayTogether
  <1>3. CASE RegionStep
    <2>1. PICK n \in Nat : RegionDecided(n)
      BY <1>3, RegionDecides DEF ControlInv
    <2>2. cost' = cost /\ R' = R /\ block' = block
      BY <1>3 DEF RegionStep, batch
    <2>3. Size(cost) = n /\ Len(pi') = n
      <3>1. DOMAIN cost = 0 .. (n - 1) /\ Arranges(pi', n)
        BY <2>1 DEF RegionDecided
      <3> QED BY <3>1, BatchOf DEF Arranges
    <2>4. (R = 0 \/ n <= R) /\ 0 < block /\ block < n =>
            \A k \in 1 .. (n - 1) : SideBySide(pi'[k], pi'[k + 1], n, block)
      BY <2>1 DEF RegionDecided
    <2> QED BY <2>2, <2>3, <2>4, Zenon
            DEF BlocksStayTogether, SideBySide, Weight, Size, TilesOf
  <1>4. CASE UNCHANGED vars
    BY <1>4 DEF vars, batch, BlocksStayTogether, Ordered, Size, TilesOf
  <1> QED BY <1>1, <1>2, <1>3, <1>4 DEF Next

(* An order for the static path, for blocks of any size and any costs: a    *)
(* tile is followed by its neighbour in the block, or by the first tile of  *)
(* a block that is no heavier as a whole.  (_grouped_lpt)                   *)
THEOREM NeighboursTogether == Spec => []BlocksStayTogether
  BY TogetherInit, TogetherNext, ControlAlways, PTL DEF Spec
=============================================================================
