---------------------------- MODULE MoeCap_proofs ----------------------------
(***************************************************************************)
(* What the expert cap drops and what it reports, for every number of      *)
(* experts, tokens and slots per token, every setting of its environment   *)
(* and every stack of wrappers.                                            *)
(***************************************************************************)
EXTENDS MoeCap, FiniteSetTheorems, TLAPS

USE MoeAssumption DEF MoeAssumption

(* The slots of a batch are numbered from 1 without gaps.                   *)
LEMMA SlotsFinite ==
  /\ IsFiniteSet(Slots) /\ Slots \subseteq Nat \ {0}
  /\ Cardinality(Slots) \in Nat /\ Slots = 1 .. Cardinality(Slots)
  <1>1. Tokens * TopK \in Nat
    OBVIOUS
  <1> DEFINE n == Tokens * TopK
  <1>2. n \in Nat /\ Slots = 1 .. n
    BY <1>1 DEF Slots
  <1> HIDE DEF n
  <1>3. IsFiniteSet(1 .. n) /\ Cardinality(1 .. n) = n
    BY <1>2, FS_Interval
  <1> QED BY <1>2, <1>3

(* Any set of slots is finite, and has a size.                              *)
LEMMA SlotSetFinite ==
  ASSUME NEW S \in SUBSET Slots
  PROVE  IsFiniteSet(S) /\ Cardinality(S) \in Nat
  BY SlotsFinite, FS_Subset, FS_CardinalityType

(* Two sets of slots with nothing in common add up.                         *)
LEMMA SlotSetsAdd ==
  ASSUME NEW S \in SUBSET Slots, NEW T \in SUBSET Slots, S \cap T = {}
  PROVE  Cardinality(S \cup T) = Cardinality(S) + Cardinality(T)
  <1>1. /\ IsFiniteSet(S) /\ IsFiniteSet(T)
        /\ Cardinality(S) \in Nat /\ Cardinality(T) \in Nat
    BY SlotSetFinite
  <1>2. Cardinality(S \cup T)
          = Cardinality(S) + Cardinality(T) - Cardinality(S \cap T)
    BY <1>1, FS_Union
  <1>3. Cardinality(S \cap T) = 0
    BY FS_EmptySet
  <1> QED BY <1>1, <1>2, <1>3

-----------------------------------------------------------------------------
(* The sort-and-rank of moe_expert_cap. *)

(* The slots the stable sort puts before slot i.                            *)
Before(e, i) == {j \in Slots : e[j] < e[i] \/ (e[j] = e[i] /\ j < i)}

(* The sort is total: of two slots one is put before the other, and then    *)
(* has fewer slots before it.                                               *)
LEMMA BeforeStrict ==
  ASSUME NEW e \in [Slots -> Experts], NEW i \in Slots, NEW k \in Slots, i # k
  PROVE  /\ Cardinality(Before(e, i)) \in Nat /\ Cardinality(Before(e, k)) \in Nat
         /\ Cardinality(Before(e, i)) # Cardinality(Before(e, k))
  <1>1. \A j \in Slots : e[j] \in Int /\ j \in Int
    BY SlotsFinite DEF Experts
  <1>2. ASSUME NEW x \in Slots, NEW y \in Slots, x \in Before(e, y)
        PROVE  Cardinality(Before(e, x)) < Cardinality(Before(e, y))
    <2>1. Before(e, x) \subseteq Before(e, y) /\ x \notin Before(e, x)
      BY <1>1, <1>2 DEF Before
    <2>2. Before(e, x) # Before(e, y)
      BY <1>2, <2>1
    <2>3. /\ IsFiniteSet(Before(e, y)) /\ Cardinality(Before(e, y)) \in Nat
          /\ Cardinality(Before(e, x)) \in Nat
      BY SlotSetFinite DEF Before
    <2> QED BY <2>1, <2>2, <2>3, FS_Subset
  <1>3. i \in Before(e, k) \/ k \in Before(e, i)
    BY <1>1 DEF Before
  <1>4. Cardinality(Before(e, i)) \in Nat /\ Cardinality(Before(e, k)) \in Nat
    BY SlotSetFinite DEF Before
  <1> QED BY <1>2, <1>3, <1>4

(* Every position of the sorted batch holds the slot with so many before    *)
(* it, and every slot has a position.                                       *)
LEMMA OrderSorts ==
  ASSUME NEW e \in [Slots -> Experts]
  PROVE  /\ \A p \in Slots : /\ Order(e)[p] \in Slots
                             /\ Cardinality(Before(e, Order(e)[p])) = p - 1
         /\ \A i \in Slots : \E p \in Slots : Order(e)[p] = i
  <1> DEFINE place == [i \in Slots |-> Cardinality(Before(e, i)) + 1]
  <1>1. \A i \in Slots : place[i] \in Slots
    <2> TAKE i \in Slots
    <2>1. Before(e, i) \subseteq Slots \ {i}
      BY SlotsFinite DEF Before, Experts
    <2>2. /\ IsFiniteSet(Slots \ {i})
          /\ Cardinality(Slots \ {i}) = Cardinality(Slots) - 1
      BY SlotsFinite, FS_RemoveElement
    <2>3. Cardinality(Before(e, i)) <= Cardinality(Slots) - 1
      BY <2>1, <2>2, FS_Subset
    <2>4. Cardinality(Before(e, i)) \in Nat
      BY <2>1, SlotSetFinite
    <2> QED BY <2>3, <2>4, SlotsFinite
  <1>2. \A i, k \in Slots : place[i] = place[k] => i = k
    BY BeforeStrict
  <1>3. place \in Injection(Slots, Slots)
    BY <1>1, <1>2 DEF Injection, IsInjective
  <1>4. place \in Surjection(Slots, Slots)
    BY <1>3, SlotsFinite, FS_Injection
  <1>5. \A p \in Slots : \E i \in Slots : place[i] = p
    BY <1>4 DEF Surjection
  <1>6. \A p \in Slots : \E i \in Slots : Cardinality(Before(e, i)) = p - 1
    <2> TAKE p \in Slots
    <2> PICK i \in Slots : place[i] = p
      BY <1>5
    <2>1. Cardinality(Before(e, i)) \in Nat
      BY SlotSetFinite DEF Before
    <2>2. Cardinality(Before(e, i)) + 1 = p
      OBVIOUS
    <2> QED BY <2>1, <2>2
  <1>7. Order(e) = [p \in Slots |->
                      CHOOSE i \in Slots : Cardinality(Before(e, i)) = p - 1]
    BY DEF Order, Before
  <1>8. \A p \in Slots : /\ Order(e)[p] \in Slots
                         /\ Cardinality(Before(e, Order(e)[p])) = p - 1
    BY <1>6, <1>7
  <1>9. \A i \in Slots : \E p \in Slots : Order(e)[p] = i
    <2> TAKE i \in Slots
    <2>1. place[i] \in Slots /\ place[i] - 1 = Cardinality(Before(e, i))
      BY <1>1, SlotSetFinite DEF Before
    <2>2. /\ Order(e)[place[i]] \in Slots
          /\ Cardinality(Before(e, Order(e)[place[i]])) = Cardinality(Before(e, i))
      BY <1>8, <2>1
    <2>3. Order(e)[place[i]] = i
      BY <2>2, BeforeStrict
    <2> QED BY <2>1, <2>3
  <1> QED BY <1>8, <1>9

(* A slot's place within its expert's group counts the earlier slots that   *)
(* chose the same expert.                                                   *)
LEMMA PlaceIsRank ==
  ASSUME NEW e \in [Slots -> Experts], NEW i \in Slots
  PROVE  Cardinality(Before(e, i)) - GroupStart(e)[e[i]] = Rank(e, i)
  <1> DEFINE smaller == {j \in Slots : e[j] < e[i]}
             same == {j \in Slots : j < i /\ e[j] = e[i]}
  <1>1. GroupStart(e)[e[i]] = Cardinality(smaller)
    BY DEF GroupStart, Quantify
  <1>2. Before(e, i) = smaller \cup same
    BY DEF Before
  <1>3. smaller \cap same = {}
    BY DEF Experts
  <1>4. Cardinality(smaller) \in Nat /\ Cardinality(same) \in Nat
    BY SlotSetFinite
  <1>5. Rank(e, i) = Cardinality(same)
    BY DEF Rank
  <1>6. Cardinality(smaller \cup same) = Cardinality(smaller) + Cardinality(same)
    <2>1. smaller \in SUBSET Slots /\ same \in SUBSET Slots
      OBVIOUS
    <2> HIDE DEF smaller, same
    <2> QED BY <1>3, <2>1, SlotSetsAdd
  <1> HIDE DEF smaller, same
  <1> QED BY <1>1, <1>2, <1>4, <1>5, <1>6

(* moe_expert_cap drops exactly the slots that are not among the first      *)
(* `cap` arrivals of their expert, for every routing and capacity.          *)
THEOREM OverflowIsLate ==
  ASSUME NEW e \in [Slots -> Experts], NEW cap
  PROVE  Overflow(e, cap) = {i \in Slots : Rank(e, i) >= cap}
  <1> DEFINE within == [p \in Slots |-> (p - 1) - GroupStart(e)[e[Order(e)[p]]]]
  <1>1. \A p \in Slots : within[p] = Rank(e, Order(e)[p])
    BY OrderSorts, PlaceIsRank
  <1>2. Overflow(e, cap) = {Order(e)[p] : p \in {q \in Slots : within[q] >= cap}}
    BY DEF Overflow
  <1> HIDE DEF within
  <1> QED BY <1>1, <1>2, OrderSorts

-----------------------------------------------------------------------------
(* The stack of wrappers. *)

CallRecord ==
  [ids : Routings, given : [Slots -> {0, 1}], weights : [Slots -> {0, 1}],
   standard : BOOLEAN, capturing : BOOLEAN]

StatsRecord == [calls : Nat, routed : Nat, capped_calls : Nat, dropped : Nat]

(* The wrappers, the forward in progress and the counters are well typed,   *)
(* and a forward is inside one of the wrappers it entered.                  *)
MoeType ==
  /\ chain \in Seq(Envs)
  /\ level \in Nat /\ lost \in Nat
  /\ stats \in StatsRecord
  /\ call # Idle => call \in CallRecord /\ level <= Len(chain)

(* Does wrapper l cap the forward in progress? *)
Caps(l) ==
  /\ call.standard /\ ~Skips(chain[l])
  /\ ~(chain[l].observe /\ call.capturing)

AllObserve == \A l \in 1 .. Len(chain) : chain[l].observe

(* The slots of the forward in progress that lost a weight so far. *)
LostSlots == {i \in Slots : call.weights[i] # call.given[i]}

(* What keeps the report exact: during a forward the counter is ahead of    *)
(* the finished forwards by the slots that lost a weight, and a weight once *)
(* lost is zero.                                                            *)
ReportInv ==
  /\ call = Idle /\ AllObserve => stats.dropped = lost
  /\ call # Idle =>
       /\ AllObserve => stats.dropped = lost + Cardinality(LostSlots)
       /\ \A i \in Slots : call.weights[i] \in {0, call.given[i]}
  /\ stats.dropped <= stats.routed /\ stats.capped_calls <= stats.dropped
  /\ stats.dropped > 0 => stats.capped_calls > 0

MoeInv == MoeType /\ CapKeepsEarliest /\ ReportInv

(* A forward in progress is never mistaken for none. *)
LEMMA RecordNotIdle == \A c \in CallRecord : c # Idle
  <1> TAKE c \in CallRecord
  <1>1. "ids" \in DOMAIN c
    BY DEF CallRecord
  <1>2. DOMAIN Idle = {}
    BY DEF Idle
  <1> QED BY <1>1, <1>2

(* A stock weight is zero or not. *)
LEMMA GivenWeights == Weights \subseteq [Slots -> {0, 1}]
  BY DEF Weights

(* A wrapper that caps the batch zeroes the late arrivals of each expert;   *)
(* any other leaves the routing as it found it.                             *)
LEMMA WrapperCaps ==
  ASSUME MoeType, Wrapper
  PROVE  /\ level \in 1 .. Len(chain) /\ level' = level - 1
         /\ call \in CallRecord /\ call' \in CallRecord
         /\ call'.ids = call.ids /\ call'.given = call.given
         /\ call'.standard = call.standard /\ call'.capturing = call.capturing
         /\ \A i \in Slots :
              call'.weights[i] =
                IF Caps(level) /\ Rank(call.ids, i) >= Capacity(chain[level])
                THEN 0 ELSE call.weights[i]
  <1> DEFINE env == chain[level]
             new == moe_expert_cap(call.ids, call.weights, env)
             out == IF ~call.standard \/ (env.observe /\ call.capturing)
                    THEN call.weights ELSE new
  <1>1. /\ level \in 1 .. Len(chain) /\ level' = level - 1
        /\ call \in CallRecord /\ call' = [call EXCEPT !.weights = out]
    BY DEF Wrapper, MoeType
  <1>2. call.ids \in [Slots -> Experts] /\ call.weights \in [Slots -> {0, 1}]
    BY <1>1 DEF CallRecord, Routings
  <1>3. \A i \in Slots :
          new[i] = IF ~Skips(env) /\ Rank(call.ids, i) >= Capacity(env)
                   THEN 0 ELSE call.weights[i]
    <2>1. Overflow(call.ids, Capacity(env))
            = {i \in Slots : Rank(call.ids, i) >= Capacity(env)}
      BY <1>2, OverflowIsLate
    <2> QED BY <2>1 DEF moe_expert_cap
  <1>4. new \in [Slots -> {0, 1}]
    BY <1>2 DEF moe_expert_cap
  <1> HIDE DEF new
  <1>5. out \in [Slots -> {0, 1}]
    BY <1>2, <1>4
  <1>6. \A i \in Slots :
          out[i] = IF Caps(level) /\ Rank(call.ids, i) >= Capacity(env)
                   THEN 0 ELSE call.weights[i]
    BY <1>3 DEF Caps
  <1> HIDE DEF out
  <1>7. /\ call' \in CallRecord /\ call'.weights = out
        /\ call'.ids = call.ids /\ call'.given = call.given
        /\ call'.standard = call.standard /\ call'.capturing = call.capturing
    BY <1>1, <1>5 DEF CallRecord
  <1> QED BY <1>1, <1>6, <1>7

(* What an observation adds to the counters.                                *)
LEMMA Observed ==
  ASSUME stats \in StatsRecord, call \in CallRecord, NEW d \in Nat, Observe(d)
  PROVE  /\ stats' \in StatsRecord
         /\ call.capturing =>
              /\ stats'.dropped = stats.dropped /\ stats'.routed = stats.routed
              /\ stats'.capped_calls = stats.capped_calls
         /\ ~call.capturing =>
              /\ stats'.dropped = stats.dropped + d
              /\ stats'.routed = stats.routed + Cardinality(Slots)
              /\ stats'.capped_calls =
                   IF d = 0 THEN stats.capped_calls ELSE stats.capped_calls + 1
  <1>1. Cardinality(Slots) \in Nat
    BY SlotsFinite
  <1>2. /\ stats'.calls = stats.calls + 1
        /\ stats'.routed = IF call.capturing THEN stats.routed
                           ELSE stats.routed + Cardinality(Slots)
        /\ stats'.capped_calls = IF call.capturing \/ d = 0
                           THEN stats.capped_calls ELSE stats.capped_calls + 1
        /\ stats'.dropped = IF call.capturing THEN stats.dropped
                            ELSE stats.dropped + d
        /\ stats' = [calls |-> stats'.calls, routed |-> stats'.routed,
                     capped_calls |-> stats'.capped_calls,
                     dropped |-> stats'.dropped]
    BY DEF Observe, StatsRecord
  <1>3. CASE call.capturing
    <2>1. /\ stats'.dropped = stats.dropped /\ stats'.routed = stats.routed
          /\ stats'.capped_calls = stats.capped_calls
      BY <1>2, <1>3
    <2> QED BY <1>2, <1>3, <2>1 DEF StatsRecord
  <1>4. CASE ~call.capturing
    <2>1. /\ stats'.dropped = stats.dropped + d
          /\ stats'.routed = stats.routed + Cardinality(Slots)
          /\ stats'.capped_calls =
               IF d = 0 THEN stats.capped_calls ELSE stats.capped_calls + 1
      BY <1>2, <1>4
    <2> QED BY <1>1, <1>2, <1>4, <2>1 DEF StatsRecord
  <1> QED BY <1>3, <1>4

(* ... and if it observes, it counts the slots whose weight it took.        *)
LEMMA WrapperCounts ==
  ASSUME MoeType, Wrapper, NEW took,
         took = {i \in Slots : call'.weights[i] # call.weights[i]}
  PROVE  /\ stats' \in StatsRecord
         /\ chain[level].observe =>
              stats'.dropped = stats.dropped + Cardinality(took)
         /\ \/ UNCHANGED <<stats>>
            \/ /\ stats'.dropped = stats.dropped
               /\ stats'.routed = stats.routed
               /\ stats'.capped_calls = stats.capped_calls
            \/ /\ stats'.dropped = stats.dropped + Cardinality(took)
               /\ stats'.routed = stats.routed + Cardinality(Slots)
               /\ stats'.capped_calls =
                    IF Cardinality(took) = 0 THEN stats.capped_calls
                                             ELSE stats.capped_calls + 1
  <1> DEFINE env == chain[level]
             new == moe_expert_cap(call.ids, call.weights, env)
             d == Dropped(new, call.weights)
             out == IF ~call.standard \/ (env.observe /\ call.capturing)
                    THEN call.weights ELSE new
  <1>1. /\ call \in CallRecord /\ call'.weights = out
    BY DEF Wrapper, MoeType, CallRecord
  <1>2. d = Cardinality({i \in Slots : new[i] # call.weights[i]})
    BY DEF Dropped, Quantify
  <1>3. IF call.standard /\ env.observe THEN Observe(d) ELSE UNCHANGED stats
    BY DEF Wrapper
  <1>4. took \subseteq Slots /\ Cardinality(took) \in Nat
    BY SlotSetFinite
  <1>5. Cardinality(Slots) \in Nat /\ stats \in StatsRecord
    BY SlotsFinite DEF MoeType
  <1>6. d \in Nat
    BY <1>2, SlotSetFinite
  <1> HIDE DEF new, d
  <1>7. CASE ~call.standard \/ (env.observe /\ call.capturing)
    <2>1. took = {} /\ Cardinality(took) = 0
      BY <1>1, <1>7, FS_EmptySet
    <2>2. CASE call.standard /\ env.observe
      <3>1. /\ stats'.dropped = stats.dropped /\ stats'.routed = stats.routed
            /\ stats'.capped_calls = stats.capped_calls /\ stats' \in StatsRecord
        BY <1>1, <1>3, <1>5, <1>7, <1>6, <2>2, Observed
      <3> QED BY <1>5, <2>1, <3>1 DEF StatsRecord
    <2>3. CASE ~(call.standard /\ env.observe)
      BY <1>3, <1>5, <2>1, <2>3 DEF StatsRecord
    <2> QED BY <2>2, <2>3
  <1>8. CASE call.standard /\ ~(env.observe /\ call.capturing)
    <2>1. d = Cardinality(took)
      BY <1>1, <1>2, <1>8
    <2>2. CASE env.observe
      <3>1. Observe(d) /\ ~call.capturing
        BY <1>3, <1>8, <2>2
      <3> QED BY <1>1, <1>4, <1>5, <2>1, <3>1, Observed
    <2>3. CASE ~env.observe
      BY <1>3, <1>5, <2>3
    <2> QED BY <2>2, <2>3
  <1> QED BY <1>7, <1>8

(* One wrapper keeps what the cap promises and what it reports.             *)
LEMMA WrapperStep ==
  ASSUME MoeInv, Wrapper
  PROVE  MoeInv'
  <1>1. MoeType /\ CapKeepsEarliest /\ ReportInv
    BY DEF MoeInv
  <1>2. /\ UNCHANGED <<chain, lost>> /\ call # Idle
    BY DEF Wrapper
  <1>3. /\ level \in 1 .. Len(chain) /\ level' = level - 1
        /\ call \in CallRecord /\ call' \in CallRecord /\ call' # Idle
        /\ call'.ids = call.ids /\ call'.given = call.given
        /\ call'.standard = call.standard /\ call'.capturing = call.capturing
        /\ \A i \in Slots :
             call'.weights[i] =
               IF Caps(level) /\ Rank(call.ids, i) >= Capacity(chain[level])
               THEN 0 ELSE call.weights[i]
    BY <1>1, WrapperCaps, RecordNotIdle
  <1> PICK took : took = {i \in Slots : call'.weights[i] # call.weights[i]}
    OBVIOUS
  <1>4. /\ stats' \in StatsRecord
        /\ chain[level].observe =>
             stats'.dropped = stats.dropped + Cardinality(took)
        /\ \/ UNCHANGED <<stats>>
           \/ /\ stats'.dropped = stats.dropped
              /\ stats'.routed = stats.routed
              /\ stats'.capped_calls = stats.capped_calls
           \/ /\ stats'.dropped = stats.dropped + Cardinality(took)
              /\ stats'.routed = stats.routed + Cardinality(Slots)
              /\ stats'.capped_calls =
                   IF Cardinality(took) = 0 THEN stats.capped_calls
                                            ELSE stats.capped_calls + 1
    BY <1>1, WrapperCounts
  <1>5. MoeType'
    BY <1>1, <1>2, <1>3, <1>4 DEF MoeType
  <1>6. CapKeepsEarliest'
    <2> SUFFICES ASSUME NEW i \in Slots
                 PROVE  call'.weights[i] =
                          IF \E l \in level .. Len(chain) :
                               Caps(l) /\ Rank(call.ids, i) >= Capacity(chain[l])
                          THEN 0 ELSE call.given[i]
      BY <1>2, <1>3 DEF CapKeepsEarliest, Caps
    <2>1. call.weights[i] =
            IF \E l \in (level + 1) .. Len(chain) :
                 Caps(l) /\ Rank(call.ids, i) >= Capacity(chain[l])
            THEN 0 ELSE call.given[i]
      BY <1>1, <1>2 DEF CapKeepsEarliest, Caps
    <2>2. level .. Len(chain) = {level} \cup (level + 1) .. Len(chain)
      BY <1>1, <1>3 DEF MoeType
    <2> QED BY <1>3, <2>1, <2>2
  <1>7. \A i \in Slots : call'.weights[i] \in {0, call'.given[i]}
    BY <1>1, <1>2, <1>3 DEF ReportInv
  <1>8. took \in SUBSET Slots /\ LostSlots \in SUBSET Slots
    BY DEF LostSlots
  <1>9. Cardinality(LostSlots') = Cardinality(LostSlots) + Cardinality(took)
    <2>1. LostSlots' = LostSlots \cup took
      BY <1>1, <1>2, <1>3 DEF LostSlots, ReportInv
    <2>2. LostSlots \cap took = {}
      BY <1>1, <1>2, <1>3 DEF LostSlots, ReportInv
    <2> QED BY <1>8, <2>1, <2>2, SlotSetsAdd
  <1>10. AllObserve' => stats'.dropped = lost' + Cardinality(LostSlots')
    <2>1. AllObserve' => AllObserve /\ chain[level].observe
      BY <1>2, <1>3 DEF AllObserve
    <2>2. Cardinality(LostSlots) \in Nat /\ Cardinality(took) \in Nat
      BY <1>8, SlotSetFinite
    <2> QED BY <1>1, <1>2, <1>4, <1>9, <2>1, <2>2 DEF ReportInv, MoeType, StatsRecord
  <1>11. /\ stats'.dropped <= stats'.routed
         /\ stats'.capped_calls <= stats'.dropped
         /\ stats'.dropped > 0 => stats'.capped_calls > 0
    <2>1. Cardinality(took) \in Nat /\ Cardinality(took) <= Cardinality(Slots)
      BY <1>8, SlotSetFinite, SlotsFinite, FS_Subset
    <2>2. Cardinality(Slots) \in Nat
      BY SlotsFinite
    <2> QED BY <1>1, <1>4, <2>1, <2>2 DEF ReportInv, MoeType, StatsRecord
  <1> QED BY <1>3, <1>5, <1>6, <1>7, <1>10, <1>11 DEF MoeInv, ReportInv

(* A forward starts with every weight it was given, inside all the wrappers *)
(* there are.                                                               *)
LEMMA ForwardStep ==
  ASSUME MoeInv, Forward
  PROVE  MoeInv'
  <1>1. MoeType /\ ReportInv
    BY DEF MoeInv
  <1> PICK e \in Routings, w \in Weights, std \in BOOLEAN, capt \in BOOLEAN :
             call' = [ids |-> e, given |-> w, weights |-> w, standard |-> std,
                      capturing |-> std /\ capt]
    BY DEF Forward
  <1>2. /\ UNCHANGED <<chain, stats, lost>> /\ call = Idle
        /\ level' = Len(chain)
    BY DEF Forward
  <1>3. call' \in CallRecord
    BY GivenWeights DEF CallRecord
  <1>4. MoeType'
    BY <1>1, <1>2, <1>3 DEF MoeType
  <1>5. CapKeepsEarliest'
    <2>1. ~\E l \in (Len(chain) + 1) .. Len(chain) : TRUE
      BY <1>1 DEF MoeType
    <2> QED BY <1>2, <2>1 DEF CapKeepsEarliest
  <1>6. LostSlots' = {} /\ Cardinality(LostSlots') = 0
    BY FS_EmptySet DEF LostSlots
  <1>7. ReportInv'
    BY <1>1, <1>2, <1>3, <1>6, RecordNotIdle
       DEF ReportInv, AllObserve, MoeType, StatsRecord
  <1> QED BY <1>4, <1>5, <1>7 DEF MoeInv

(* When a forward returns, what it lost joins what the forwards before it   *)
(* lost.                                                                    *)
LEMMA ReturnStep ==
  ASSUME MoeInv, Return
  PROVE  MoeInv'
  <1>1. /\ UNCHANGED <<chain, stats, level>> /\ call # Idle /\ call' = Idle
        /\ lost' = lost + Cardinality(LostSlots)
    BY DEF Return, LostSlots
  <1>2. Cardinality(LostSlots) \in Nat
    BY SlotSetFinite DEF LostSlots
  <1> QED BY <1>1, <1>2 DEF MoeInv, MoeType, CapKeepsEarliest, ReportInv, AllObserve

(* A class method is wrapped between forwards; if all its wrappers observe, *)
(* the earlier ones did.                                                    *)
LEMMA RegisterStep ==
  ASSUME MoeInv, ArmOnFirstBatch \/ RegisterAgain
  PROVE  MoeInv'
  <1>1. /\ UNCHANGED <<stats, call, level, lost>> /\ call = Idle
        /\ \/ UNCHANGED chain
           \/ \E env \in Envs : chain' = Append(chain, env)
    <2>1. ASSUME NEW env \in Envs, Register(env)
          PROVE  UNCHANGED chain \/ chain' = Append(chain, env)
      BY <2>1 DEF Register
    <2> QED BY <2>1 DEF ArmOnFirstBatch, RegisterAgain
  <1>2. chain' \in Seq(Envs)
    <2>1. chain \in Seq(Envs)
      BY DEF MoeInv, MoeType
    <2>2. CASE UNCHANGED chain
      BY <2>1, <2>2
    <2>3. CASE \E env \in Envs : chain' = Append(chain, env)
      BY <2>1, <2>3
    <2> QED BY <1>1, <2>2, <2>3
  <1>3. AllObserve' => AllObserve
    <2>1. CASE UNCHANGED chain
      BY <2>1 DEF AllObserve
    <2>2. CASE \E env \in Envs : chain' = Append(chain, env)
      <3>1. \A l \in 1 .. Len(chain) : l \in 1 .. Len(chain') /\ chain'[l] = chain[l]
        BY <2>2 DEF MoeInv, MoeType
      <3> QED BY <3>1 DEF AllObserve
    <2> QED BY <1>1, <2>1, <2>2
  <1> QED BY <1>1, <1>2, <1>3 DEF MoeInv, MoeType, CapKeepsEarliest, ReportInv

(* The cap and its report are correct whatever is wrapped, called, captured *)
(* and observed.                                                            *)
THEOREM MoeCorrect == Spec => []MoeInv
  <1>1. Init => MoeInv
    BY DEF Init, MoeInv, MoeType, CapKeepsEarliest, ReportInv, StatsRecord
  <1>2. MoeInv /\ [Next]_vars => MoeInv'
    <2> SUFFICES ASSUME MoeInv, [Next]_vars PROVE MoeInv'
      OBVIOUS
    <2>1. CASE UNCHANGED vars
      BY <2>1 DEF vars, MoeInv, MoeType, CapKeepsEarliest, ReportInv, AllObserve,
         LostSlots
    <2> QED BY <2>1, RegisterStep, ForwardStep, WrapperStep, ReturnStep DEF Next
  <1> QED BY <1>1, <1>2, PTL DEF Spec

(* Whatever the stack of wrappers, a slot keeps its weight exactly if fewer *)
(* earlier slots chose its expert than the tightest capacity in force.      *)
THEOREM EarliestKept == Spec => []CapKeepsEarliest
  <1>1. MoeInv => CapKeepsEarliest
    BY DEF MoeInv
  <1> QED BY <1>1, MoeCorrect, PTL

(* Between forwards, and if every wrapper observes, the report counts each  *)
(* lost slot once.                                                          *)
THEOREM ReportExact == Spec => []DropsCountedOnce
  <1>1. MoeInv => DropsCountedOnce
    BY DEF MoeInv, ReportInv, AllObserve, DropsCountedOnce
  <1> QED BY <1>1, MoeCorrect, PTL
=============================================================================
