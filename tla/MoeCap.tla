------------------------------- MODULE MoeCap -------------------------------
(***************************************************************************)
(* The expert cap (python/sched_moe_hook.py): register_moe_cap wraps the   *)
(* class method FusedMoE.forward, and each wrapper lowers the routing of a *)
(* forward to a capacity per expert before it calls what it wrapped.       *)
(*                                                                         *)
(* A routing is a sequence of slots, tokens in arrival order with top_k    *)
(* slots each; a slot has an expert and a weight, of which only whether it *)
(* is zero matters.  A capacity factor is a fraction.                      *)
(***************************************************************************)
EXTENDS Integers, Sequences, FiniteSetsExt

CONSTANTS
  NumExperts, TopK, Tokens,
  Envs,         \* settings of SCHED_MOE_CAPACITY, _MIN_CAP and _OBSERVE
  MaxWrappers,  \* bound: calls that wrap
  MaxForwards   \* bound: forwards of the model

ASSUME MoeAssumption ==
  /\ NumExperts \in Nat \ {0} /\ TopK \in 1 .. NumExperts /\ Tokens \in Nat \ {0}
  /\ Envs \subseteq [num : Nat, den : Nat \ {0}, min : Nat, observe : BOOLEAN]
  /\ MaxWrappers \in Nat /\ MaxForwards \in Nat

VARIABLES
  chain,      \* the wrappers of FusedMoE.forward, innermost first
  originals,  \* the values of _ORIG; forward number n is the n-th wrapper
  armed,      \* _STATE["moe_armed"]
  stats,      \* _STATS
  call,       \* the forward in progress, if any
  level,      \* the wrapper it is in; 0 in the stock forward
  forwards,   \* how many forwards were called
  lost        \* history: how many slots they lost

vars == <<chain, originals, armed, stats, call, level, forwards, lost>>

Experts == 0 .. (NumExperts - 1)
Slots == 1 .. (Tokens * TopK)
Token(i) == (i - 1) \div TopK

(* The experts of a token are distinct; a weight may have rounded to zero,  *)
(* say the last one.                                                        *)
Routings ==
  {e \in [Slots -> Experts] :
     \A i, j \in Slots : i # j /\ Token(i) = Token(j) => e[i] # e[j]}
Weights ==
  {[i \in Slots |-> IF i = Tokens * TopK THEN last ELSE 1] : last \in {0, 1}}

-----------------------------------------------------------------------------

Capacity(env) == (env.num * Tokens * TopK) \div (env.den * NumExperts)

Skips(env) == Capacity(env) < env.min

(* argsort(stable=True), counts, the start of each expert's group, and the  *)
(* rank of every slot within its group, scattered back.                     *)
Order(e) ==
  LET before(i) == {j \in Slots : e[j] < e[i] \/ (e[j] = e[i] /\ j < i)}
  IN [p \in Slots |-> CHOOSE i \in Slots : Cardinality(before(i)) = p - 1]

(* Mutant of GroupStart: the cumulated counts are not shifted by one. *)
GroupStartUnshifted(e) ==
  [x \in Experts |-> Quantify(Slots, LAMBDA i : e[i] <= x)]

(* The cumulated counts of the smaller experts: how many slots chose one.   *)
GroupStart(e) ==
  [x \in Experts |-> Quantify(Slots, LAMBDA i : e[i] < x)]

Overflow(e, cap) ==
  LET order == Order(e)
      start == GroupStart(e)
      within == [p \in Slots |-> (p - 1) - start[e[order[p]]]]
  IN {order[p] : p \in {q \in Slots : within[q] >= cap}}

moe_expert_cap(e, w, env) ==
  LET overflow == IF Skips(env) THEN {} ELSE Overflow(e, Capacity(env))
  IN [i \in Slots |-> IF i \in overflow THEN 0 ELSE w[i]]

-----------------------------------------------------------------------------

Idle == <<>>
Current == Len(chain)  \* FusedMoE.forward

(* The test looks for the current forward among the originals; a wrapper is *)
(* never one of them.                                                       *)
Register(env) ==
  IF Current \in originals
  THEN UNCHANGED <<chain, originals>>
  ELSE /\ Len(chain) < MaxWrappers
       /\ originals' = originals \cup {Current}
       /\ chain' = Append(chain, env)

(* The before hook of run_batch arms the cap on the first batch; the import *)
(* of FusedMoE or the flag may turn it into a no-op, never retried.         *)
ArmOnFirstBatch ==
  /\ call = Idle /\ ~armed
  /\ armed' = TRUE
  /\ \/ \E env \in Envs : Register(env)
     \/ UNCHANGED <<chain, originals>>
  /\ UNCHANGED <<stats, call, level, forwards, lost>>

(* Any other caller of register_moe_cap.                                    *)
RegisterAgain ==
  /\ call = Idle
  /\ \E env \in Envs : Register(env)
  /\ UNCHANGED <<armed, stats, call, level, forwards, lost>>

(* The model calls FusedMoE.forward.  Only a standard routing has ids and   *)
(* weights; while a CUDA graph is captured a host sync raises.              *)
Forward ==
  /\ call = Idle /\ chain # <<>> /\ forwards < MaxForwards
  /\ \E e \in Routings, w \in Weights, std, capt \in BOOLEAN :
       call' = [ids |-> e, given |-> w, weights |-> w, standard |-> std,
                capturing |-> std /\ capt]
  /\ level' = Len(chain) /\ forwards' = forwards + 1
  /\ UNCHANGED <<chain, originals, armed, stats, lost>>

(* Mutant of Dropped: every zero weight counts. *)
DroppedIfZero(new, old) == Quantify(Slots, LAMBDA i : new[i] = 0)

Dropped(new, old) == Quantify(Slots, LAMBDA i : new[i] # old[i])

(* calls is counted before the sum that may raise.                          *)
Observe(d) ==
  stats' = [stats EXCEPT
    !.calls = @ + 1,
    !.routed = IF call.capturing THEN @ ELSE @ + Cardinality(Slots),
    !.capped_calls = IF call.capturing \/ d = 0 THEN @ ELSE @ + 1,
    !.dropped = IF call.capturing THEN @ ELSE @ + d]

(* One wrapper: whatever raises is swallowed before the routing is          *)
(* replaced; then it calls what it wrapped.                                 *)
Wrapper ==
  /\ call # Idle /\ level > 0
  /\ LET env == chain[level]
         new == moe_expert_cap(call.ids, call.weights, env)
         out == IF ~call.standard \/ (env.observe /\ call.capturing)
                THEN call.weights ELSE new
     IN /\ IF call.standard /\ env.observe
           THEN Observe(Dropped(new, call.weights))
           ELSE UNCHANGED stats
        /\ call' = [call EXCEPT !.weights = out]
  /\ level' = level - 1
  /\ UNCHANGED <<chain, originals, armed, forwards, lost>>

(* The stock forward runs with the routing it was given, and all return.    *)
Return ==
  /\ call # Idle /\ level = 0
  /\ lost' = lost + Cardinality({i \in Slots : call.weights[i] # call.given[i]})
  /\ call' = Idle
  /\ UNCHANGED <<chain, originals, armed, stats, level, forwards>>

Init ==
  /\ chain = <<>> /\ originals = {} /\ armed = FALSE
  /\ stats = [calls |-> 0, routed |-> 0, capped_calls |-> 0, dropped |-> 0]
  /\ call = Idle /\ level = 0 /\ forwards = 0 /\ lost = 0

Next == ArmOnFirstBatch \/ RegisterAgain \/ Forward \/ Wrapper \/ Return

Spec == Init /\ [][Next]_vars

-----------------------------------------------------------------------------
(* Properties *)

Rank(e, i) == Cardinality({j \in Slots : j < i /\ e[j] = e[i]})

(* However often the class method was wrapped, a slot keeps its weight      *)
(* exactly if fewer earlier slots chose its expert than the tightest        *)
(* capacity of the wrappers that cap this batch: the sort-and-rank of       *)
(* moe_expert_cap drops the latest arrivals, a batch below min_capacity or  *)
(* without ids passes untouched, and an observer that raises during capture *)
(* leaves its wrapper without effect.                                       *)
CapKeepsEarliest ==
  call # Idle =>
    LET caps(l) == /\ call.standard /\ ~Skips(chain[l])
                   /\ ~(chain[l].observe /\ call.capturing)
    IN \A i \in Slots :
         call.weights[i] =
           IF \E l \in (level + 1) .. Len(chain) :
                caps(l) /\ Rank(call.ids, i) >= Capacity(chain[l])
           THEN 0 ELSE call.given[i]

(* SCHED_MOE_OBSERVE reports what the cap did: between forwards, if every   *)
(* wrapper observes, "dropped" is the number of slots that lost a weight,   *)
(* each counted once although several wrappers saw the forward, and a drop  *)
(* is on record exactly if some call was capped.                            *)
DropsCountedOnce ==
  call = Idle /\ (\A l \in 1 .. Len(chain) : chain[l].observe) =>
    /\ stats.dropped = lost
    /\ stats.dropped <= stats.routed /\ stats.capped_calls <= stats.dropped
    /\ stats.dropped > 0 => stats.capped_calls > 0
=============================================================================
