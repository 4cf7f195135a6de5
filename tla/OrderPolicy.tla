----------------------------- MODULE OrderPolicy -----------------------------
(***************************************************************************)
(* Where the orders come from: the damped policies of SchedControlPlane    *)
(* (python/sched_controller.py) and SchedPlane.region_order                *)
(* (python/sched_rt.py), which the serving plugin calls with the same      *)
(* predictions.  Estimation is abstracted: before each step the predicted  *)
(* costs of the next batch may be anything.                                *)
(*                                                                         *)
(* Tiles are numbered from 0, an order is a sequence of tiles.  Costs are  *)
(* integers; the dead-band of the controller is 1/Deadband (0.02, so 50).  *)
(***************************************************************************)
EXTENDS Integers, Sequences, FiniteSets, SequencesExt

CONSTANTS
  Policies,  (* of "lpt", "srpt", "edf", and "region" for the plugin's path *)
  Deadband,  (* the reciprocal of the dead-band                             *)
  MaxTiles,  (* bound on the tiles of a batch                               *)
  Costs,     (* predictions                                                 *)
  Slacks,    (* deadline minus elapsed time of a request                    *)
  Blocks     (* values of SCHED_LPT_BLOCK                                   *)

ASSUME OrderAssumption ==
  /\ Policies \subseteq {"lpt", "srpt", "edf", "region"}
  /\ Deadband \in Nat \ {0} /\ MaxTiles \in Nat \ {0}
  /\ Costs \subseteq Nat /\ Slacks \subseteq Int
  /\ Blocks \subseteq Int

VARIABLES
  policy,  (* the controller's policy, or "region"                          *)
  phase,   (* "predicted": a batch waits for its order, or "written"        *)
  cost,    (* t_hat: the predicted cost of each tile of the batch           *)
  slack,   (* deadlines[i] - elapsed[i]                                     *)
  R,       (* resident capacity, 0 when unknown or not armed                *)
  block,   (* SCHED_LPT_BLOCK                                               *)
  last,    (* _last_order                                                   *)
  pi       (* the order last written to the plane                           *)

batch == <<cost, slack, R, block>>
vars == <<policy, phase, batch, last, pi>>

TilesOf(c) == DOMAIN c
Size(c) == Cardinality(DOMAIN c)

-----------------------------------------------------------------------------
(* SchedControlPlane. *)

(* Python's sort by a key; it is stable, so ties come in their own order.   *)
Before(key, i, j) == key[i] < key[j] \/ (key[i] = key[j] /\ i < j)

SortedBy(key) ==
  CHOOSE o \in SetToSeqs(DOMAIN key) :
    \A i, j \in DOMAIN o : i < j => Before(key, o[i], o[j])

(* The order that the policy asks for. *)
Fresh ==
  SortedBy([i \in TilesOf(cost) |->
              CASE policy = "lpt"  -> 0 - cost[i]
                [] policy = "srpt" -> cost[i]
                [] policy = "edf"  -> slack[i] - cost[i]])

(* _span: the sum of the completion times of the tiles, one after another. *)
Span(order) ==
  SumFunction([k \in DOMAIN order |-> (Len(order) + 1 - k) * cost[order[k]]])

(* Mutant of Damped: the stored order is kept whatever it costs. *)
DampedAlways == Len(last) = Size(cost)

(* Mutant of Damped: the gain is taken the wrong way round. *)
DampedBackwards ==
  /\ Len(last) = Size(cost)
  /\ (Span(Fresh) - Span(last)) * Deadband < Span(Fresh)

(* The stored order stays when it has this size and Fresh gains too little. *)
(* (Against a Span of 0 the gain is negligible if it is 0.)                 *)
Damped ==
  /\ Len(last) = Size(cost)
  /\ LET gain == Span(last) - Span(Fresh)
     IN gain * Deadband < Span(Fresh) \/ gain = 0

(* order() and step(): the damped order is stored, and written. *)
OrderStep ==
  /\ phase = "predicted" /\ policy # "region"
  /\ last' = IF Damped THEN last ELSE Fresh
  /\ pi' = last'
  /\ phase' = "written"
  /\ UNCHANGED <<policy, batch>>

-----------------------------------------------------------------------------
(* SchedPlane.region_order.  torch.argsort is not stable: tiles of one cost *)
(* may come in any order.                                                   *)

(* Mutant of Heaviest: the lightest first. *)
HeaviestLast(c) ==
  {o \in SetToSeqs(DOMAIN c) :
     \A i, j \in DOMAIN o : i < j => c[o[i]] <= c[o[j]]}

Heaviest(c) ==
  {o \in SetToSeqs(DOMAIN c) :
     \A i, j \in DOMAIN o : i < j => c[o[i]] >= c[o[j]]}

CeilDiv(a, b) == (a + b - 1) \div b

(* Mutant of BlockRows: the table is read down its columns. *)
BlockColumns(border, B) ==
  [k \in 1 .. (Len(border) * B) |->
     border[((k - 1) % Len(border)) + 1] * B + ((k - 1) \div Len(border))]

(* base: one row of B adjacent indices for each block, flattened. *)
BlockRows(border, B) ==
  [k \in 1 .. (Len(border) * B) |->
     border[((k - 1) \div B) + 1] * B + ((k - 1) % B)]

(* order[order < n]: the padding of the last block is dropped. *)
Unpadded(order, n) ==
  LET places == SortedBy([k \in {k \in DOMAIN order : order[k] < n} |-> k])
  IN [j \in DOMAIN places |-> order[places[j]]]

(* bcost: the cost of each block; its padding costs nothing. *)
BlockCosts(c, B) ==
  [b \in 0 .. (CeilDiv(Size(c), B) - 1) |->
     SumFunctionOnSet(c, {t \in TilesOf(c) : t \div B = b})]

(* _grouped_lpt: adjacent tiles in blocks, the heaviest block first. *)
GroupedLPT(c, B) ==
  IF B <= 1 \/ Size(c) <= B THEN Heaviest(c)
  ELSE {Unpadded(BlockRows(border, B), Size(c)) :
          border \in Heaviest(BlockCosts(c, B))}

(* nh and nl: the heavy and the light slots of the prefix. *)
Heavies(r) == (r + 1) \div 2

(* Mutant of Lights: the prefix has as many light slots as heavy ones. *)
LightsRoundedUp(r) == (r + 1) \div 2

Lights(r) == r - Heavies(r)

(* The prefix alternates the ends of lpt, the suffix is its middle. *)
Striped(lpt, r) ==
  [k \in 1 .. r |->
     IF k % 2 = 1 THEN lpt[(k + 1) \div 2] ELSE lpt[Len(lpt) + 1 - k \div 2]]
  \o SubSeq(lpt, Heavies(r) + 1, Len(lpt) - Lights(r))

RegionOrders ==
  IF R = 0 \/ Size(cost) <= R
  THEN GroupedLPT(cost, block)
  ELSE {Striped(lpt, R) : lpt \in Heaviest(cost)}

RegionStep ==
  /\ phase = "predicted" /\ policy = "region"
  /\ pi' \in RegionOrders
  /\ phase' = "written"
  /\ UNCHANGED <<policy, batch, last>>

-----------------------------------------------------------------------------
(* A batch arrives, with the costs now predicted for it.  Deadlines matter  *)
(* to edf only, the regions and blocks to the plugin only.                  *)
Predict ==
  /\ phase = "written"
  /\ \E n \in 1 .. MaxTiles :
       /\ cost' \in [0 .. (n - 1) -> Costs]
       /\ slack' \in IF policy = "edf" THEN [0 .. (n - 1) -> Slacks]
                     ELSE {[i \in 0 .. (n - 1) |-> 0]}
  /\ R' \in IF policy = "region" THEN 0 .. MaxTiles ELSE {0}
  /\ block' \in IF policy = "region" THEN Blocks ELSE {1}
  /\ phase' = "predicted"
  /\ UNCHANGED <<policy, last, pi>>

(* Nothing is ordered yet. *)
Init ==
  /\ policy \in Policies
  /\ phase = "written"
  /\ cost = <<>> /\ slack = <<>> /\ R = 0 /\ block = 1
  /\ last = <<>> /\ pi = <<>>

Next == Predict \/ OrderStep \/ RegionStep

Spec == Init /\ [][Next]_vars

-----------------------------------------------------------------------------
(* Properties. *)

Ordered == phase = "written"

(* E1: what is written is an order of exactly the tiles of the batch it is  *)
(* written for, however the sizes of the batches and the predictions        *)
(* changed since the stored order was computed.  (order, region_order)      *)
WrittenIsOrder == Ordered => pi \in SetToSeqs(TilesOf(cost))

(* "SRPT for mean latency": under srpt, the total completion time that the  *)
(* written order predicts is within the dead-band of the best that any      *)
(* order of the batch has, also when the order is an old one that was kept. *)
SrptNearBest ==
  Ordered /\ policy = "srpt" =>
    \A o \in SetToSeqs(TilesOf(cost)) :
      Span(pi) * Deadband <= (Deadband + 1) * Span(o)

(* What is left of the freeze that _span's comment reports as mended: once  *)
(* an lpt order is written, no order of its size ever replaces it, whatever *)
(* is predicted since.  Longest first has the greatest total completion     *)
(* time of all orders, so by _span it never gains on the stored one; the    *)
(* controller writes a new lpt order only when the size of the batch has    *)
(* changed.  (order, _span)                                                 *)
LptNeverReorders ==
  [][ (policy = "lpt" /\ Len(pi') = Len(pi)) => pi' = pi ]_vars

(* In an order for a region of R tiles, the prefix takes the extremes: no   *)
(* tile after it is heavier than a heavy slot's or lighter than a light     *)
(* slot's, and those tiles come heaviest first.  (region_order)             *)
RegionTakesExtremes ==
  Ordered /\ policy = "region" /\ R > 0 /\ Size(cost) > R =>
    \A k \in (R + 1) .. Len(pi) :
      /\ \A p \in 1 .. R : IF p % 2 = 1 THEN cost[pi[p]] >= cost[pi[k]]
                                        ELSE cost[pi[p]] <= cost[pi[k]]
      /\ \A p \in (R + 1) .. k : cost[pi[p]] >= cost[pi[k]]

(* Locality: an order for the static path keeps the tiles of a block        *)
(* side by side and in their order, and no block comes before one that is   *)
(* heavier as a whole.  (_grouped_lpt)                                      *)
BlocksStayTogether ==
  Ordered /\ policy = "region" /\ (R = 0 \/ Size(cost) <= R)
          /\ 0 < block /\ block < Size(cost) =>
    LET weight(t) == SumFunctionOnSet(cost, {u \in TilesOf(cost) :
                                               u \div block = t \div block})
    IN \A k \in 1 .. (Len(pi) - 1) :
         \/ pi[k + 1] = pi[k] + 1 /\ pi[k + 1] % block # 0
         \/ /\ pi[k + 1] % block = 0
            /\ pi[k] % block = block - 1 \/ pi[k] = Size(cost) - 1
            /\ weight(pi[k]) >= weight(pi[k + 1])
=============================================================================
