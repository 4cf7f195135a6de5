------------------------------ MODULE ClcGrid ------------------------------
(***************************************************************************)
(* One launch of a Cluster Launch Control probe (experiments/clc/*.cu): a  *)
(* grid of clusters, the hardware that admits them to SMs, and the loop    *)
(* every probe kernel runs: serve the raw id, ask to cancel a cluster that *)
(* is not launched yet, serve its id, leave at the first refusal.          *)
(*                                                                         *)
(* A cluster acts as one: its CTAs meet at a barrier before their leader   *)
(* claims (clc_cluster_probe.cu:136-163).  Without clusters a cluster is   *)
(* one CTA.  The hardware is external: FINDINGS.md reports one behaviour   *)
(* of it, and the programming guide allows more; regime says which.        *)
(***************************************************************************)
EXTENDS Integers, Sequences, FiniteSets, FiniteSetsExt, Functions

CONSTANTS
  MaxUnits,  \* the largest grid, in clusters
  SMs        \* the number of SMs of the device

ASSUME BoundsAssumption == MaxUnits \in Nat \ {0} /\ SMs \in Nat \ {0}

VARIABLES
  conf,    \* the launch: its grid and the probe's arguments
  regime,  \* what the hardware does in this launch
  status,  \* where each cluster of the grid is
  holds,   \* the raw id a resident cluster is to serve
  sm,      \* the SM a cluster was admitted to
  visits,  \* visits[]: how often each raw id was served
  claims,  \* successful claims, in the order they completed
  stats    \* each worker's counters

device == <<conf, regime, status, holds, sm, visits, claims, stats>>

Units == 0 .. (MaxUnits - 1)
Nothing == -1

(* tasks / x clusters of x CTAs in rows of gx, at most occ clusters to an   *)
(* SM; every stride-th cluster claims; a kernel of pressure blocks runs in  *)
(* another stream.                                                          *)
Launches ==
  [units : 1 .. MaxUnits, x : Nat \ {0}, gx : Nat \ {0}, occ : Nat \ {0},
   stride : Nat \ {0}, pressure : Nat]

(* eager: the first wave is resident before any CTA claims; declines: a     *)
(* claim may fail while clusters are pending; taken: SMs on which a         *)
(* pressure block has a slot when the grid is launched; overlap: the two    *)
(* kernels ran side by side for longer than the 1 us that the pressure      *)
(* suite tolerates; moved: a worker is found on another SM than before.     *)
Regimes == [eager : BOOLEAN, declines : BOOLEAN, taken : Nat,
            overlap : BOOLEAN, moved : BOOLEAN]

Grid == 0 .. (conf.units - 1)
Live == {u \in Units : status[u] \in {"resident", "claiming"}}
Pending == {u \in Units : status[u] = "pending"}
Participates(w) == w % conf.stride = 0

(* Every CTA of the launch has returned. *)
Done == Live = {} /\ Pending = {}

(* Slots of SM s for the first wave, and predicted_r in clusters. *)
Slots(c, g, s) == c.occ - (IF s < g.taken THEN 1 ELSE 0)
PredictedR(c) == c.occ * SMs

(* The hardware places a first wave as it likes, within the slots. *)
FirstWave(c, g) ==
  IF g.eager
  THEN {u \in 0 .. (c.units - 1) :
          u < SumFunction([s \in 0 .. (SMs - 1) |-> Slots(c, g, s)])}
  ELSE {}
Placements(c, g) ==
  {p \in [FirstWave(c, g) -> 0 .. (SMs - 1)] :
     \A s \in 0 .. (SMs - 1) :
       Cardinality({u \in DOMAIN p : p[u] = s}) <= Slots(c, g, s)}

-----------------------------------------------------------------------------

Fresh == [processed |-> 0, attempts |-> 0, successes |-> 0]

Launch(c, g, p) ==
  /\ conf' = c /\ regime' = g
  /\ status' = [u \in Units |->
       IF u \in DOMAIN p THEN "resident"
       ELSE IF u < c.units THEN "pending" ELSE "out"]
  /\ holds' = [u \in Units |-> IF u \in DOMAIN p THEN u ELSE Nothing]
  /\ sm' = [u \in Units |-> IF u \in DOMAIN p THEN p[u] ELSE Nothing]
  /\ visits' = [u \in Units |-> 0]
  /\ claims' = <<>>
  /\ stats' = [u \in Units |-> Fresh]

(* A free slot takes the lowest cluster that nobody has cancelled; by then  *)
(* a pressure block may have returned and left its slot free.               *)
Admit(u, s) ==
  /\ u \in Pending /\ \A v \in Pending : u <= v
  /\ Cardinality({w \in Live : sm[w] = s}) < conf.occ
  /\ status' = [status EXCEPT ![u] = "resident"]
  /\ holds' = [holds EXCEPT ![u] = u]
  /\ sm' = [sm EXCEPT ![u] = s]
  /\ UNCHANGED <<conf, regime, visits, claims, stats>>

(* The body of the loop for one raw id; one that does not take part in      *)
(* claiming breaks out.                                                     *)
Serve(w) ==
  /\ status[w] = "resident"
  /\ visits' = [visits EXCEPT ![holds[w]] = @ + 1]
  /\ stats' = [stats EXCEPT ![w].processed = @ + 1]
  /\ holds' = [holds EXCEPT ![w] = Nothing]
  /\ status' = [status EXCEPT ![w] =
       IF Participates(w) THEN "claiming" ELSE "left"]
  /\ UNCHANGED <<conf, regime, sm, claims>>

(* Mutant of Claim: u is handed out but can still be launched. *)
ClaimLeavesPending(w, u) ==
  /\ status[w] = "claiming" /\ u \in Pending
  /\ status' = [status EXCEPT ![w] = "resident"]
  /\ holds' = [holds EXCEPT ![w] = u]
  /\ claims' = Append(claims, [worker |-> w, unit |-> u])
  /\ stats' = [stats EXCEPT ![w].attempts = @ + 1, ![w].successes = @ + 1]
  /\ UNCHANGED <<conf, regime, sm, visits>>

(* The claim cancels u: u will not be launched, and w serves its raw id. *)
Claim(w, u) ==
  /\ status[w] = "claiming" /\ u \in Pending
  /\ status' = [status EXCEPT ![u] = "cancelled", ![w] = "resident"]
  /\ holds' = [holds EXCEPT ![w] = u]
  /\ claims' = Append(claims, [worker |-> w, unit |-> u])
  /\ stats' = [stats EXCEPT ![w].attempts = @ + 1, ![w].successes = @ + 1]
  /\ UNCHANGED <<conf, regime, sm, visits>>

(* Mutant of Fail: the failing claim is not counted as an attempt. *)
FailUncounted(w) ==
  /\ status[w] = "claiming" /\ (Pending = {} \/ regime.declines)
  /\ status' = [status EXCEPT ![w] = "left"]
  /\ UNCHANGED <<conf, regime, holds, sm, visits, claims, stats>>

(* The first failed cancel ends the loop. *)
Fail(w) ==
  /\ status[w] = "claiming" /\ (Pending = {} \/ regime.declines)
  /\ status' = [status EXCEPT ![w] = "left"]
  /\ stats' = [stats EXCEPT ![w].attempts = @ + 1]
  /\ UNCHANGED <<conf, regime, holds, sm, visits, claims>>

Gpu ==
  \E w \in Units :
    \/ \E s \in 0 .. (SMs - 1) : Admit(w, s)
    \/ Serve(w)
    \/ \E u \in Units : Claim(w, u)
    \/ Fail(w)

-----------------------------------------------------------------------------
(* What the host reads back when the launch is done. *)

Claimed == {claims[i].unit : i \in DOMAIN claims}
TimesClaimed(u) == Cardinality({i \in DOMAIN claims : claims[i].unit = u})
Workers == {w \in Units : stats[w].processed > 0}
Count(S) == conf.x * Cardinality(S)
Total(counter) == SumFunction([w \in Units |-> stats[w][counter]])
WorkersOn(s) == Cardinality({w \in Workers : sm[w] = s})
Busy == {s \in 0 .. (SMs - 1) : WorkersOn(s) > 0}

(* The CSV row of the probe.  The host reads it when both kernels are done,  *)
(* so every pressure block has counted itself as started.                    *)
Row ==
  LET unique == Count(Claimed)
      first == IF Claimed = {} THEN 0 ELSE conf.x * Min(Claimed)
      last == IF Claimed = {} THEN 0 ELSE conf.x * (Max(Claimed) + 1) - 1
      attempts == Total("attempts")
      successes == Total("successes")
  IN [tasks |-> Count(Grid), r |-> conf.x * PredictedR(conf), x |-> conf.x,
      gx |-> conf.gx, stride |-> conf.stride,
      processed |-> conf.x * Total("processed"),
      active |-> Count(Workers),
      missed |-> Count({u \in Grid : visits[u] = 0}),
      duplicates |-> Count({u \in Grid : visits[u] > 1}),
      attempts |-> attempts, successes |-> successes,
      failures |-> attempts - successes,
      unique |-> unique, cmin |-> first, cmax |-> last,
      dupClaims |-> Count({u \in Claimed : TimesClaimed(u) > 1}),
      holes |-> IF Claimed = {} THEN 0 ELSE (last - first + 1) - unique,
      bases |-> Cardinality(Claimed), bmax |-> last - (conf.x - 1),
      spread |-> Max({WorkersOn(s) : s \in Busy})
                   - Min({WorkersOn(s) : s \in Busy}),
      pressure |-> conf.pressure, started |-> conf.pressure,
      overlap |-> regime.overlap, moved |-> regime.moved]
=============================================================================
