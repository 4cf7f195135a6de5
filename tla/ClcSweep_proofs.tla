-------------------------- MODULE ClcSweep_proofs --------------------------
(***************************************************************************)
(* What holds of every launch the sweeps make and of every verdict and     *)
(* report they write, for every device, grid and number of repeats: the    *)
(* bookkeeping of the probe's loop, from it that each raw id is served     *)
(* once, and from that and the counters what the validators, the stitched  *)
(* runs, the reports and the mapping's verdict vouch for.                  *)
(***************************************************************************)
EXTENDS ClcSweep, SequenceTheorems, Lemmas

USE BoundsAssumption, FitsAssumption, RepeatsAssumption
    DEF BoundsAssumption, FitsAssumption, RepeatsAssumption

Tallies == [processed : Nat, attempts : Nat, successes : Nat]
ClaimRecords == [worker : Units, unit : Units]

DeviceType ==
  /\ conf.units \in 0 .. MaxUnits
  /\ status \in [Units -> {"out", "pending", "resident", "claiming", "left",
                           "cancelled"}]
  /\ holds \in [Units -> Units \cup {Nothing}]
  /\ sm \in [Units -> Int]
  /\ visits \in [Units -> Nat]
  /\ claims \in Seq(ClaimRecords)
  /\ stats \in [Units -> Tallies]

DeviceInv == DeviceType /\ GridInv

-----------------------------------------------------------------------------
(* The plans. *)

Shots == [kind : {"row", "events", "predict"}, conf : Launches]
Suites == {"threshold", "occupancy", "claim-order", "workload", "decode", "2d",
           "cluster", "trace", "tuple", "participation", "runtime", "mapping",
           "pressure"}

(* An index of a list that repeats each entry n times falls in the list.    *)
LEMMA RepeatIndex ==
  ASSUME NEW n \in Nat \ {0}, NEW k \in Nat, NEW i \in 1 .. (k * n)
  PROVE  ((i - 1) \div n) + 1 \in 1 .. k
  <1> DEFINE q == (i - 1) \div n
  <1>1. q \in Int /\ q * n <= i - 1 /\ i - 1 < (q + 1) * n
    OBVIOUS
  <1>2. q >= 0
    <2>1. CASE q < 0
      <3>1. q + 1 <= 0
        BY <1>1, <2>1
      <3>2. (q + 1) * n <= 0
        BY <1>1, <3>1
      <3> QED BY <1>1, <3>2
    <2> QED BY <1>1, <2>1
  <1>3. q < k
    <2>1. CASE q >= k
      <3>1. q * n >= k * n
        BY <1>1, <2>1
      <3> QED BY <1>1, <3>1
    <2> QED BY <1>1, <2>1
  <1> QED BY <1>1, <1>2, <1>3

(* Repeating a list of launches gives a list of shots.                      *)
LEMMA RepeatedType ==
  ASSUME NEW cs \in Seq(Launches), NEW n \in Nat \ {0}
  PROVE  Repeated(cs, n) \in Seq(Shots)
  <1>1. Len(cs) \in Nat /\ \A k \in 1 .. Len(cs) : cs[k] \in Launches
    BY LenProperties, ElementOfSeq
  <1>2. Len(cs) * n \in Nat
    BY <1>1
  <1>3. ASSUME NEW i \in 1 .. (Len(cs) * n)
        PROVE  Shot("row", cs[((i - 1) \div n) + 1]) \in Shots
    <2>1. ((i - 1) \div n) + 1 \in 1 .. Len(cs)
      BY <1>1, RepeatIndex
    <2> QED BY <2>1, <1>1 DEF Shot, Shots
  <1> QED BY <1>2, <1>3 DEF Repeated

(* So does capturing the events and the summary of each.                    *)
LEMMA CapturesType ==
  ASSUME NEW cs \in Seq(Launches)
  PROVE  Captures(cs) \in Seq(Shots)
  <1>1. Len(cs) \in Nat /\ \A k \in 1 .. Len(cs) : cs[k] \in Launches
    BY LenProperties, ElementOfSeq
  <1>2. ASSUME NEW i \in 1 .. (2 * Len(cs))
        PROVE  Shot(IF i % 2 = 1 THEN "events" ELSE "row",
                    cs[((i - 1) \div 2) + 1]) \in Shots
    <2>1. ((i - 1) \div 2) + 1 \in 1 .. Len(cs)
      BY <1>1, RepeatIndex
    <2> QED BY <2>1, <1>1 DEF Shot, Shots
  <1> QED BY <1>1, <1>2 DEF Captures

(* The configurations fit the device.                                       *)
LEMMA AboutsFit ==
  /\ About(1, -1) \in Launches /\ About(1, 0) \in Launches
  /\ About(1, 1) \in Launches /\ About(1, 2) \in Launches
  /\ About(2, -1) \in Launches /\ About(2, 0) \in Launches
  /\ About(2, 1) \in Launches /\ About(3, -2) \in Launches
  /\ About(1, 3) \in Launches /\ Cfg(3, 1) \in Launches
  <1>1. About(1, -1) \in Launches BY DEF About, Cfg, Launches
  <1>2. About(1, 0) \in Launches BY DEF About, Cfg, Launches
  <1>3. About(1, 1) \in Launches BY DEF About, Cfg, Launches
  <1>4. About(1, 2) \in Launches BY DEF About, Cfg, Launches
  <1>5. About(2, -1) \in Launches BY DEF About, Cfg, Launches
  <1>6. About(2, 0) \in Launches BY DEF About, Cfg, Launches
  <1>7. About(2, 1) \in Launches
    <2>1. 2 * SMs + 1 \in 1 .. MaxUnits /\ 2 * SMs + 1 \in Nat \ {0}
        OBVIOUS
    <2> QED BY <2>1 DEF About, Cfg, Launches
  <1>8. About(3, -2) \in Launches BY DEF About, Cfg, Launches
  <1>9. Cfg(3, 1) \in Launches BY DEF Cfg, Launches
  <1>10. About(1, 3) \in Launches BY DEF About, Cfg, Launches
  <1> QED BY <1>1, <1>2, <1>3, <1>4, <1>5, <1>6, <1>7, <1>8, <1>9, <1>10

(* A launch with clusters of two CTAs is a launch. *)
LEMMA OnPairs ==
  ASSUME NEW c \in Launches
  PROVE  [c EXCEPT !.x = 2] \in Launches
  BY DEF Launches

(* The configurations every suite builds are sequences of launches. *)
LEMMA ConfigsType ==
  /\ ThresholdConfigs \in Seq(Launches) /\ OccupancyConfigs \in Seq(Launches)
  /\ ClaimOrderConfigs \in Seq(Launches) /\ WorkloadConfigs \in Seq(Launches)
  /\ DecodeConfigs \in Seq(Launches) /\ Configs2d \in Seq(Launches)
  /\ ClusterConfigs \in Seq(Launches) /\ TupleConfigs \in Seq(Launches)
  /\ PartConfigs \in Seq(Launches) /\ RuntimeConfigs \in Seq(Launches)
  /\ PressureConfigs \in Seq(Launches) /\ MappingConfigs \in Seq(Launches)
  <1>1. /\ About(1, -1) \in Launches /\ About(1, 0) \in Launches
        /\ About(1, 1) \in Launches /\ About(1, 2) \in Launches
        /\ About(2, -1) \in Launches /\ About(2, 0) \in Launches
        /\ About(2, 1) \in Launches /\ About(3, -2) \in Launches
        /\ About(1, 3) \in Launches /\ Cfg(3, 1) \in Launches
    BY AboutsFit
  <1>2. ASSUME NEW c \in Launches, NEW n \in Nat \ {0}
        PROVE  [c EXCEPT !.gx = n] \in Launches
    BY DEF Launches
  <1>3. /\ [About(1, 2) EXCEPT !.gx = 2] \in Launches
        /\ [About(1, 0) EXCEPT !.gx = 1] \in Launches
        /\ [Cfg(3, 1) EXCEPT !.gx = 3] \in Launches
    <2>1. [About(1, 2) EXCEPT !.gx = 2] \in Launches
      BY <1>1, <1>2
    <2>2. [About(1, 0) EXCEPT !.gx = 1] \in Launches
      BY <1>1, <1>2
    <2>3. [Cfg(3, 1) EXCEPT !.gx = 3] \in Launches
      BY <1>1, <1>2
    <2> QED BY <2>1, <2>2, <2>3
  <1>4. ASSUME NEW c \in Launches, NEW n \in Nat \ {0}
        PROVE  [c EXCEPT !.stride = n] \in Launches
    BY DEF Launches
  <1>5. Configs2d \in Seq(Launches)
    BY <1>3 DEF Configs2d
  <1>6. ClusterConfigs \in Seq(Launches)
    <2>1. [About(1, 0) EXCEPT !.x = 2] \in Launches
      BY <1>1, OnPairs
    <2>2. [About(1, 1) EXCEPT !.x = 2] \in Launches
      BY <1>1, OnPairs
    <2> QED BY <1>1, <2>1, <2>2 DEF ClusterConfigs
  <1>7. PressureConfigs \in Seq(Launches)
    <2>1. ASSUME NEW c \in Launches, NEW n \in Nat
          PROVE  [c EXCEPT !.pressure = n] \in Launches
      BY DEF Launches
    <2>2. /\ [About(1, 2) EXCEPT !.pressure = 1] \in Launches
          /\ [About(1, 2) EXCEPT !.pressure = SMs] \in Launches
      BY <1>1, <2>1
    <2> QED BY <1>1, <2>2 DEF PressureConfigs
  <1>8. PartConfigs \in Seq(Launches)
    <2>1. [About(1, 3) EXCEPT !.stride = 2] \in Launches
      BY <1>1, <1>4
    <2> QED BY <1>1, <2>1 DEF PartConfigs
  <1> QED
    BY <1>1, <1>5, <1>6, <1>7, <1>8 DEF ThresholdConfigs, OccupancyConfigs,
       ClaimOrderConfigs, WorkloadConfigs, DecodeConfigs, TupleConfigs,
       RuntimeConfigs, MappingConfigs

(* So the plan of a suite is a sequence of probe runs of launches. *)
LEMMA PlanType ==
  ASSUME NEW s \in Suites
  PROVE  Plan(s) \in Seq(Shots)
  <1> USE ConfigsType
  <1>1. ASSUME NEW c \in Launches PROVE Shot("predict", c) \in Shots
    BY DEF Shot, Shots
  <1>2. About(2, 1) \in Launches /\ [About(1, 2) EXCEPT !.x = 2] \in Launches
        /\ About(1, 2) \in Launches
    BY AboutsFit, OnPairs
  <1>3. CASE s = "threshold"
    BY <1>3, RepeatedType DEF Plan
  <1>4. CASE s = "occupancy"
    <2>1. <<Shot("predict", About(2, 1))>> \in Seq(Shots)
      BY <1>1, <1>2
    <2>2. Repeated(OccupancyConfigs, Repeats) \in Seq(Shots)
      BY RepeatedType
    <2>3. Plan(s) = <<Shot("predict", About(2, 1))>>
                      \o Repeated(OccupancyConfigs, Repeats)
      BY <1>4 DEF Plan
    <2> QED BY <2>1, <2>2, <2>3, ConcatProperties
  <1>5. CASE s = "claim-order"
    BY <1>5, RepeatedType DEF Plan
  <1>6. CASE s = "workload"
    BY <1>6, RepeatedType DEF Plan
  <1>7. CASE s = "decode"
    BY <1>7, RepeatedType DEF Plan
  <1>8. CASE s = "2d"
    BY <1>8, RepeatedType DEF Plan
  <1>9. CASE s = "cluster"
    <2>1. <<Shot("predict", [About(1, 2) EXCEPT !.x = 2])>> \in Seq(Shots)
      BY <1>1, <1>2
    <2>2. Repeated(ClusterConfigs, Repeats) \in Seq(Shots)
      BY RepeatedType
    <2>3. Plan(s) = <<Shot("predict", [About(1, 2) EXCEPT !.x = 2])>>
                      \o Repeated(ClusterConfigs, Repeats)
      BY <1>9 DEF Plan
    <2> QED BY <2>1, <2>2, <2>3, ConcatProperties
  <1>10. CASE s = "tuple"
    BY <1>10, RepeatedType DEF Plan
  <1>11. CASE s = "participation"
    BY <1>11, RepeatedType DEF Plan
  <1>12. CASE s = "runtime"
    BY <1>12, RepeatedType DEF Plan
  <1>13. CASE s = "pressure"
    BY <1>13, RepeatedType DEF Plan
  <1>14. CASE s = "mapping"
    BY <1>14, CapturesType DEF Plan
  <1>15. CASE s = "trace"
    <2>1. <<About(1, 2)>> \in Seq(Launches)
      BY <1>2
    <2> QED BY <1>15, <2>1, CapturesType DEF Plan
  <1> QED
    BY <1>3, <1>4, <1>5, <1>6, <1>7, <1>8, <1>9, <1>10, <1>11, <1>12, <1>13,
       <1>14, <1>15 DEF Suites

-----------------------------------------------------------------------------
(* One launch. *)

UnitInv(u) ==
  /\ holds[u] # Nothing <=> status[u] = "resident"
  /\ sm[u] # Nothing <=> status[u] \in {"resident", "claiming", "left"}
  /\ status[u] = "out" <=> u \notin Grid
  /\ status[u] = "cancelled" <=> u \in Claimed
  /\ visits[u] = IF status[u] \in {"out", "pending"} \/ Held(u) THEN 0 ELSE 1
  /\ Held(u) => status[u] \notin {"out", "pending"}

OneHolder ==
  \A v, w \in Units : holds[v] = holds[w] /\ holds[v] # Nothing => v = w
OneClaim ==
  \A i, j \in DOMAIN claims : claims[i].unit = claims[j].unit => i = j

TallyInv(w) ==
  /\ status[w] = "claiming" => Participates(w)
  /\ stats[w].attempts = stats[w].successes
       + (IF status[w] = "left" /\ Participates(w) THEN 1 ELSE 0)
  /\ stats[w].processed = stats[w].successes
       + (IF status[w] \in {"claiming", "left"} THEN 1 ELSE 0)

(* The conjuncts of GridInv, one name each. *)
LEMMA GridParts ==
  ASSUME DeviceType
  PROVE  GridInv <=> /\ \A u \in Units : UnitInv(u)
                     /\ OneHolder /\ OneClaim
                     /\ \A w \in Units : TallyInv(w)
  <1>1. \A u \in Units : status[u] \in {"out", "pending", "resident",
                                        "claiming", "left", "cancelled"}
    BY DEF DeviceType
  <1> QED BY <1>1 DEF GridInv, UnitInv, OneHolder, OneClaim, TallyInv

(* The four parts of GridInv together are the invariant, after a step. *)
LEMMA GridPartsNext ==
  ASSUME DeviceType', \A u \in Units : UnitInv(u)', OneHolder', OneClaim',
         \A w \in Units : TallyInv(w)'
  PROVE  DeviceInv'
  <1>1. \A u \in Units : status'[u] \in {"out", "pending", "resident",
                                        "claiming", "left", "cancelled"}
    BY DEF DeviceType
  <1> QED BY <1>1 DEF DeviceInv, GridInv, UnitInv, OneHolder, OneClaim, TallyInv

(* The counters of one worker grow, the others keep theirs.                 *)
LEMMA TallyServe ==
  ASSUME NEW f \in [Units -> Tallies], NEW w \in Units, NEW g,
         g = [f EXCEPT ![w].processed = f[w].processed + 1]
  PROVE  /\ g \in [Units -> Tallies]
         /\ \A v \in Units : v # w => g[v] = f[v]
         /\ g[w].processed = f[w].processed + 1
         /\ g[w].attempts = f[w].attempts
         /\ g[w].successes = f[w].successes
  BY DEF Tallies

(* A failed attempt counts as an attempt of its worker and as nothing else. *)
LEMMA TallyFail ==
  ASSUME NEW f \in [Units -> Tallies], NEW w \in Units, NEW g,
         g = [f EXCEPT ![w].attempts = f[w].attempts + 1]
  PROVE  /\ g \in [Units -> Tallies]
         /\ \A v \in Units : v # w => g[v] = f[v]
         /\ g[w].processed = f[w].processed
         /\ g[w].attempts = f[w].attempts + 1
         /\ g[w].successes = f[w].successes
  BY DEF Tallies

(* Clusters are numbers, and none of them is Nothing. *)
LEMMA UnitsNat == \A u \in Units : u \in Nat /\ u # Nothing
  BY DEF Units, Nothing

(* A launch starts with its first wave resident and nobody cancelled.       *)
LEMMA LaunchStarts ==
  ASSUME NEW c \in Launches, NEW g, NEW p \in Placements(c, g), Launch(c, g, p)
  PROVE  DeviceInv'
  <1>1. c.units \in 1 .. MaxUnits
    BY DEF Launches
  <1>2. DOMAIN p \subseteq 0 .. (c.units - 1)
        /\ \A u \in DOMAIN p : p[u] \in 0 .. (SMs - 1)
    BY DEF Placements, FirstWave
  <1>3. DOMAIN p \subseteq Units
    BY <1>1, <1>2 DEF Units
  <1>4. DeviceType'
    BY <1>1, <1>2, <1>3, UnitsNat
       DEF Launch, DeviceType, Fresh, Tallies, Nothing
  <1>5. claims' = <<>> /\ Claimed' = {}
    BY DEF Launch, Claimed
  <1>6. ASSUME NEW u \in Units PROVE UnitInv(u)'
    <2>1. Grid' = 0 .. (c.units - 1)
      BY DEF Launch, Grid
    <2>2. u \in Grid' <=> u < c.units
      BY <1>1, <2>1 DEF Units
    <2>3. u \in DOMAIN p => p[u] # Nothing /\ u < c.units
      BY <1>1, <1>2 DEF Nothing
    <2>4. Held(u)' <=> u \in DOMAIN p
      BY UnitsNat DEF Held, Launch
    <2>5. status'[u] = IF u \in DOMAIN p THEN "resident"
                       ELSE IF u < c.units THEN "pending" ELSE "out"
      BY DEF Launch
    <2>6. holds'[u] = (IF u \in DOMAIN p THEN u ELSE Nothing)
          /\ sm'[u] = (IF u \in DOMAIN p THEN p[u] ELSE Nothing)
          /\ visits'[u] = 0
      BY DEF Launch
    <2> QED BY <1>5, <2>2, <2>3, <2>4, <2>5, <2>6, UnitsNat DEF UnitInv
  <1>7. OneHolder'
    BY UnitsNat DEF OneHolder, Launch
  <1>8. OneClaim'
    BY <1>5 DEF OneClaim
  <1>9. ASSUME NEW w \in Units PROVE TallyInv(w)'
    BY DEF Launch, Fresh, TallyInv
  <1> QED BY <1>4, <1>6, <1>7, <1>8, <1>9, GridPartsNext

(* A cluster that is admitted was pending: nobody holds its raw id.         *)
LEMMA AdmitKeeps ==
  ASSUME DeviceInv, NEW u \in Units, NEW s \in 0 .. (SMs - 1), Admit(u, s)
  PROVE  DeviceInv'
  <1>1. /\ \A v \in Units : UnitInv(v)
        /\ OneHolder /\ OneClaim /\ \A v \in Units : TallyInv(v)
    BY GridParts DEF DeviceInv
  <1>2. status[u] = "pending" /\ ~Held(u) /\ holds[u] = Nothing
    BY <1>1 DEF Admit, Pending, UnitInv
  <1>3. DeviceType'
    BY DEF DeviceInv, DeviceType, Admit
  <1>4. Claimed' = Claimed /\ Grid' = Grid /\ claims' = claims
    BY DEF Admit, Claimed, Grid
  <1>5. \A v \in Units : Held(v)' <=> Held(v) \/ v = u
    BY <1>2, UnitsNat DEF Held, Admit, DeviceInv, DeviceType
  <1>6. ASSUME NEW v \in Units PROVE UnitInv(v)'
    <2>1. CASE v = u
      BY <1>1, <1>2, <1>4, <1>5, <2>1, UnitsNat
         DEF UnitInv, Admit, DeviceInv, DeviceType, Nothing
    <2>2. CASE v # u
      BY <1>1, <1>4, <1>5, <2>2 DEF UnitInv, Admit, DeviceInv, DeviceType
    <2> QED BY <2>1, <2>2
  <1>7. OneHolder'
    BY <1>1, <1>2 DEF OneHolder, Held, Admit, DeviceInv, DeviceType
  <1>8. OneClaim'
    BY <1>1, <1>4 DEF OneClaim
  <1>9. ASSUME NEW v \in Units PROVE TallyInv(v)'
    BY <1>1, <1>2 DEF TallyInv, Admit, Participates, DeviceInv, DeviceType
  <1> QED BY <1>3, <1>6, <1>7, <1>8, <1>9, GridPartsNext

(* The raw id that is served was held by its server alone, and is then held *)
(* by nobody.                                                               *)
LEMMA ServeKeeps ==
  ASSUME DeviceInv, NEW w \in Units, Serve(w)
  PROVE  DeviceInv'
  <1>1. /\ \A v \in Units : UnitInv(v)
        /\ OneHolder /\ OneClaim /\ \A v \in Units : TallyInv(v)
    BY GridParts DEF DeviceInv
  <1>2. PICK u \in Units : holds[w] = u
    BY <1>1 DEF Serve, UnitInv, DeviceInv, DeviceType
  <1>3. Held(u) /\ visits[u] = 0 /\ status[u] \notin {"out", "pending"}
    BY <1>1, <1>2 DEF Held, UnitInv
  <1>0. stats \in [Units -> Tallies]
    BY DEF DeviceInv, DeviceType
  <1>12. /\ stats' \in [Units -> Tallies]
         /\ \A v \in Units : v # w => stats'[v] = stats[v]
         /\ stats'[w].processed = stats[w].processed + 1
         /\ stats'[w].attempts = stats[w].attempts
         /\ stats'[w].successes = stats[w].successes
    <2>1. stats' = [stats EXCEPT ![w].processed = stats[w].processed + 1]
      BY DEF Serve
    <2> QED BY <1>0, <2>1, TallyServe
  <1>4. DeviceType'
    <2>1. visits' \in [Units -> Nat]
      <3>1. visits \in [Units -> Nat] /\ visits[u] + 1 \in Nat
        BY <1>2 DEF DeviceInv, DeviceType
      <3>2. visits' = [visits EXCEPT ![u] = visits[u] + 1]
        BY <1>2 DEF Serve
      <3> QED BY <3>1, <3>2
    <2>4. holds' \in [Units -> Units \cup {Nothing}]
      <3>1. holds \in [Units -> Units \cup {Nothing}]
        BY DEF DeviceInv, DeviceType
      <3>2. holds' = [holds EXCEPT ![w] = Nothing]
        BY DEF Serve
      <3> QED BY <3>1, <3>2
    <2>2. conf' = conf /\ sm' = sm /\ claims' = claims
      BY DEF Serve
    <2>3. status' \in [Units -> {"out", "pending", "resident", "claiming",
                                 "left", "cancelled"}]
      BY DEF DeviceInv, DeviceType, Serve
    <2> QED BY <1>12, <2>1, <2>2, <2>3, <2>4 DEF DeviceInv, DeviceType
  <1>5. Claimed' = Claimed /\ Grid' = Grid /\ claims' = claims
    BY DEF Serve, Claimed, Grid
  <1>6. \A v \in Units : Held(v)' <=> Held(v) /\ v # u
    <2>1. \A v \in Units : holds'[v] = IF v = w THEN Nothing ELSE holds[v]
      BY DEF Serve, DeviceInv, DeviceType
    <2> QED BY <1>1, <1>2, <2>1, UnitsNat DEF Held, OneHolder
  <1>7. ASSUME NEW v \in Units PROVE UnitInv(v)'
    <2>1. visits'[v] = IF v = u THEN 1 ELSE visits[v]
      BY <1>2, <1>3 DEF Serve, DeviceInv, DeviceType
    <2>2. status[w] = "resident"
          /\ status'[v] = (IF v # w THEN status[v]
                           ELSE IF Participates(w) THEN "claiming" ELSE "left")
          /\ holds'[v] = (IF v = w THEN Nothing ELSE holds[v])
          /\ sm'[v] = sm[v]
      BY DEF Serve, DeviceInv, DeviceType
    <2>3. UnitInv(v)
      BY <1>1
    <2> QED BY <1>3, <1>5, <1>6, <2>1, <2>2, <2>3 DEF UnitInv
  <1>8. OneHolder'
    BY <1>1 DEF OneHolder, Serve, DeviceInv, DeviceType
  <1>9. OneClaim'
    BY <1>1, <1>5 DEF OneClaim
  <1>10. ASSUME NEW v \in Units PROVE TallyInv(v)'
    <2>1. stats[v].attempts \in Nat /\ stats[v].successes \in Nat
          /\ stats[v].processed \in Nat
      BY <1>0 DEF Tallies
    <2>2. TallyInv(v) /\ Participates(v)' = Participates(v)
      BY <1>1 DEF Serve, Participates
    <2>3. CASE v = w
      <3>1. status[w] = "resident" /\ status'[w] = (IF Participates(w) THEN "claiming" ELSE "left")
        BY DEF Serve, DeviceInv, DeviceType
      <3> QED BY <1>12, <2>1, <2>2, <2>3, <3>1 DEF TallyInv
    <2>4. CASE v # w
      <3>1. status'[v] = status[v]
        BY <2>4 DEF Serve, DeviceInv, DeviceType
      <3> QED BY <1>12, <2>2, <2>4, <3>1 DEF TallyInv
    <2> QED BY <2>3, <2>4
  <1> QED BY <1>4, <1>7, <1>8, <1>9, <1>10, GridPartsNext

(* A claim moves one raw id from the pending ones to its worker.            *)
LEMMA ClaimKeeps ==
  ASSUME DeviceInv, NEW w \in Units, NEW u \in Units, Claim(w, u)
  PROVE  DeviceInv'
  <1>1. /\ \A v \in Units : UnitInv(v)
        /\ OneHolder /\ OneClaim /\ \A v \in Units : TallyInv(v)
    BY GridParts DEF DeviceInv
  <1>2. /\ status[u] = "pending" /\ ~Held(u) /\ u \notin Claimed
        /\ status[w] = "claiming" /\ holds[w] = Nothing /\ w # u
    BY <1>1 DEF Claim, Pending, UnitInv
  <1> DEFINE r == [worker |-> w, unit |-> u]
  <1>3. r \in ClaimRecords /\ r.unit = u
    BY DEF ClaimRecords
  <1>4. claims \in Seq(ClaimRecords) /\ claims' = Append(claims, r)
    BY DEF Claim, DeviceInv, DeviceType
  <1>5. /\ claims' \in Seq(ClaimRecords)
        /\ Len(claims) \in Nat /\ DOMAIN claims = 1 .. Len(claims)
        /\ DOMAIN claims' = 1 .. (Len(claims) + 1)
        /\ \A i \in 1 .. Len(claims) : claims'[i] = claims[i]
        /\ claims'[Len(claims) + 1] = r
    BY <1>3, <1>4, AppendProperties, LenProperties
  <1>0. stats \in [Units -> Tallies]
    BY DEF DeviceInv, DeviceType
  <1>15. /\ stats' \in [Units -> Tallies]
         /\ \A v \in Units : v # w => stats'[v] = stats[v]
         /\ stats'[w].processed = stats[w].processed
         /\ stats'[w].attempts = stats[w].attempts + 1
         /\ stats'[w].successes = stats[w].successes + 1
    <2>1. stats' = [stats EXCEPT ![w].attempts = stats[w].attempts + 1,
                                  ![w].successes = stats[w].successes + 1]
      BY DEF Claim
    <2> QED BY <1>0, <2>1 DEF Tallies
  <1>6. DeviceType'
    <2>1. holds' \in [Units -> Units \cup {Nothing}]
      BY DEF DeviceInv, DeviceType, Claim
    <2>2. conf' = conf /\ sm' = sm /\ visits' = visits
      BY DEF Claim
    <2>3. status' \in [Units -> {"out", "pending", "resident", "claiming",
                                 "left", "cancelled"}]
      BY DEF DeviceInv, DeviceType, Claim
    <2> QED BY <1>5, <1>15, <2>1, <2>2, <2>3 DEF DeviceInv, DeviceType
  <1>7. Claimed' = Claimed \cup {u} /\ Grid' = Grid
    <2>1. {claims'[i].unit : i \in DOMAIN claims'}
            = {claims[i].unit : i \in DOMAIN claims} \cup {u}
      BY <1>3, <1>5
    <2>2. conf' = conf
      BY DEF Claim
    <2> QED BY <2>1, <2>2 DEF Claimed, Grid
  <1>8. \A v \in Units : holds'[v] = IF v = w THEN u ELSE holds[v]
    BY DEF Claim, DeviceInv, DeviceType
  <1>9. \A v \in Units : Held(v)' <=> Held(v) \/ v = u
    BY <1>2, <1>8, UnitsNat DEF Held
  <1>10. ASSUME NEW v \in Units PROVE UnitInv(v)'
    <2>1. /\ status'[v] = (IF v = w THEN "resident"
                           ELSE IF v = u THEN "cancelled" ELSE status[v])
          /\ sm'[v] = sm[v] /\ visits'[v] = visits[v]
      BY <1>2 DEF Claim, DeviceInv, DeviceType
    <2>2. UnitInv(v)
      BY <1>1
    <2> QED BY <1>2, <1>7, <1>8, <1>9, <2>1, <2>2, UnitsNat DEF UnitInv
  <1>11. OneHolder'
    BY <1>1, <1>2, <1>8 DEF OneHolder, Held
  <1>12. OneClaim'
    <2>1. \A i \in 1 .. Len(claims) : claims[i].unit # u
      BY <1>2, <1>5 DEF Claimed
    <2> QED BY <1>1, <1>3, <1>5, <2>1 DEF OneClaim
  <1>13. ASSUME NEW v \in Units PROVE TallyInv(v)'
    <2>1. stats[v].attempts \in Nat /\ stats[v].successes \in Nat
          /\ stats[v].processed \in Nat
      BY <1>0 DEF Tallies
    <2>2. TallyInv(v) /\ Participates(v)' = Participates(v)
      BY <1>1 DEF Claim, Participates
    <2>3. CASE v = w
      <3>1. status[w] = "claiming" /\ status'[w] = "resident"
        BY DEF Claim, DeviceInv, DeviceType
      <3> QED BY <1>15, <2>1, <2>2, <2>3, <3>1 DEF TallyInv
    <2>4. CASE v # w
      <3>1. status'[v] = (IF v = u THEN "cancelled" ELSE status[v])
        BY <2>4 DEF Claim, DeviceInv, DeviceType
      <3> QED BY <1>15, <2>2, <2>4, <3>1, <1>2 DEF TallyInv
    <2> QED BY <2>3, <2>4
  <1> QED BY <1>6, <1>10, <1>11, <1>12, <1>13, GridPartsNext

(* A claim that fails changes no raw id.                                    *)
LEMMA FailKeeps ==
  ASSUME DeviceInv, NEW w \in Units, Fail(w)
  PROVE  DeviceInv'
  <1>1. /\ \A v \in Units : UnitInv(v)
        /\ OneHolder /\ OneClaim /\ \A v \in Units : TallyInv(v)
    BY GridParts DEF DeviceInv
  <1>0. stats \in [Units -> Tallies]
    BY DEF DeviceInv, DeviceType
  <1>12. /\ stats' \in [Units -> Tallies]
         /\ \A v \in Units : v # w => stats'[v] = stats[v]
         /\ stats'[w].processed = stats[w].processed
         /\ stats'[w].attempts = stats[w].attempts + 1
         /\ stats'[w].successes = stats[w].successes
    <2>1. stats' = [stats EXCEPT ![w].attempts = stats[w].attempts + 1]
      BY DEF Fail
    <2> QED BY <1>0, <2>1, TallyFail
  <1>2. DeviceType'
    <2>1. status' \in [Units -> {"out", "pending", "resident", "claiming",
                                 "left", "cancelled"}]
      BY DEF DeviceInv, DeviceType, Fail
    <2>2. /\ conf' = conf /\ holds' = holds /\ sm' = sm /\ visits' = visits
          /\ claims' = claims
      BY DEF Fail
    <2> QED BY <1>12, <2>1, <2>2 DEF DeviceInv, DeviceType
  <1>3. Claimed' = Claimed /\ Grid' = Grid /\ claims' = claims /\ holds' = holds
    BY DEF Fail, Claimed, Grid
  <1>4. \A v \in Units : Held(v)' <=> Held(v)
    BY <1>3 DEF Held
  <1>5. ASSUME NEW v \in Units PROVE UnitInv(v)'
    BY <1>1, <1>3, <1>4 DEF UnitInv, Fail, DeviceInv, DeviceType
  <1>6. OneHolder' /\ OneClaim'
    BY <1>1, <1>3 DEF OneHolder, OneClaim
  <1>7. ASSUME NEW v \in Units PROVE TallyInv(v)'
    <2>1. stats[v].attempts \in Nat /\ stats[v].successes \in Nat
          /\ stats[v].processed \in Nat
      BY <1>0 DEF Tallies
    <2>2. TallyInv(v) /\ Participates(v)' = Participates(v)
      BY <1>1 DEF Fail, Participates
    <2>3. CASE v = w
      <3>1. status[w] = "claiming" /\ status'[w] = "left"
        BY DEF Fail, DeviceInv, DeviceType
      <3> QED BY <1>12, <2>1, <2>2, <2>3, <3>1 DEF TallyInv
    <2>4. CASE v # w
      <3>1. status'[v] = status[v]
        BY <2>4 DEF Fail, DeviceInv, DeviceType
      <3> QED BY <1>12, <2>2, <2>4, <3>1 DEF TallyInv
    <2> QED BY <2>3, <2>4
  <1> QED BY <1>2, <1>5, <1>6, <1>7, GridPartsNext

-----------------------------------------------------------------------------
(* The sweeps. *)

SweepInv ==
  /\ DeviceInv
  /\ todo \in Seq(Suites) /\ plan \in Seq(Shots)
  /\ exit = "running" => todo # <<>>
  /\ probing => plan # <<>>

(* Before the first suite nothing has been launched or written. *)
LEMMA SweepInit == Init => SweepInv
  <1> SUFFICES ASSUME Init PROVE SweepInv
    OBVIOUS
  <1>1. conf.units = 0 /\ Grid = {}
    BY DEF Init, Cfg, Grid
  <1>2. Claimed = {} /\ DOMAIN claims = {}
    BY DEF Init, Claimed
  <1>3. DeviceType
    BY <1>1, UnitsNat DEF Init, DeviceType, Fresh, Tallies, Nothing
  <1>4. \A u \in Units : ~Held(u)
    BY UnitsNat DEF Init, Held
  <1>5. \A u \in Units : UnitInv(u)
    BY <1>1, <1>2, <1>4 DEF Init, UnitInv
  <1>6. OneHolder /\ OneClaim
    BY <1>2 DEF Init, OneHolder, OneClaim
  <1>7. \A w \in Units : TallyInv(w)
    BY DEF Init, TallyInv, Fresh
  <1>8. GridInv
    BY <1>3, <1>5, <1>6, <1>7, GridParts
  <1>9. todo \in Seq(Suites) /\ todo # <<>> /\ Head(RunAll) \in Suites
    BY DEF Init, RunAll, Suites
  <1>10. plan \in Seq(Shots)
    BY <1>9, PlanType DEF Init
  <1>11. ~probing
    BY DEF Init
  <1> QED BY <1>3, <1>8, <1>9, <1>10, <1>11 DEF SweepInv, DeviceInv

(* A step of the harness that is no launch leaves the device alone.         *)
LEMMA DeviceStays ==
  ASSUME DeviceInv, UNCHANGED device
  PROVE  DeviceInv'
  <1>1. /\ Grid' = Grid /\ Claimed' = Claimed /\ conf' = conf
        /\ status' = status /\ holds' = holds /\ sm' = sm
        /\ visits' = visits /\ claims' = claims /\ stats' = stats
    BY DEF device, Grid, Claimed
  <1>2. \A u \in Units : Held(u)' <=> Held(u)
    BY <1>1 DEF Held
  <1>3. \A u \in Units : Participates(u)' <=> Participates(u)
    BY <1>1 DEF Participates
  <1>4. /\ DeviceType /\ \A v \in Units : UnitInv(v)
        /\ OneHolder /\ OneClaim /\ \A v \in Units : TallyInv(v)
    BY GridParts DEF DeviceInv
  <1>5. DeviceType' /\ OneHolder' /\ OneClaim'
    BY <1>1, <1>4 DEF DeviceType, OneHolder, OneClaim
  <1>6. \A v \in Units : UnitInv(v)'
    BY <1>1, <1>2, <1>4 DEF UnitInv
  <1>7. \A v \in Units : TallyInv(v)'
    BY <1>1, <1>3, <1>4 DEF TallyInv
  <1> QED BY <1>5, <1>6, <1>7, GridPartsNext

(* Every step of the device, of a suite and of the script preserves SweepInv. *)
LEMMA SweepNext == SweepInv /\ [Next]_vars => SweepInv'
  <1> SUFFICES ASSUME SweepInv, [Next]_vars PROVE SweepInv'
    OBVIOUS
  <1>0. /\ DeviceInv /\ todo \in Seq(Suites) /\ plan \in Seq(Shots)
        /\ exit = "running" => todo # <<>>
        /\ probing => plan # <<>>
    BY DEF SweepInv
  <1>1. ASSUME Collected PROVE SweepInv'
    <2>1. DeviceInv'
      BY <1>0, <1>1, DeviceStays DEF Collected
    <2>2. plan' \in Seq(Shots)
      <3>1. plan # <<>>
        BY <1>0, <1>1 DEF Collected
      <3> QED BY <1>0, <1>1, <3>1, HeadTailProperties DEF Collected
    <2> QED BY <1>0, <1>1, <2>1, <2>2 DEF Collected, SweepInv
  <1>2. CASE StartProbe
    <2> DEFINE c == Head(plan).conf
    <2>1. c \in Launches
      <3>1. Head(plan) \in Shots
        BY <1>0, <1>2, HeadTailProperties DEF StartProbe
      <3> QED BY <3>1 DEF Shots
    <2>2. PICK g \in Behaviours(Suite, c) : \E p \in Placements(c, g) : Launch(c, g, p)
      BY <1>2 DEF StartProbe
    <2>3. PICK p \in Placements(c, g) : Launch(c, g, p)
      BY <2>2
    <2>4. DeviceInv'
      <3> HIDE DEF c
      <3> QED BY <2>1, <2>3, LaunchStarts
    <2> QED BY <1>0, <1>2, <2>4 DEF StartProbe, SweepInv
  <1>3. CASE probing /\ Gpu /\ UNCHANGED harness
    <2>1. PICK w \in Units : \/ \E s \in 0 .. (SMs - 1) : Admit(w, s)
                             \/ Serve(w)
                             \/ \E u \in Units : Claim(w, u)
                             \/ Fail(w)
      BY <1>3 DEF Gpu
    <2>2. DeviceInv'
      BY <1>0, <2>1, AdmitKeeps, ServeKeeps, ClaimKeeps, FailKeeps
    <2> QED BY <1>0, <1>3, <2>2 DEF harness, SweepInv
  <1>4. CASE ProbeFails
    <2>1. DeviceInv'
      BY <1>0, <1>4, DeviceStays DEF ProbeFails
    <2> QED BY <1>0, <1>4, <2>1 DEF ProbeFails, SweepInv
  <1>5. CASE Predict
    BY <1>1, <1>5 DEF Predict
  <1>6. CASE Capture
    BY <1>1, <1>6 DEF Capture
  <1>7. CASE Validate
    BY <1>1, <1>7 DEF Validate
  <1>8. CASE Report
    <2>1. DeviceInv'
      BY <1>0, <1>8, DeviceStays DEF Report
    <2>2. exit = "running" /\ todo # <<>>
      BY <1>0, <1>8 DEF Report
    <2>3. todo' = Tail(todo) /\ Tail(todo) \in Seq(Suites)
      BY <1>0, <1>8, <2>2, HeadTailProperties DEF Report
    <2>4. exit' = "running" => Tail(todo) # <<>>
      BY <1>8 DEF Report
    <2>5. plan' = IF exit' = "running" THEN Plan(Head(Tail(todo))) ELSE <<>>
      BY <1>8 DEF Report
    <2>6. exit' = "running" => Head(Tail(todo)) \in Suites
      BY <2>3, <2>4, HeadTailProperties
    <2>7. plan' \in Seq(Shots)
      <3>1. CASE exit' = "running"
        BY <2>5, <2>6, <3>1, PlanType
      <3>2. CASE exit' # "running"
        BY <2>5, <3>2
      <3> QED BY <3>1, <3>2
    <2> QED BY <2>1, <2>3, <2>4, <2>7, <1>8 DEF SweepInv, Report
  <1>9. CASE UNCHANGED vars
    <2>1. UNCHANGED device /\ UNCHANGED <<todo, plan, probing, exit>>
      BY <1>9 DEF vars, harness
    <2> QED BY <1>0, <2>1, DeviceStays DEF SweepInv
  <1> QED
    BY <1>2, <1>3, <1>4, <1>5, <1>6, <1>7, <1>8, <1>9 DEF Next

(* So SweepInv holds throughout. *)
LEMMA SweepAlways == Spec => []SweepInv
  BY SweepInit, SweepNext, PTL DEF Spec

(* In every launch of every sweep each cluster of the grid is launched,     *)
(* cancelled or pending and only that, its raw id is held or served once,   *)
(* and the counters of each worker say how far it is.                       *)
THEOREM LaunchBookkeeping == Spec => []GridInv
  <1>1. SweepInv => GridInv
    BY DEF SweepInv, DeviceInv
  <1> QED BY SweepAlways, <1>1, PTL

(* Whatever wave the hardware launches, whichever claims it declines, and   *)
(* whichever CTAs take part: no raw id is served twice, and when every CTA  *)
(* has returned each raw id of the grid has been served.                    *)
THEOREM ClaimsServeOnce == Spec => []ExactlyOnce
  <1>1. SweepInv => ExactlyOnce
    <2> SUFFICES ASSUME SweepInv PROVE ExactlyOnce
      OBVIOUS
    <2>1. /\ DeviceType /\ \A u \in Units : UnitInv(u)
      BY GridParts DEF SweepInv, DeviceInv
    <2>2. \A u \in Units : visits[u] <= 1
      BY <2>1 DEF UnitInv
    <2>3. ASSUME Done, NEW u \in Grid PROVE visits[u] = 1
      <3>1. u \in Units
        BY <2>1 DEF Grid, Units, DeviceType
      <3>2. \A w \in Units : status[w] \notin {"pending", "resident", "claiming"}
        BY <2>3 DEF Done, Live, Pending
      <3>3. status[u] \notin {"out", "pending"}
        BY <2>1, <2>3, <3>1, <3>2 DEF UnitInv
      <3>4. ~Held(u)
        BY <2>1, <3>1, <3>2, UnitsNat DEF Held, UnitInv
      <3> QED BY <2>1, <3>1, <3>3, <3>4 DEF UnitInv
    <2> QED BY <2>2, <2>3 DEF ExactlyOnce
  <1> QED BY SweepAlways, <1>1, PTL

-----------------------------------------------------------------------------
(* What status 0 means. *)

ZeroInv ==
  /\ todo # <<>> => todo[Len(todo)] = "pressure"
  /\ exit = "ok" => \A s \in DOMAIN files : AllOk(files[s])

(* A script that has not ended has not ended with 0. *)
LEMMA ZeroInit == Init => ZeroInv
  <1> SUFFICES ASSUME Init PROVE ZeroInv
    OBVIOUS
  <1>1. todo = RunAll /\ exit = "running"
    BY DEF Init
  <1>2. Len(RunAll) = 13 /\ RunAll[13] = "pressure"
    BY DEF RunAll
  <1> QED BY <1>1, <1>2 DEF ZeroInv

(* Only the report of the last suite ends the script with 0: that suite     *)
(* ends its Python script too, so no report may hold an invalid row.        *)
LEMMA ZeroNext == SweepInv /\ ZeroInv /\ [Next]_vars => ZeroInv'
  <1> SUFFICES ASSUME SweepInv, ZeroInv, [Next]_vars PROVE ZeroInv'
    OBVIOUS
  <1>1. CASE Report
    <2>1. exit = "running" /\ todo \in Seq(Suites) /\ todo # <<>>
      BY <1>1 DEF Report, SweepInv
    <2>2. /\ todo' = Tail(todo) /\ Tail(todo) \in Seq(Suites)
          /\ Len(Tail(todo)) = Len(todo) - 1 /\ Len(todo) \in Nat
          /\ \A i \in 1 .. Len(Tail(todo)) : Tail(todo)[i] = todo[i + 1]
      BY <1>1, <2>1, HeadTailProperties, LenProperties DEF Report
    <2>3. Tail(todo) # <<>> => Len(Tail(todo)) \in 1 .. Len(Tail(todo))
      BY <2>2, EmptySeq, LenProperties
    <2>4. todo' # <<>> => todo'[Len(todo')] = "pressure"
      BY <2>1, <2>2, <2>3 DEF ZeroInv
    <2>5. ASSUME exit' = "ok" PROVE \A s \in DOMAIN files' : AllOk(files'[s])
      <3>1. Tail(todo) = <<>>
        BY <1>1, <2>1, <2>5 DEF Report
      <3>2. Len(todo) = 1 /\ Head(todo) = todo[1]
        <4>1. Len(Tail(todo)) = 0
          BY <2>2, <3>1, EmptySeq
        <4>2. Len(todo) = 1
          BY <2>2, <4>1
        <4> QED BY <4>2
      <3>3. Suite = "pressure"
        BY <2>1, <3>2 DEF Suite, ZeroInv
      <3>4. EndsScript(Suite)
        BY <3>3 DEF EndsScript
      <3>5. ~ \E s \in DOMAIN files' : ~AllOk(files'[s])
        BY <1>1, <2>5, <3>4 DEF Report
      <3> QED BY <3>5
    <2> QED BY <2>4, <2>5 DEF ZeroInv
  <1>2. CASE UNCHANGED <<todo, files, exit>>
    BY <1>2 DEF ZeroInv
  <1>3. CASE ProbeFails
    BY <1>3 DEF ZeroInv, ProbeFails
  <1> QED
    BY <1>1, <1>2, <1>3 DEF Next, vars, harness, StartProbe, Predict, Capture,
       Validate, Collected

(* If run_all_sweeps.sh gets a status of 0 from every sweep, then every     *)
(* report holds valid rows only, those of a suite that did not end its      *)
(* Python script included.                                                  *)
THEOREM ZeroMeansValid ==
  Spec => [](exit = "ok" => \A s \in DOMAIN files : AllOk(files[s]))
  <1>1. ZeroInv => (exit = "ok" => \A s \in DOMAIN files : AllOk(files[s]))
    BY DEF ZeroInv
  <1>2. Spec => []ZeroInv
    BY SweepAlways, ZeroInit, ZeroNext, PTL DEF Spec
  <1> QED BY <1>1, <1>2, PTL

-----------------------------------------------------------------------------
(* The counters of a launch. *)

Started == {"resident", "claiming", "left"}
Served == {u \in Units : visits[u] = 1}
Tally(counter) == [w \in Units |-> stats[w][counter]]

OnDevice == \A w \in Units : sm[w] \in (0 .. (SMs - 1)) \cup {Nothing}

(* A cluster that never ran has counted nothing; the raw ids served and the *)
(* claims made add up; a claim was made by a cluster that ran; an SM is one *)
(* of the device.                                                           *)
CountInv ==
  /\ \A w \in Units : status[w] \notin Started => stats[w] = Fresh
  /\ Total("processed") = Cardinality(Served)
  /\ Total("successes") = Len(claims)
  /\ \A i \in DOMAIN claims : status[claims[i].worker] \in Started
  /\ OnDevice

(* What is in the list of the claims.                                       *)
LEMMA ClaimsAre ==
  ASSUME NEW s \in Seq(ClaimRecords)
  PROVE  /\ Len(s) \in Nat /\ DOMAIN s = 1 .. Len(s)
         /\ \A i \in DOMAIN s : s[i].worker \in Units /\ s[i].unit \in Units
  <1>1. Len(s) \in Nat /\ DOMAIN s = 1 .. Len(s)
    BY LenProperties
  <1>2. ASSUME NEW i \in 1 .. Len(s) PROVE s[i] \in ClaimRecords
    BY ElementOfSeq
  <1> QED BY <1>1, <1>2 DEF ClaimRecords

(* The sets that are counted are finite.                                    *)
LEMMA UnitsFinite ==
  /\ IsFiniteSet(Units) /\ Cardinality(Units) = MaxUnits
  /\ \A S \in SUBSET Units : IsFiniteSet(S) /\ Cardinality(S) \in Nat
  <1>1. IsFiniteSet(Units) /\ Cardinality(Units) = MaxUnits
    BY FS_Interval DEF Units
  <1>2. ASSUME NEW S \in SUBSET Units
        PROVE  IsFiniteSet(S) /\ Cardinality(S) \in Nat
    BY <1>1, FS_Subset, FS_CardinalityType
  <1> QED BY <1>1, <1>2

(* Each counter of the workers is a function to numbers, as the sums need it. *)
LEMMA TallyType ==
  ASSUME NEW f \in [Units -> Tallies]
  PROVE  /\ [w \in Units |-> f[w].processed] \in [Units -> Int]
         /\ [w \in Units |-> f[w].successes] \in [Units -> Int]
         /\ [w \in Units |-> f[w].attempts] \in [Units -> Int]
  BY DEF Tallies

(* The totals a row prints are sums over all workers. *)
LEMMA TotalsAre ==
  /\ Total("processed") = SumFunction([w \in Units |-> stats[w].processed])
  /\ Total("successes") = SumFunction([w \in Units |-> stats[w].successes])
  /\ Total("attempts") = SumFunction([w \in Units |-> stats[w].attempts])
  BY DEF Total

(* The same of the totals after a step. *)
LEMMA TotalsAreNext ==
  /\ Total("processed")' = SumFunction([w \in Units |-> stats'[w].processed])
  /\ Total("successes")' = SumFunction([w \in Units |-> stats'[w].successes])
  /\ Total("attempts")' = SumFunction([w \in Units |-> stats'[w].attempts])
  BY DEF Total

(* Counters that are all zero add up to zero.                               *)
LEMMA NothingCounted ==
  ASSUME NEW F \in [Units -> Int], \A w \in Units : F[w] = 0
  PROVE  SumFunction(F) = 0
  <1>1. SumFunction(F) = 0 * Cardinality(Units)
    BY UnitsFinite, SumConstant
  <1> QED BY <1>1, UnitsFinite

(* Nothing is counted when a launch begins.                                 *)
Cleared ==
  /\ stats = [u \in Units |-> Fresh] /\ visits = [u \in Units |-> 0]
  /\ claims = <<>> /\ OnDevice

(* On a cleared device nothing has been counted and nothing has been done. *)
LEMMA CountStarts == Cleared => CountInv
  <1> SUFFICES ASSUME Cleared PROVE CountInv
    OBVIOUS
  <1>1. stats \in [Units -> Tallies] /\ \A w \in Units : stats[w] = Fresh
    BY DEF Cleared, Fresh, Tallies
  <1>2. Total("processed") = 0
    <2> DEFINE F == [w \in Units |-> stats[w].processed]
    <2>1. F \in [Units -> Int] /\ \A w \in Units : F[w] = 0
      BY <1>1 DEF Fresh
    <2> HIDE DEF F
    <2>2. SumFunction(F) = 0
      BY <2>1, NothingCounted
    <2> QED BY <2>2, TotalsAre DEF F
  <1>3. Total("successes") = 0
    <2> DEFINE F == [w \in Units |-> stats[w].successes]
    <2>1. F \in [Units -> Int] /\ \A w \in Units : F[w] = 0
      BY <1>1 DEF Fresh
    <2> HIDE DEF F
    <2>2. SumFunction(F) = 0
      BY <2>1, NothingCounted
    <2> QED BY <2>2, TotalsAre DEF F
  <1>4. Served = {} /\ Cardinality(Served) = 0
    <2>1. Served = {}
      BY DEF Cleared, Served
    <2> QED BY <2>1, FS_EmptySet
  <1>5. claims = <<>> /\ OnDevice
    BY DEF Cleared
  <1> QED BY <1>1, <1>2, <1>3, <1>4, <1>5 DEF CountInv

(* A launch starts from a cleared device. *)
LEMMA CountLaunch ==
  ASSUME NEW c, NEW g, NEW p \in Placements(c, g), Launch(c, g, p)
  PROVE  CountInv'
  <1>1. Cleared'
    <2>1. \A u \in DOMAIN p : p[u] \in 0 .. (SMs - 1)
      BY DEF Placements
    <2>2. \A u \in Units : sm'[u] = IF u \in DOMAIN p THEN p[u] ELSE Nothing
      BY DEF Launch
    <2>3. OnDevice'
      BY <2>1, <2>2 DEF OnDevice
    <2> QED BY <2>3 DEF Launch, Cleared
  <1>2. Cleared' => CountInv'
    BY CountStarts, PTL
  <1> QED BY <1>1, <1>2

(* Serving a raw id that nobody has served counts one more on both sides.   *)
LEMMA CountServe ==
  ASSUME DeviceInv, CountInv, NEW w \in Units, Serve(w)
  PROVE  CountInv'
  <1>0. DeviceType /\ DeviceType' /\ stats \in [Units -> Tallies]
        /\ stats' \in [Units -> Tallies]
    BY ServeKeeps DEF DeviceInv, DeviceType
  <1>1. /\ \A v \in Units : UnitInv(v)
    BY GridParts DEF DeviceInv
  <1>2. PICK u \in Units : holds[w] = u
    BY <1>1 DEF Serve, UnitInv, DeviceInv, DeviceType
  <1>3. Held(u) /\ visits[u] = 0
    BY <1>1, <1>2 DEF Held, UnitInv
  <1>4. /\ \A v \in Units : v # w => stats'[v] = stats[v]
        /\ stats'[w].processed = stats[w].processed + 1
        /\ stats'[w].successes = stats[w].successes
    <2>1. stats' = [stats EXCEPT ![w].processed = stats[w].processed + 1]
      BY DEF Serve
    <2> QED BY <1>0, <2>1, TallyServe
  <1>5. Served' = Served \cup {u} /\ u \notin Served
    <2>1. \A v \in Units : visits'[v] = IF v = u THEN 1 ELSE visits[v]
      BY <1>0, <1>2, <1>3 DEF Serve, DeviceType
    <2> QED BY <1>3, <2>1 DEF Served
  <1>6. Cardinality(Served') = Cardinality(Served) + 1
    <2>1. IsFiniteSet(Served)
      BY UnitsFinite DEF Served
    <2> QED BY <1>5, <2>1, FS_AddElement
  <1>7. Total("processed")' = Total("processed") + 1
    <2> DEFINE F == [v \in Units |-> stats[v].processed]
               G == [v \in Units |-> stats'[v].processed]
    <2>1. F \in [Units -> Int] /\ G \in [Units -> Int]
      BY <1>0, TallyType
    <2>2. G[w] = F[w] + 1 /\ \A y \in Units \ {w} : G[y] = F[y]
      BY <1>4
    <2> HIDE DEF F, G
    <2>3. SumFunction(G) = SumFunction(F) + 1
      BY <2>1, <2>2, UnitsFinite, SumGrows
    <2> QED BY <2>3, TotalsAre, TotalsAreNext DEF F, G
  <1>8. Total("successes")' = Total("successes")
    <2>1. \A v \in Units : stats'[v].successes = stats[v].successes
      BY <1>4
    <2>2. [v \in Units |-> stats'[v].successes]
            = [v \in Units |-> stats[v].successes]
      BY <2>1
    <2> QED BY <2>2, TotalsAre, TotalsAreNext
  <1>9. claims' = claims
    BY DEF Serve
  <1>10. \A v \in Units : status'[v] \in Started <=> status[v] \in Started
    BY <1>0 DEF Serve, DeviceType, Started
  <1>11. \A v \in Units : status'[v] \notin Started => stats'[v] = Fresh
    <2>1. status[w] \in Started
      BY DEF Serve, Started
    <2> QED BY <1>4, <1>10, <2>1 DEF CountInv
  <1>12. \A i \in DOMAIN claims : claims[i].worker \in Units
    BY <1>0, ClaimsAre DEF DeviceType
  <1>13. OnDevice'
    BY DEF Serve, CountInv, OnDevice
  <1> QED
    BY <1>6, <1>7, <1>8, <1>9, <1>10, <1>11, <1>12, <1>13 DEF CountInv

(* A claim counts one more, and its worker ran.                             *)
LEMMA CountClaim ==
  ASSUME DeviceInv, CountInv, NEW w \in Units, NEW u \in Units, Claim(w, u)
  PROVE  CountInv'
  <1>0. DeviceType /\ DeviceType' /\ stats \in [Units -> Tallies]
        /\ stats' \in [Units -> Tallies]
    BY ClaimKeeps DEF DeviceInv, DeviceType
  <1>1. u # w /\ status[u] = "pending" /\ status[w] = "claiming"
    BY DEF Claim, Pending
  <1>4. /\ \A v \in Units : v # w => stats'[v] = stats[v]
        /\ stats'[w].processed = stats[w].processed
        /\ stats'[w].successes = stats[w].successes + 1
    <2>1. stats' = [stats EXCEPT ![w].attempts = stats[w].attempts + 1,
                                  ![w].successes = stats[w].successes + 1]
      BY DEF Claim
    <2> QED BY <1>0, <2>1 DEF Tallies
  <1>5. Served' = Served
    BY DEF Claim, Served
  <1>6. Total("processed")' = Total("processed")
    <2>1. \A v \in Units : stats'[v].processed = stats[v].processed
      BY <1>4
    <2>2. [v \in Units |-> stats'[v].processed]
            = [v \in Units |-> stats[v].processed]
      BY <2>1
    <2> QED BY <2>2, TotalsAre, TotalsAreNext
  <1>7. Total("successes")' = Total("successes") + 1
    <2> DEFINE F == [v \in Units |-> stats[v].successes]
               G == [v \in Units |-> stats'[v].successes]
    <2>1. F \in [Units -> Int] /\ G \in [Units -> Int]
      BY <1>0, TallyType
    <2>2. G[w] = F[w] + 1 /\ \A y \in Units \ {w} : G[y] = F[y]
      BY <1>4
    <2> HIDE DEF F, G
    <2>3. SumFunction(G) = SumFunction(F) + 1
      BY <2>1, <2>2, UnitsFinite, SumGrows
    <2> QED BY <2>3, TotalsAre, TotalsAreNext DEF F, G
  <1> DEFINE r == [worker |-> w, unit |-> u]
  <1>8. /\ claims' = Append(claims, r) /\ r \in ClaimRecords /\ r.worker = w
        /\ claims \in Seq(ClaimRecords)
    BY <1>0 DEF Claim, ClaimRecords, DeviceType
  <1> HIDE DEF r
  <1>9. /\ Len(claims') = Len(claims) + 1 /\ Len(claims) \in Nat
        /\ DOMAIN claims = 1 .. Len(claims)
        /\ DOMAIN claims' = 1 .. (Len(claims) + 1)
        /\ \A i \in 1 .. Len(claims) : claims'[i] = claims[i]
        /\ claims'[Len(claims) + 1] = r
    BY <1>8, AppendProperties, LenProperties
  <1>10. \A v \in Units : status'[v] \in Started <=> status[v] \in Started
    <2>1. \A v \in Units : status'[v] = (IF v = w THEN "resident"
                           ELSE IF v = u THEN "cancelled" ELSE status[v])
      BY <1>0, <1>1 DEF Claim, DeviceType
    <2> QED BY <1>1, <2>1 DEF Started
  <1>11. \A v \in Units : status'[v] \notin Started => stats'[v] = Fresh
    <2>1. status[w] \in Started
      BY <1>1 DEF Started
    <2> QED BY <1>4, <1>10, <2>1 DEF CountInv
  <1>12. \A i \in 1 .. Len(claims) : claims[i].worker \in Units
    BY <1>8, <1>9, ClaimsAre
  <1>13. \A i \in DOMAIN claims' : status'[claims'[i].worker] \in Started
    <2>1. ASSUME NEW i \in 1 .. Len(claims)
          PROVE  status'[claims'[i].worker] \in Started
      BY <1>9, <1>10, <1>12 DEF CountInv
    <2>2. status'[claims'[Len(claims) + 1].worker] \in Started
      BY <1>1, <1>8, <1>9, <1>10 DEF Started
    <2> QED BY <1>9, <2>1, <2>2
  <1>14. OnDevice'
    BY DEF Claim, CountInv, OnDevice
  <1> QED
    BY <1>5, <1>6, <1>7, <1>9, <1>11, <1>13, <1>14 DEF CountInv

(* An admission counts nothing.                                             *)
LEMMA CountAdmit ==
  ASSUME DeviceInv, CountInv, NEW u \in Units, NEW s \in 0 .. (SMs - 1),
         Admit(u, s)
  PROVE  CountInv'
  <1>0. DeviceType
    BY DEF DeviceInv
  <1>1. status[u] = "pending"
    BY DEF Admit, Pending
  <1>2. \A v \in Units : status'[v] = IF v = u THEN "resident" ELSE status[v]
    BY <1>0 DEF Admit, DeviceType
  <1>3. stats' = stats /\ visits' = visits /\ claims' = claims
    BY DEF Admit
  <1>4. \A v \in Units : status[v] \in Started => status'[v] \in Started
    BY <1>2 DEF Started
  <1>5. \A i \in DOMAIN claims : claims[i].worker \in Units
    BY <1>0, ClaimsAre DEF DeviceType
  <1>6. Served' = Served /\ Total("processed")' = Total("processed")
        /\ Total("successes")' = Total("successes")
    BY <1>3 DEF Served, Total
  <1>7. OnDevice'
    <2>1. \A v \in Units : sm'[v] = IF v = u THEN s ELSE sm[v]
      BY <1>0 DEF Admit, DeviceType
    <2> QED BY <2>1 DEF CountInv, OnDevice
  <1> QED BY <1>3, <1>4, <1>5, <1>6, <1>7 DEF CountInv

(* A claim that fails counts an attempt only.                               *)
LEMMA CountFail ==
  ASSUME DeviceInv, CountInv, NEW w \in Units, Fail(w)
  PROVE  CountInv'
  <1>0. DeviceType /\ stats \in [Units -> Tallies]
    BY DEF DeviceInv, DeviceType
  <1>1. status[w] = "claiming"
    BY DEF Fail
  <1>2. \A v \in Units : status'[v] = IF v = w THEN "left" ELSE status[v]
    BY <1>0 DEF Fail, DeviceType
  <1>3. visits' = visits /\ claims' = claims
    BY DEF Fail
  <1>4. /\ \A v \in Units : v # w => stats'[v] = stats[v]
        /\ stats'[w].processed = stats[w].processed
        /\ stats'[w].successes = stats[w].successes
    <2>1. stats' = [stats EXCEPT ![w].attempts = stats[w].attempts + 1]
      BY DEF Fail
    <2> QED BY <1>0, <2>1, TallyFail
  <1>5. \A v \in Units : status[v] \in Started <=> status'[v] \in Started
    BY <1>1, <1>2 DEF Started
  <1>6. \A i \in DOMAIN claims : claims[i].worker \in Units
    BY <1>0, ClaimsAre DEF DeviceType
  <1>7. Total("processed")' = Total("processed")
    <2>1. \A v \in Units : stats'[v].processed = stats[v].processed
      BY <1>4
    <2>2. [v \in Units |-> stats'[v].processed]
            = [v \in Units |-> stats[v].processed]
      BY <2>1
    <2> QED BY <2>2, TotalsAre, TotalsAreNext
  <1>8. Total("successes")' = Total("successes")
    <2>1. \A v \in Units : stats'[v].successes = stats[v].successes
      BY <1>4
    <2>2. [v \in Units |-> stats'[v].successes]
            = [v \in Units |-> stats[v].successes]
      BY <2>1
    <2> QED BY <2>2, TotalsAre, TotalsAreNext
  <1>9. Served' = Served
    BY <1>3 DEF Served
  <1>10. \A v \in Units : status'[v] \notin Started => stats'[v] = Fresh
    <2>1. status[w] \in Started
      BY <1>1 DEF Started
    <2> QED BY <1>4, <1>5, <2>1 DEF CountInv
  <1>11. OnDevice'
    BY DEF Fail, CountInv, OnDevice
  <1> QED BY <1>3, <1>5, <1>6, <1>7, <1>8, <1>9, <1>10, <1>11 DEF CountInv

(* A step of the harness that is no launch counts nothing.                  *)
LEMMA CountStays ==
  ASSUME CountInv, UNCHANGED device
  PROVE  CountInv'
  <1>1. /\ status' = status /\ visits' = visits /\ claims' = claims
        /\ stats' = stats /\ sm' = sm
    BY DEF device
  <1>2. Served' = Served /\ Total("processed")' = Total("processed")
        /\ Total("successes")' = Total("successes") /\ (OnDevice' <=> OnDevice)
    BY <1>1 DEF Served, Total, OnDevice
  <1> QED BY <1>1, <1>2 DEF CountInv

(* The steps of the GPU, the launches, and the steps that are neither.      *)
LEMMA StepKinds ==
  ASSUME SweepInv, [Next]_vars
  PROVE  \/ UNCHANGED device
         \/ StartProbe /\ LET c == Head(plan).conf
                          IN \E g \in Behaviours(Suite, c) :
                               /\ c \in Launches
                               /\ \E p \in Placements(c, g) : Launch(c, g, p)
         \/ /\ probing /\ UNCHANGED harness
            /\ \E w \in Units : \/ \E s \in 0 .. (SMs - 1) : Admit(w, s)
                                \/ Serve(w)
                                \/ \E u \in Units : Claim(w, u)
                                \/ Fail(w)
  <1>1. CASE StartProbe
    <2>1. Head(plan).conf \in Launches
      <3>1. Head(plan) \in Shots
        BY <1>1, HeadTailProperties DEF StartProbe, SweepInv
      <3> QED BY <3>1 DEF Shots
    <2> QED BY <1>1, <2>1 DEF StartProbe
  <1>2. CASE probing /\ Gpu /\ UNCHANGED harness
    BY <1>2 DEF Gpu
  <1>3. CASE ProbeFails \/ Predict \/ Capture \/ Validate \/ Report
    BY <1>3 DEF ProbeFails, Predict, Capture, Validate, Collected, Report
  <1>4. CASE UNCHANGED vars
    BY <1>4 DEF vars
  <1> QED BY <1>1, <1>2, <1>3, <1>4 DEF Next

(* Every step preserves what the counters add up to. *)
LEMMA CountNext == SweepInv /\ CountInv /\ [Next]_vars => CountInv'
  <1> SUFFICES ASSUME SweepInv, CountInv, [Next]_vars PROVE CountInv'
    OBVIOUS
  <1>1. DeviceInv
    BY DEF SweepInv
  <1> QED
    BY <1>1, StepKinds, CountStays, CountLaunch, CountAdmit, CountServe,
       CountClaim, CountFail

(* So the counters add up throughout. *)
LEMMA CountAlways == Spec => []CountInv
  <1>1. Init => CountInv
    BY CountStarts DEF Init, Cleared, OnDevice
  <1> QED BY SweepAlways, <1>1, CountNext, PTL DEF Spec

-----------------------------------------------------------------------------
(* What the configurations of a suite have in common. *)

(* One CTA to a cluster but in the cluster suite; every cluster claims but  *)
(* in the participation suite, whose other configuration exceeds R; the     *)
(* mapping suite puts two clusters on an SM.                                *)
Fits(s, c) ==
  /\ c.x = 1 \/ (s = "cluster" /\ c.x = 2)
  /\ c.stride = 1 \/ s = "participation"
  /\ s = "participation" /\ c.stride = 1 => c.units > PredictedR(c)
  /\ s = "mapping" => c.occ = 2

AllFit(s, cs) == \A k \in DOMAIN cs : Fits(s, cs[k])

(* A capture is followed by the row of the same configuration.              *)
Alternates(p, i) ==
  /\ p[i].kind \in {"events", "row"}
  /\ p[i].kind = "events" => i + 1 \in DOMAIN p /\ p[i + 1] = Shot("row", p[i].conf)
  /\ p[i].kind = "row" /\ i + 1 \in DOMAIN p => p[i + 1].kind = "events"

Capturing == {"mapping", "trace"}

PlanFits(s, p) ==
  \A i \in DOMAIN p :
    /\ Fits(s, p[i].conf)
    /\ s \in Capturing => Alternates(p, i)
    /\ s \notin Capturing => p[i].kind # "events"

(* Each configuration is one its suite may launch. *)
LEMMA AllConfigsFit ==
  /\ AllFit("threshold", ThresholdConfigs) /\ AllFit("occupancy", OccupancyConfigs)
  /\ AllFit("claim-order", ClaimOrderConfigs) /\ AllFit("workload", WorkloadConfigs)
  /\ AllFit("decode", DecodeConfigs) /\ AllFit("2d", Configs2d)
  /\ AllFit("cluster", ClusterConfigs) /\ AllFit("tuple", TupleConfigs)
  /\ AllFit("participation", PartConfigs) /\ AllFit("runtime", RuntimeConfigs)
  /\ AllFit("pressure", PressureConfigs) /\ AllFit("mapping", MappingConfigs)
  /\ AllFit("trace", <<About(1, 2)>>)
  <1>1. AllFit("threshold", ThresholdConfigs)
    BY DEF AllFit, Fits, ThresholdConfigs, About, Cfg
  <1>2. AllFit("occupancy", OccupancyConfigs)
    BY DEF AllFit, Fits, OccupancyConfigs, About, Cfg
  <1>3. AllFit("claim-order", ClaimOrderConfigs)
    BY DEF AllFit, Fits, ClaimOrderConfigs, About, Cfg
  <1>4. AllFit("workload", WorkloadConfigs)
    BY DEF AllFit, Fits, WorkloadConfigs, About, Cfg
  <1>5. AllFit("decode", DecodeConfigs)
    BY DEF AllFit, Fits, DecodeConfigs, About, Cfg
  <1>6. AllFit("2d", Configs2d)
    BY DEF AllFit, Fits, Configs2d, About, Cfg
  <1>7. AllFit("cluster", ClusterConfigs)
    BY DEF AllFit, Fits, ClusterConfigs, About, Cfg
  <1>8. AllFit("tuple", TupleConfigs)
    BY DEF AllFit, Fits, TupleConfigs, About, Cfg
  <1>9. AllFit("participation", PartConfigs)
    <2>1. Fits("participation", About(1, 3))
      <3>1. About(1, 3).units = 1 * SMs + 3 /\ About(1, 3).x = 1
            /\ PredictedR(About(1, 3)) = 1 * SMs
        BY DEF About, Cfg, PredictedR
      <3> QED BY <3>1 DEF Fits
    <2>2. Fits("participation", [About(1, 3) EXCEPT !.stride = 2])
      BY DEF Fits, About, Cfg
    <2> QED BY <2>1, <2>2 DEF AllFit, PartConfigs
  <1>10. AllFit("runtime", RuntimeConfigs)
    BY DEF AllFit, Fits, RuntimeConfigs, About, Cfg
  <1>11. AllFit("pressure", PressureConfigs)
    BY DEF AllFit, Fits, PressureConfigs, About, Cfg
  <1>12. AllFit("mapping", MappingConfigs)
    BY DEF AllFit, Fits, MappingConfigs, About, Cfg
  <1>13. AllFit("trace", <<About(1, 2)>>)
    BY DEF AllFit, Fits, About, Cfg
  <1> QED BY <1>1, <1>2, <1>3, <1>4, <1>5, <1>6, <1>7, <1>8, <1>9, <1>10,
             <1>11, <1>12, <1>13

(* Repeating configurations keeps them in their suite. *)
LEMMA RepeatedFits ==
  ASSUME NEW s, s \notin Capturing, NEW cs \in Seq(Launches), AllFit(s, cs),
         NEW n \in Nat \ {0}
  PROVE  PlanFits(s, Repeated(cs, n))
  <1>1. Len(cs) \in Nat /\ DOMAIN cs = 1 .. Len(cs)
    BY LenProperties
  <1>2. Len(cs) * n \in Nat
    BY <1>1
  <1>3. DOMAIN Repeated(cs, n) = 1 .. (Len(cs) * n)
    BY <1>2 DEF Repeated
  <1>4. ASSUME NEW i \in 1 .. (Len(cs) * n)
        PROVE  /\ Fits(s, Repeated(cs, n)[i].conf)
               /\ Repeated(cs, n)[i].kind = "row"
    <2> DEFINE k == ((i - 1) \div n) + 1
    <2>1. k \in 1 .. Len(cs)
      BY <1>1, RepeatIndex
    <2>2. Repeated(cs, n)[i] = Shot("row", cs[k])
      BY DEF Repeated
    <2> HIDE DEF k
    <2> QED BY <1>1, <2>1, <2>2 DEF Shot, AllFit
  <1> QED BY <1>3, <1>4 DEF PlanFits

(* So does a prediction run put in front of a plan. *)
LEMMA PredictedFits ==
  ASSUME NEW s, s \notin Capturing, NEW c \in Launches, Fits(s, c),
         NEW p \in Seq(Shots), PlanFits(s, p)
  PROVE  PlanFits(s, <<Shot("predict", c)>> \o p)
  <1> DEFINE q == <<Shot("predict", c)>> \o p
  <1>1. <<Shot("predict", c)>> \in Seq(Shots) /\ Len(<<Shot("predict", c)>>) = 1
    BY DEF Shot, Shots
  <1>2. /\ Len(q) = 1 + Len(p) /\ Len(p) \in Nat /\ DOMAIN p = 1 .. Len(p)
        /\ DOMAIN q = 1 .. Len(q)
        /\ \A i \in 1 .. Len(q) :
             q[i] = IF i <= 1 THEN <<Shot("predict", c)>>[i] ELSE p[i - 1]
    BY <1>1, ConcatProperties, LenProperties
  <1> HIDE DEF q
  <1>3. ASSUME NEW i \in 1 .. Len(q)
        PROVE  Fits(s, q[i].conf) /\ q[i].kind # "events"
    <2>1. CASE i = 1
      <3>1. q[i] = Shot("predict", c)
        BY <1>2, <2>1
      <3> QED BY <3>1 DEF Shot
    <2>2. CASE i # 1
      <3>1. q[i] = p[i - 1] /\ i - 1 \in DOMAIN p
        BY <1>2, <2>2
      <3> QED BY <3>1 DEF PlanFits
    <2> QED BY <2>1, <2>2
  <1>4. PlanFits(s, q)
    BY <1>2, <1>3 DEF PlanFits
  <1> QED BY <1>4 DEF q

(* A capturing suite follows every row run by its event run. *)
LEMMA CapturesFit ==
  ASSUME NEW s \in Capturing, NEW cs \in Seq(Launches), AllFit(s, cs)
  PROVE  PlanFits(s, Captures(cs))
  <1> DEFINE q == Captures(cs)
             K(i) == ((i - 1) \div 2) + 1
  <1>1. Len(cs) \in Nat /\ DOMAIN cs = 1 .. Len(cs)
    BY LenProperties
  <1>2. DOMAIN q = 1 .. (2 * Len(cs))
    BY <1>1 DEF Captures
  <1>3. ASSUME NEW i \in 1 .. (2 * Len(cs))
        PROVE  /\ K(i) \in 1 .. Len(cs)
               /\ q[i] = Shot(IF i % 2 = 1 THEN "events" ELSE "row", cs[K(i)])
    <2>1. K(i) \in 1 .. Len(cs)
      BY <1>1, RepeatIndex
    <2> QED BY <2>1 DEF Captures
  <1>4. ASSUME NEW i \in 1 .. (2 * Len(cs))
        PROVE  /\ Fits(s, q[i].conf)
               /\ q[i].kind = (IF i % 2 = 1 THEN "events" ELSE "row")
               /\ q[i].conf = cs[K(i)]
    <2> DEFINE kd == IF i % 2 = 1 THEN "events" ELSE "row"
               c == cs[K(i)]
    <2>1. q[i] = Shot(kd, c) /\ Fits(s, c)
      <3>1. K(i) \in DOMAIN cs
        BY <1>1, <1>3
      <3> HIDE DEF q, K
      <3> QED BY <1>3, <3>1 DEF AllFit
    <2> HIDE DEF q, kd, c
    <2>2. Fits(s, q[i].conf) /\ q[i].kind = kd /\ q[i].conf = c
      BY <2>1 DEF Shot
    <2> QED BY <2>2 DEF kd, c
  <1>5. ASSUME NEW i \in 1 .. (2 * Len(cs)), i % 2 = 1
        PROVE  /\ i + 1 \in 1 .. (2 * Len(cs)) /\ K(i + 1) = K(i)
               /\ (i + 1) % 2 # 1
    BY <1>1, <1>5
  <1>6. ASSUME NEW i \in 1 .. (2 * Len(cs)), i % 2 # 1
        PROVE  (i + 1) % 2 = 1
    BY <1>1, <1>6
  <1>7. ASSUME NEW i \in 1 .. (2 * Len(cs)) PROVE Alternates(q, i)
    <2> HIDE DEF q, K
    <2>1. CASE i % 2 = 1
      <3>1. i + 1 \in 1 .. (2 * Len(cs)) /\ K(i + 1) = K(i) /\ (i + 1) % 2 # 1
        BY <1>5, <2>1
      <3>2. q[i + 1] = Shot("row", cs[K(i + 1)])
        BY <1>3, <3>1
      <3>3. q[i].kind = "events" /\ q[i].conf = cs[K(i)]
        BY <1>4, <2>1
      <3> QED BY <1>2, <3>1, <3>2, <3>3 DEF Alternates
    <2>2. CASE i % 2 # 1
      <3>1. q[i].kind = "row"
        BY <1>4, <2>2
      <3>2. ASSUME i + 1 \in 1 .. (2 * Len(cs)) PROVE q[i + 1].kind = "events"
        BY <1>4, <1>6, <2>2, <3>2
      <3> QED BY <1>2, <3>1, <3>2 DEF Alternates
    <2> QED BY <2>1, <2>2
  <1> HIDE DEF q, K
  <1>8. PlanFits(s, q)
    BY <1>2, <1>4, <1>7 DEF PlanFits
  <1> QED BY <1>8 DEF q

(* Every plan of run_all_sweeps.sh fits its suite. *)
LEMMA PlansFit ==
  ASSUME NEW s \in Suites
  PROVE  PlanFits(s, Plan(s))
  <1> USE ConfigsType, AllConfigsFit
  <1>3. CASE s = "threshold"
    BY <1>3, RepeatedFits DEF Plan, Capturing
  <1>4. CASE s = "occupancy"
    <2>1. About(2, 1) \in Launches /\ Fits("occupancy", About(2, 1))
      <3>1. Fits("occupancy", About(2, 1))
        BY DEF Fits, About, Cfg
      <3> QED BY <3>1, AboutsFit
    <2>2. PlanFits("occupancy", Repeated(OccupancyConfigs, Repeats))
          /\ Repeated(OccupancyConfigs, Repeats) \in Seq(Shots)
      BY RepeatedFits, RepeatedType DEF Capturing
    <2>3. Plan(s) = <<Shot("predict", About(2, 1))>>
                      \o Repeated(OccupancyConfigs, Repeats)
      BY <1>4 DEF Plan
    <2>4. "occupancy" \notin Capturing
      BY DEF Capturing
    <2> QED BY <1>4, <2>1, <2>2, <2>3, <2>4, PredictedFits
  <1>5. CASE s = "claim-order"
    BY <1>5, RepeatedFits DEF Plan, Capturing
  <1>6. CASE s = "workload"
    BY <1>6, RepeatedFits DEF Plan, Capturing
  <1>7. CASE s = "decode"
    BY <1>7, RepeatedFits DEF Plan, Capturing
  <1>8. CASE s = "2d"
    BY <1>8, RepeatedFits DEF Plan, Capturing
  <1>9. CASE s = "cluster"
    <2>1. [About(1, 2) EXCEPT !.x = 2] \in Launches
          /\ Fits("cluster", [About(1, 2) EXCEPT !.x = 2])
      <3>1. Fits("cluster", [About(1, 2) EXCEPT !.x = 2])
        BY DEF Fits, About, Cfg
      <3> QED BY <3>1, AboutsFit, OnPairs
    <2>2. PlanFits("cluster", Repeated(ClusterConfigs, Repeats))
          /\ Repeated(ClusterConfigs, Repeats) \in Seq(Shots)
      BY RepeatedFits, RepeatedType DEF Capturing
    <2>3. Plan(s) = <<Shot("predict", [About(1, 2) EXCEPT !.x = 2])>>
                      \o Repeated(ClusterConfigs, Repeats)
      BY <1>9 DEF Plan
    <2>4. "cluster" \notin Capturing
      BY DEF Capturing
    <2> QED BY <1>9, <2>1, <2>2, <2>3, <2>4, PredictedFits
  <1>10. CASE s = "tuple"
    BY <1>10, RepeatedFits DEF Plan, Capturing
  <1>11. CASE s = "participation"
    BY <1>11, RepeatedFits DEF Plan, Capturing
  <1>12. CASE s = "runtime"
    BY <1>12, RepeatedFits DEF Plan, Capturing
  <1>13. CASE s = "pressure"
    BY <1>13, RepeatedFits DEF Plan, Capturing
  <1>14. CASE s = "mapping"
    BY <1>14, CapturesFit DEF Plan, Capturing
  <1>15. CASE s = "trace"
    <2>1. <<About(1, 2)>> \in Seq(Launches)
      BY AboutsFit
    <2> QED BY <1>15, <2>1, CapturesFit DEF Plan, Capturing
  <1> QED
    BY <1>3, <1>4, <1>5, <1>6, <1>7, <1>8, <1>9, <1>10, <1>11, <1>12, <1>13,
       <1>14, <1>15 DEF Suites

(* What is left of a plan that fits, fits. *)
LEMMA TailFits ==
  ASSUME NEW s, NEW p \in Seq(Shots), p # <<>>, PlanFits(s, p)
  PROVE  PlanFits(s, Tail(p))
  <1>1. /\ Tail(p) \in Seq(Shots) /\ Len(Tail(p)) = Len(p) - 1 /\ Len(p) \in Nat
        /\ DOMAIN p = 1 .. Len(p) /\ DOMAIN Tail(p) = 1 .. Len(Tail(p))
        /\ \A i \in 1 .. Len(Tail(p)) : Tail(p)[i] = p[i + 1]
    BY HeadTailProperties, LenProperties
  <1> DEFINE t == Tail(p)
  <1> HIDE DEF t
  <1>2. ASSUME NEW i \in 1 .. Len(t)
        PROVE  /\ Fits(s, t[i].conf)
               /\ s \in Capturing => Alternates(t, i)
               /\ s \notin Capturing => t[i].kind # "events"
    <2>1. i + 1 \in DOMAIN p /\ t[i] = p[i + 1]
      BY <1>1 DEF t
    <2>2. /\ Fits(s, p[i + 1].conf)
          /\ s \in Capturing => Alternates(p, i + 1)
          /\ s \notin Capturing => p[i + 1].kind # "events"
      BY <2>1 DEF PlanFits
    <2>3. i + 1 \in DOMAIN t <=> (i + 1) + 1 \in DOMAIN p
      BY <1>1 DEF t
    <2>4. i + 1 \in DOMAIN t => t[i + 1] = p[(i + 1) + 1]
      BY <1>1 DEF t
    <2> QED BY <2>1, <2>2, <2>3, <2>4 DEF Alternates
  <1>3. PlanFits(s, t)
    BY <1>1, <1>2 DEF PlanFits, t
  <1> QED BY <1>3 DEF t

(* A probe that runs was started from the head of the plan.                 *)
PlanInv ==
  /\ PlanFits(Suite, plan)
  /\ probing => /\ conf = Head(plan).conf /\ regime \in Behaviours(Suite, conf)
                /\ exit = "running"

(* Every step leaves a plan that fits the running suite. *)
LEMMA PlanNext == SweepInv /\ PlanInv /\ [Next]_vars => PlanInv'
  <1> SUFFICES ASSUME SweepInv, PlanInv, [Next]_vars PROVE PlanInv'
    OBVIOUS
  <1>0. /\ todo \in Seq(Suites) /\ plan \in Seq(Shots)
        /\ exit = "running" => todo # <<>>
        /\ probing => plan # <<>>
    BY DEF SweepInv
  <1>1. ASSUME Collected PROVE PlanInv'
    <2>1. plan # <<>> /\ plan' = Tail(plan) /\ Suite' = Suite /\ ~probing'
      BY <1>0, <1>1 DEF Collected, Suite
    <2>2. PlanFits(Suite, Tail(plan))
      BY <1>0, <2>1, TailFits DEF PlanInv
    <2> QED BY <2>1, <2>2 DEF PlanInv
  <1>2. CASE StartProbe
    <2> DEFINE c == Head(plan).conf
    <2>1. PICK g \in Behaviours(Suite, c) : \E p \in Placements(c, g) : Launch(c, g, p)
      BY <1>2 DEF StartProbe
    <2>2. conf' = c /\ regime' = g
      <3> HIDE DEF c
      <3> QED BY <2>1 DEF Launch
    <2>3. UNCHANGED <<todo, plan, exit>> /\ exit = "running"
      BY <1>2 DEF StartProbe
    <2> QED BY <2>1, <2>2, <2>3 DEF PlanInv, Suite
  <1>3. CASE probing /\ Gpu /\ UNCHANGED harness
    <2>1. UNCHANGED <<todo, plan, probing, exit>>
      BY <1>3 DEF harness
    <2>2. UNCHANGED <<conf, regime>>
      BY <1>3 DEF Gpu, Admit, Serve, Claim, Fail
    <2> QED BY <2>1, <2>2 DEF PlanInv, Suite
  <1>4. CASE ProbeFails
    BY <1>4 DEF ProbeFails, PlanInv, Suite
  <1>5. CASE Predict
    BY <1>1, <1>5 DEF Predict
  <1>6. CASE Capture
    BY <1>1, <1>6 DEF Capture
  <1>7. CASE Validate
    BY <1>1, <1>7 DEF Validate
  <1>8. CASE Report
    <2>1. exit = "running" /\ todo # <<>> /\ ~probing'
      BY <1>0, <1>8 DEF Report
    <2>2. todo' = Tail(todo) /\ Tail(todo) \in Seq(Suites)
      BY <1>0, <1>8, <2>1, HeadTailProperties DEF Report
    <2>3. plan' = IF exit' = "running" THEN Plan(Head(Tail(todo))) ELSE <<>>
      BY <1>8 DEF Report
    <2>4. PlanFits(Suite', plan')
      <3>1. CASE exit' = "running"
        <4>1. Tail(todo) # <<>>
          BY <1>8, <3>1 DEF Report
        <4>2. Head(Tail(todo)) \in Suites
          BY <2>2, <4>1, HeadTailProperties
        <4>3. Suite' = Head(Tail(todo))
          BY <2>2 DEF Suite
        <4> QED BY <2>3, <3>1, <4>2, <4>3, PlansFit
      <3>2. CASE exit' # "running"
        <4>1. plan' = <<>>
          BY <2>3, <3>2
        <4> QED BY <4>1 DEF PlanFits
      <3> QED BY <3>1, <3>2
    <2> QED BY <2>1, <2>4 DEF PlanInv
  <1>9. CASE UNCHANGED vars
    BY <1>9 DEF vars, device, harness, PlanInv, Suite
  <1> QED
    BY <1>2, <1>3, <1>4, <1>5, <1>6, <1>7, <1>8, <1>9 DEF Next

(* So the probe that runs is always one its suite may launch. *)
LEMMA PlanAlways == Spec => []PlanInv
  <1>1. Init => PlanInv
    <2> SUFFICES ASSUME Init PROVE PlanInv
      OBVIOUS
    <2>1. Suite = Head(RunAll) /\ plan = Plan(Head(RunAll)) /\ ~probing
      BY DEF Init, Suite
    <2>2. Head(RunAll) \in Suites
      BY DEF RunAll, Suites
    <2> QED BY <2>1, <2>2, PlansFit DEF PlanInv
  <1> QED BY SweepAlways, <1>1, PlanNext, PTL DEF Spec

-----------------------------------------------------------------------------
(* The row of a launch that is done. *)

(* The least and the greatest of a finite set of numbers.                   *)
LEMMA Extremes ==
  ASSUME NEW k \in Nat, NEW B \in SUBSET (0 .. k), B # {}
  PROVE  /\ Min(B) \in B /\ \A y \in B : Min(B) <= y
         /\ Max(B) \in B /\ \A y \in B : y <= Max(B)
  <1>1. \E m \in B : \A y \in B : m <= y
    <2>1. B \in SUBSET Nat
      OBVIOUS
    <2> QED BY <2>1, LeastNat
  <1>2. \E m \in B : \A y \in B : m >= y
    <2> DEFINE T == {k - y : y \in B}
    <2>1. T \in SUBSET Nat /\ T # {}
      <3>1. ASSUME NEW y \in B PROVE k - y \in Nat
        <4>1. y \in 0 .. k
          OBVIOUS
        <4> QED BY <4>1
      <3>2. PICK y \in B : TRUE
        OBVIOUS
      <3> QED BY <3>1, <3>2
    <2>2. PICK t \in T : \A s \in T : t <= s
      <3> HIDE DEF T
      <3> QED BY <2>1, LeastNat
    <2>3. PICK m \in B : t = k - m
      BY <2>2
    <2>4. ASSUME NEW y \in B PROVE m >= y
      <3>1. k - m <= k - y
        BY <2>2, <2>3
      <3> QED BY <3>1
    <2> QED BY <2>4
  <1>3. Min(B) \in B /\ \A y \in B : Min(B) <= y
    BY <1>1 DEF Min
  <1>4. Max(B) \in B /\ \A y \in B : Max(B) >= y
    BY <1>2 DEF Max
  <1> QED BY <1>3, <1>4

(* The sizes of a grid in two parts.                                        *)
LEMMA PartSizes ==
  ASSUME NEW n \in Nat \ {0}, NEW A, NEW B,
         A \cup B = 0 .. (n - 1), A \cap B = {}
  PROVE  /\ IsFiniteSet(A) /\ IsFiniteSet(B)
         /\ Cardinality(A) \in Nat /\ Cardinality(B) \in Nat
         /\ Cardinality(A) + Cardinality(B) = n
         /\ Cardinality(B) = 0 <=> B = {}
  <1> DEFINE G == 0 .. (n - 1)
  <1>1. IsFiniteSet(G) /\ Cardinality(G) = n
    BY FS_Interval
  <1>2. A \in SUBSET G /\ B \in SUBSET G
    OBVIOUS
  <1> HIDE DEF G
  <1>3. /\ IsFiniteSet(A) /\ IsFiniteSet(B)
        /\ Cardinality(A) \in Nat /\ Cardinality(B) \in Nat
    BY <1>1, <1>2, FS_Subset, FS_CardinalityType
  <1>4. Cardinality(A) + Cardinality(B) = n
    <2>1. Cardinality(A \cup B) = Cardinality(A) + Cardinality(B) - Cardinality({})
      BY <1>3, FS_Union
    <2>2. Cardinality(A \cup B) = n
      BY <1>1 DEF G
    <2> QED BY <1>3, <2>1, <2>2, FS_EmptySet
  <1>5. Cardinality(B) = 0 <=> B = {}
    BY <1>3, FS_EmptySet
  <1> QED BY <1>3, <1>4, <1>5

(* A grid 0 .. n - 1 in two parts, the launched A and the claimed B: what   *)
(* it takes for A to be the first R.                                        *)
LEMMA TwoParts ==
  ASSUME NEW n \in Nat \ {0}, NEW R \in Nat \ {0}, NEW A, NEW B,
         A \cup B = 0 .. (n - 1), A \cap B = {}
  PROVE  /\ n <= R => (A = {u \in 0 .. (n - 1) : u < R} <=> B = {})
         /\ n > R => (A = {u \in 0 .. (n - 1) : u < R} <=> B = R .. (n - 1))
         /\ B # {} => /\ Min(B) \in 0 .. (n - 1) /\ Max(B) \in 0 .. (n - 1)
                      /\ Min(B) <= Max(B)
                      /\ Cardinality(B) <= Max(B) - Min(B) + 1
                      /\ Cardinality(B) = Max(B) - Min(B) + 1
                           <=> B = Min(B) .. Max(B)
         /\ n > R => (B = R .. (n - 1)
                        <=> B # {} /\ Min(B) = R /\ Cardinality(B) = n - R)
         /\ n > R /\ B = R .. (n - 1) => Max(B) = n - 1
  <1> DEFINE G == 0 .. (n - 1)
  <1>1. IsFiniteSet(G) /\ Cardinality(G) = n
    BY FS_Interval
  <1>2. A \in SUBSET G /\ B \in SUBSET G /\ A = G \ B
    OBVIOUS
  <1> HIDE DEF G
  <1>3. /\ IsFiniteSet(A) /\ IsFiniteSet(B)
        /\ Cardinality(A) \in Nat /\ Cardinality(B) \in Nat
        /\ Cardinality(A) + Cardinality(B) = n
        /\ Cardinality(B) = 0 <=> B = {}
    BY PartSizes
  <1>6. n <= R => (A = {u \in G : u < R} <=> B = {})
    <2>1. ASSUME n <= R PROVE {u \in G : u < R} = G
      BY <2>1 DEF G
    <2> QED BY <1>2, <2>1
  <1>7. n > R => (A = {u \in G : u < R} <=> B = R .. (n - 1))
    <2>1. ASSUME n > R PROVE G \ {u \in G : u < R} = R .. (n - 1)
      BY <2>1 DEF G
    <2> QED BY <1>2, <2>1
  <1>8. ASSUME B # {}
        PROVE  /\ Min(B) \in G /\ Max(B) \in G /\ Min(B) <= Max(B)
               /\ B \in SUBSET (Min(B) .. Max(B))
               /\ Cardinality(B) <= Max(B) - Min(B) + 1
               /\ Cardinality(B) = Max(B) - Min(B) + 1 <=> B = Min(B) .. Max(B)
    <2>1. /\ Min(B) \in B /\ \A y \in B : Min(B) <= y
          /\ Max(B) \in B /\ \A y \in B : y <= Max(B)
      <3>1. n - 1 \in Nat /\ B \in SUBSET (0 .. (n - 1))
        BY <1>2 DEF G
      <3> QED BY <1>8, <3>1, Extremes
    <2> DEFINE a == Min(B)
               b == Max(B)
    <2>2. a \in B /\ b \in B /\ a \in G /\ b \in G /\ a <= b
      BY <1>2, <2>1
    <2>3. B \in SUBSET (a .. b)
      BY <1>2, <2>1 DEF G
    <2>4. a \in Int /\ b \in Int
      BY <2>2 DEF G
    <2> HIDE DEF a, b
    <2>5. IsFiniteSet(a .. b) /\ Cardinality(a .. b) = b - a + 1
      BY <2>2, <2>4, FS_Interval
    <2>6. Cardinality(B) <= b - a + 1
          /\ (Cardinality(B) = b - a + 1 => B = a .. b)
      BY <2>3, <2>5, FS_Subset
    <2>7. B = a .. b => Cardinality(B) = b - a + 1
      BY <2>5
    <2> QED BY <2>2, <2>3, <2>6, <2>7 DEF a, b
  <1>9. ASSUME n > R, B = R .. (n - 1)
        PROVE  B # {} /\ Min(B) = R /\ Max(B) = n - 1 /\ Cardinality(B) = n - R
    <2>1. R \in B /\ n - 1 \in B
      BY <1>9
    <2>2. /\ Min(B) \in B /\ \A y \in B : Min(B) <= y
          /\ Max(B) \in B /\ \A y \in B : y <= Max(B)
      <3>1. n - 1 \in Nat /\ B \in SUBSET (0 .. (n - 1)) /\ B # {}
        BY <1>2, <2>1 DEF G
      <3> QED BY <3>1, Extremes
    <2>3. Min(B) <= R /\ n - 1 <= Max(B)
      BY <2>1, <2>2
    <2>4. Min(B) \in R .. (n - 1) /\ Max(B) \in R .. (n - 1)
      BY <1>9, <2>2
    <2>5. Cardinality(R .. (n - 1)) = n - R
      BY <1>9, FS_Interval
    <2> QED BY <1>9, <2>1, <2>3, <2>4, <2>5
  <1>10. ASSUME n > R, B # {}, Min(B) = R, Cardinality(B) = n - R
         PROVE  B = R .. (n - 1)
    <2>1. B \in SUBSET (R .. (n - 1))
      BY <1>8, <1>10 DEF G
    <2>2. IsFiniteSet(R .. (n - 1)) /\ Cardinality(R .. (n - 1)) = n - R
      BY <1>10, FS_Interval
    <2> QED BY <1>10, <2>1, <2>2, FS_Subset
  <1> QED BY <1>6, <1>7, <1>8, <1>9, <1>10 DEF G

(* No two claims of a launch are of the same cluster.                       *)
LEMMA ClaimsCounted ==
  ASSUME claims \in Seq(ClaimRecords), OneClaim
  PROVE  /\ Claimed \in SUBSET Units
         /\ Len(claims) = Cardinality(Claimed)
         /\ \A u \in Claimed : TimesClaimed(u) = 1
  <1> DEFINE D == 1 .. Len(claims)
             f == [i \in D |-> claims[i].unit]
  <1>1. /\ Len(claims) \in Nat /\ DOMAIN claims = D
        /\ \A i \in D : claims[i].unit \in Units
    BY ClaimsAre
  <1>2. Claimed = {claims[i].unit : i \in D}
    BY <1>1 DEF Claimed
  <1>3. f \in Bijection(D, Claimed)
    <2>1. f \in [D -> Claimed]
      BY <1>2
    <2>2. \A i, j \in D : f[i] = f[j] => i = j
      BY <1>1 DEF OneClaim
    <2>3. \A u \in Claimed : \E i \in D : f[i] = u
      BY <1>2
    <2> HIDE DEF f, D
    <2> QED BY <2>1, <2>2, <2>3 DEF Bijection, Injection, Surjection, IsInjective
  <1>4. IsFiniteSet(D) /\ Cardinality(D) = Len(claims)
    BY <1>1, FS_Interval
  <1>5. Cardinality(Claimed) = Len(claims)
    <2> HIDE DEF f, D
    <2> QED BY <1>3, <1>4, FS_Bijection DEF ExistsBijection
  <1>6. ASSUME NEW u \in Claimed PROVE TimesClaimed(u) = 1
    <2>1. PICK i \in D : claims[i].unit = u
      BY <1>2
    <2>2. {j \in DOMAIN claims : claims[j].unit = u} = {i}
      BY <1>1, <2>1 DEF OneClaim
    <2> QED BY <2>2, FS_Singleton DEF TimesClaimed
  <1> QED BY <1>1, <1>2, <1>5, <1>6

(* Clusters are numbered from 0. *)
LEMMA UnitsIn == \A u \in Units : u \in Nat /\ u <= MaxUnits - 1
  BY DEF Units

(* When every CTA has returned, each cluster was launched or claimed.       *)
LEMMA DoneParts ==
  ASSUME SweepInv, CountInv, Done
  PROVE  /\ Launched \cup Claimed = Grid /\ Launched \cap Claimed = {}
         /\ Grid \in SUBSET Units
         /\ \A u \in Units : u \in Launched <=> status[u] = "left"
         /\ Workers = Launched
         /\ Served = Grid
         /\ \A u \in Grid : visits[u] = 1
  <1>1. /\ DeviceType /\ \A u \in Units : UnitInv(u)
        /\ OneClaim /\ \A w \in Units : TallyInv(w)
    BY GridParts DEF SweepInv, DeviceInv
  <1>2. Grid \in SUBSET Units
    BY <1>1 DEF DeviceType, Grid, Units
  <1>3. \A u \in Units : status[u] \in {"out", "left", "cancelled"}
    BY <1>1 DEF Done, Live, Pending, DeviceType
  <1>4. \A u \in Units : /\ sm[u] # Nothing <=> status[u] = "left"
                         /\ status[u] = "out" <=> u \notin Grid
                         /\ status[u] = "cancelled" <=> u \in Claimed
    BY <1>1, <1>3 DEF UnitInv
  <1>5. \A u \in Units : u \in Launched <=> status[u] = "left"
    BY <1>2, <1>3, <1>4 DEF Launched
  <1>6. Claimed \in SUBSET Units
    BY <1>1, ClaimsCounted DEF DeviceType
  <1>7. Launched \cup Claimed = Grid /\ Launched \cap Claimed = {}
    <2>1. Launched \in SUBSET Grid
      BY DEF Launched
    <2> QED BY <1>2, <1>3, <1>4, <1>5, <1>6, <2>1
  <1>8. Workers = Launched
    <2>1. ASSUME NEW w \in Units
          PROVE  stats[w].processed > 0 <=> status[w] = "left"
      <3>1. stats[w] \in Tallies /\ stats[w].successes \in Nat
        BY <1>1 DEF DeviceType, Tallies
      <3>2. CASE status[w] = "left"
        BY <1>1, <3>1, <3>2 DEF TallyInv
      <3>3. CASE status[w] # "left"
        <4>1. stats[w] = Fresh
          BY <1>3, <3>3 DEF CountInv, Started
        <4> QED BY <3>3, <4>1 DEF Fresh
      <3> QED BY <3>2, <3>3
    <2>2. Launched \in SUBSET Units
      BY <1>2 DEF Launched
    <2> QED BY <1>5, <2>1, <2>2 DEF Workers
  <1>9. \A u \in Units : ~Held(u)
    <2>1. \A w \in Units : holds[w] = Nothing
      BY <1>1, <1>3 DEF UnitInv
    <2> QED BY <2>1, UnitsNat DEF Held
  <1>10. \A u \in Units : visits[u] = IF u \in Grid THEN 1 ELSE 0
    BY <1>1, <1>3, <1>4, <1>9 DEF UnitInv
  <1> QED BY <1>2, <1>5, <1>7, <1>8, <1>10 DEF Served

(* The row, from the sizes and the ends of the two parts.                   *)
LEMMA DoneRow ==
  ASSUME SweepInv, CountInv, Done, conf \in Launches
  PROVE  LET n == conf.units
             x == conf.x
             L == Cardinality(Launched)
             C == Cardinality(Claimed)
         IN /\ n \in Nat \ {0} /\ x \in Nat \ {0} /\ PredictedR(conf) \in Nat \ {0}
            /\ Grid = 0 .. (n - 1) /\ L \in Nat /\ C \in Nat /\ L + C = n
            /\ Row.tasks = x * n /\ Row.r = x * PredictedR(conf)
            /\ Row.x = x /\ Row.gx = conf.gx /\ Row.stride = conf.stride
            /\ Row.processed = x * n /\ Row.active = x * L
            /\ Row.missed = 0 /\ Row.duplicates = 0 /\ Row.dupClaims = 0
            /\ Row.successes = C
            /\ Row.failures = Row.attempts - Row.successes
            /\ conf.stride = 1 => Row.attempts = n
            /\ Row.unique = x * C /\ Row.bases = C
            /\ Claimed = {} => Row.cmin = 0 /\ Row.cmax = 0 /\ Row.holes = 0
            /\ Claimed # {} => /\ Row.cmin = x * Min(Claimed)
                               /\ Row.cmax = x * (Max(Claimed) + 1) - 1
                               /\ Row.holes = (Row.cmax - Row.cmin + 1) - x * C
            /\ Row.bmax = Row.cmax - (x - 1)
            /\ Row.spread = Max({WorkersOn(s) : s \in Busy})
                              - Min({WorkersOn(s) : s \in Busy})
  <1> DEFINE n == conf.units
             x == conf.x
             L == Cardinality(Launched)
             C == Cardinality(Claimed)
  <1>1. n \in Nat \ {0} /\ x \in Nat \ {0} /\ conf.occ \in Nat \ {0}
        /\ conf.stride \in Nat \ {0}
    BY DEF Launches
  <1>2. PredictedR(conf) \in Nat \ {0}
    BY <1>1 DEF PredictedR
  <1>3. Grid = 0 .. (n - 1)
    BY DEF Grid
  <1>4. /\ Launched \cup Claimed = Grid /\ Launched \cap Claimed = {}
        /\ Workers = Launched /\ Served = Grid /\ Grid \in SUBSET Units
        /\ \A u \in Grid : visits[u] = 1
    BY DoneParts
  <1>5. /\ L \in Nat /\ C \in Nat /\ L + C = n
    <2>1. Launched \cup Claimed = 0 .. (n - 1) /\ Launched \cap Claimed = {}
      BY <1>3, <1>4
    <2> HIDE DEF n
    <2> QED BY <1>1, <2>1, PartSizes
  <1>6. Cardinality(Grid) = n
    BY <1>1, <1>3, FS_Interval
  <1>7. /\ DeviceType /\ OneClaim /\ \A w \in Units : TallyInv(w)
    BY GridParts DEF SweepInv, DeviceInv
  <1>8. /\ Len(claims) = C /\ \A u \in Claimed : TimesClaimed(u) = 1
    BY <1>7, ClaimsCounted DEF DeviceType
  <1>9. Total("processed") = n /\ Total("successes") = C
    BY <1>4, <1>6, <1>8 DEF CountInv
  <1>10. ASSUME conf.stride = 1 PROVE Total("attempts") = n
    <2>1. ASSUME NEW w \in Units PROVE stats[w].attempts = stats[w].processed
      <3>1. stats[w].successes \in Nat
        BY <1>7 DEF DeviceType, Tallies
      <3>2. Participates(w)
        BY <1>10, UnitsIn DEF Participates
      <3>3. status[w] # "claiming"
        BY DEF Done, Live
      <3> QED BY <1>7, <3>1, <3>2, <3>3 DEF TallyInv
    <2>2. [w \in Units |-> stats[w].attempts] = [w \in Units |-> stats[w].processed]
      BY <2>1
    <2> QED BY <1>9, <2>2, TotalsAre
  <1>11. /\ {u \in Grid : visits[u] = 0} = {} /\ {u \in Grid : visits[u] > 1} = {}
         /\ {u \in Claimed : TimesClaimed(u) > 1} = {}
    BY <1>4, <1>8
  <1>12. Count({}) = 0
    BY <1>1, FS_EmptySet DEF Count
  <1>13. /\ Row.tasks = Count(Grid) /\ Row.r = x * PredictedR(conf)
         /\ Row.x = x /\ Row.gx = conf.gx /\ Row.stride = conf.stride
         /\ Row.processed = x * Total("processed") /\ Row.active = Count(Workers)
         /\ Row.missed = Count({u \in Grid : visits[u] = 0})
         /\ Row.duplicates = Count({u \in Grid : visits[u] > 1})
         /\ Row.dupClaims = Count({u \in Claimed : TimesClaimed(u) > 1})
    BY DEF Row
  <1>14. /\ Row.attempts = Total("attempts") /\ Row.successes = Total("successes")
         /\ Row.failures = Row.attempts - Row.successes
         /\ Row.unique = Count(Claimed) /\ Row.bases = Cardinality(Claimed)
         /\ Row.cmin = (IF Claimed = {} THEN 0 ELSE x * Min(Claimed))
         /\ Row.cmax = (IF Claimed = {} THEN 0 ELSE x * (Max(Claimed) + 1) - 1)
         /\ Row.holes = (IF Claimed = {} THEN 0
                         ELSE (Row.cmax - Row.cmin + 1) - Row.unique)
         /\ Row.bmax = Row.cmax - (x - 1)
         /\ Row.spread = Max({WorkersOn(s) : s \in Busy})
                           - Min({WorkersOn(s) : s \in Busy})
    BY DEF Row
  <1>15. Row.missed = 0 /\ Row.duplicates = 0 /\ Row.dupClaims = 0
    BY <1>11, <1>12, <1>13
  <1>16. Row.tasks = x * n /\ Row.active = x * L /\ Row.unique = x * C
    BY <1>4, <1>6, <1>13, <1>14 DEF Count
  <1>17. Row.processed = x * n /\ Row.successes = C
    BY <1>9, <1>13, <1>14
  <1>18. conf.stride = 1 => Row.attempts = n
    BY <1>10, <1>14
  <1> HIDE DEF n, x, L, C
  <1>19. Claimed = {} => Row.cmin = 0 /\ Row.cmax = 0 /\ Row.holes = 0
    BY <1>14
  <1>20. Claimed # {} => /\ Row.cmin = x * Min(Claimed)
                         /\ Row.cmax = x * (Max(Claimed) + 1) - 1
                         /\ Row.holes = (Row.cmax - Row.cmin + 1) - x * C
    BY <1>14, <1>16
  <1> QED
    BY <1>1, <1>2, <1>3, <1>5, <1>13, <1>14, <1>15, <1>16, <1>17, <1>18, <1>19,
       <1>20 DEF n, x, L, C

-----------------------------------------------------------------------------
(* What the validators accept. *)

(* Min of a pair, by cases. *)
LEMMA LesserOf ==
  ASSUME NEW a \in Nat, NEW b \in Nat
  PROVE  Min({a, b}) = IF a <= b THEN a ELSE b
  <1>1. CASE a <= b
    <2>1. \E m \in {a, b} : \A y \in {a, b} : m <= y
      BY <1>1
    <2>2. Min({a, b}) \in {a, b} /\ \A y \in {a, b} : Min({a, b}) <= y
      BY <2>1 DEF Min
    <2> QED BY <1>1, <2>2
  <1>2. CASE ~ (a <= b)
    <2>1. \E m \in {a, b} : \A y \in {a, b} : m <= y
      BY <1>2
    <2>2. Min({a, b}) \in {a, b} /\ \A y \in {a, b} : Min({a, b}) <= y
      BY <2>1 DEF Min
    <2> QED BY <1>2, <2>2
  <1> QED BY <1>1, <1>2

(* Launching the first R and no other, told from sizes and ends.            *)
LEMMA FirstRTold ==
  ASSUME SweepInv, CountInv, Done, conf \in Launches
  PROVE  LET n == conf.units
             R == PredictedR(conf)
             C == Cardinality(Claimed)
         IN /\ Claimed = {} <=> C = 0
            /\ Claimed # {} =>
                 /\ Min(Claimed) \in 0 .. (n - 1) /\ Max(Claimed) \in 0 .. (n - 1)
                 /\ Min(Claimed) <= Max(Claimed)
                 /\ C <= Max(Claimed) - Min(Claimed) + 1
                 /\ C = Max(Claimed) - Min(Claimed) + 1
                      <=> Claimed = Min(Claimed) .. Max(Claimed)
            /\ n <= R => (Launched = FirstR <=> C = 0)
            /\ n > R => (Launched = FirstR
                           <=> Claimed # {} /\ Min(Claimed) = R /\ C = n - R)
            /\ n > R /\ Launched = FirstR =>
                 Max(Claimed) = n - 1 /\ Claimed = R .. (n - 1)
  <1> DEFINE n == conf.units
             R == PredictedR(conf)
             C == Cardinality(Claimed)
  <1>1. n \in Nat \ {0} /\ R \in Nat \ {0} /\ Grid = 0 .. (n - 1)
    BY DoneRow
  <1>2. Launched \cup Claimed = 0 .. (n - 1) /\ Launched \cap Claimed = {}
    BY <1>1, DoneParts
  <1>3. FirstR = {u \in 0 .. (n - 1) : u < R}
    BY <1>1 DEF FirstR
  <1>4. Claimed = {} <=> C = 0
    <2> HIDE DEF n
    <2> QED BY <1>1, <1>2, PartSizes
  <1> DEFINE A == Launched
             B == Claimed
  <1>5. /\ n <= R => (A = {u \in 0 .. (n - 1) : u < R} <=> B = {})
        /\ n > R => (A = {u \in 0 .. (n - 1) : u < R} <=> B = R .. (n - 1))
        /\ B # {} => /\ Min(B) \in 0 .. (n - 1) /\ Max(B) \in 0 .. (n - 1)
                     /\ Min(B) <= Max(B)
                     /\ Cardinality(B) <= Max(B) - Min(B) + 1
                     /\ Cardinality(B) = Max(B) - Min(B) + 1
                          <=> B = Min(B) .. Max(B)
        /\ n > R => (B = R .. (n - 1)
                       <=> B # {} /\ Min(B) = R /\ Cardinality(B) = n - R)
        /\ n > R /\ B = R .. (n - 1) => Max(B) = n - 1
    <2>1. A \cup B = 0 .. (n - 1) /\ A \cap B = {}
      BY <1>2
    <2> HIDE DEF A, B, n, R
    <2> QED BY <1>1, <2>1, TwoParts
  <1> HIDE DEF n, R
  <1> QED BY <1>3, <1>4, <1>5 DEF n, R

(* The structural test of the probes accepts a launch of the first R only.  *)
LEMMA StructuralTold ==
  ASSUME SweepInv, CountInv, Done, conf \in Launches, conf.x \in {1, 2}
  PROVE  /\ Structural(Row) <=> Launched = FirstR
         /\ Launched = FirstR =>
              /\ StructuralCluster(Row) /\ Row.active = Expected(Row)
              /\ Clean(Row) /\ SuffixClaimed(Row, Row.r)
              /\ SuffixClaimed(Row, Row.active)
              /\ Row.tasks > Row.active => Row.tasks > Row.r /\ Row.active = Row.r
  <1> DEFINE n == conf.units
             R == PredictedR(conf)
             x == conf.x
             C == Cardinality(Claimed)
             L == Cardinality(Launched)
             lo == Min(Claimed)
             hi == Max(Claimed)
             F == Launched = FirstR
  <1>1. /\ n \in Nat \ {0} /\ R \in Nat \ {0} /\ L \in Nat /\ C \in Nat
        /\ L + C = n /\ x \in {1, 2}
    BY DoneRow
  <1>2. /\ Row.tasks = x * n /\ Row.r = x * R /\ Row.x = x /\ Row.active = x * L
        /\ Row.missed = 0 /\ Row.duplicates = 0 /\ Row.dupClaims = 0
        /\ Row.successes = C /\ Row.unique = x * C /\ Row.bases = C
        /\ Row.bmax = Row.cmax - (x - 1)
    BY DoneRow
  <1>3. /\ Claimed = {} => Row.cmin = 0 /\ Row.cmax = 0 /\ Row.holes = 0
        /\ Claimed # {} => /\ Row.cmin = x * lo
                           /\ Row.cmax = x * (hi + 1) - 1
                           /\ Row.holes = (Row.cmax - Row.cmin + 1) - x * C
    BY DoneRow
  <1>4. /\ Claimed = {} <=> C = 0
        /\ Claimed # {} => /\ lo \in 0 .. (n - 1) /\ hi \in 0 .. (n - 1)
                           /\ lo <= hi /\ C <= hi - lo + 1
        /\ n <= R => (F <=> C = 0)
        /\ n > R => (F <=> Claimed # {} /\ lo = R /\ C = n - R)
        /\ n > R /\ F => hi = n - 1
    BY FirstRTold
  <1>5. Expected(Row) = IF x * n <= x * R THEN x * n ELSE x * R
    <2>1. x * n \in Nat /\ x * R \in Nat
      BY <1>1
    <2> HIDE DEF x, n, R
    <2> QED BY <1>2, <2>1, LesserOf DEF Expected
  <1> HIDE DEF n, R, x, C, L, lo, hi, F
  <1>6. CASE x = 1
    <2>1. CASE n <= R
      <3>1. Structural(Row) <=> F
        BY <1>1, <1>2, <1>3, <1>4, <1>5, <1>6, <2>1
           DEF Structural, Clean, SuffixClaimed
      <3>2. F => /\ StructuralCluster(Row) /\ Row.active = Expected(Row)
                 /\ Clean(Row) /\ SuffixClaimed(Row, Row.r)
                 /\ SuffixClaimed(Row, Row.active)
                 /\ Row.tasks > Row.active => Row.tasks > Row.r /\ Row.active = Row.r
        BY <1>1, <1>2, <1>3, <1>4, <1>5, <1>6, <2>1, <3>1
           DEF StructuralCluster, Structural, Clean, SuffixClaimed
      <3> QED BY <3>1, <3>2 DEF F
    <2>2. CASE n > R
      <3>1. Structural(Row) <=> F
        BY <1>1, <1>2, <1>3, <1>4, <1>5, <1>6, <2>2
           DEF Structural, Clean, SuffixClaimed
      <3>2. F => /\ StructuralCluster(Row) /\ Row.active = Expected(Row)
                 /\ Clean(Row) /\ SuffixClaimed(Row, Row.r)
                 /\ SuffixClaimed(Row, Row.active)
                 /\ Row.tasks > Row.active => Row.tasks > Row.r /\ Row.active = Row.r
        BY <1>1, <1>2, <1>3, <1>4, <1>5, <1>6, <2>2, <3>1
           DEF StructuralCluster, Structural, Clean, SuffixClaimed
      <3> QED BY <3>1, <3>2 DEF F
    <2> QED BY <1>1, <2>1, <2>2
  <1>7. CASE x = 2
    <2>1. CASE n <= R
      <3>1. Structural(Row) <=> F
        BY <1>1, <1>2, <1>3, <1>4, <1>5, <1>7, <2>1
           DEF Structural, Clean, SuffixClaimed
      <3>2. F => /\ StructuralCluster(Row) /\ Row.active = Expected(Row)
                 /\ Clean(Row) /\ SuffixClaimed(Row, Row.r)
                 /\ SuffixClaimed(Row, Row.active)
                 /\ Row.tasks > Row.active => Row.tasks > Row.r /\ Row.active = Row.r
        BY <1>1, <1>2, <1>3, <1>4, <1>5, <1>7, <2>1, <3>1
           DEF StructuralCluster, Structural, Clean, SuffixClaimed
      <3> QED BY <3>1, <3>2 DEF F
    <2>2. CASE n > R
      <3>1. Structural(Row) <=> F
        BY <1>1, <1>2, <1>3, <1>4, <1>5, <1>7, <2>2
           DEF Structural, Clean, SuffixClaimed
      <3>2. F => /\ StructuralCluster(Row) /\ Row.active = Expected(Row)
                 /\ Clean(Row) /\ SuffixClaimed(Row, Row.r)
                 /\ SuffixClaimed(Row, Row.active)
                 /\ Row.tasks > Row.active => Row.tasks > Row.r /\ Row.active = Row.r
        BY <1>1, <1>2, <1>3, <1>4, <1>5, <1>7, <2>2, <3>1
           DEF StructuralCluster, Structural, Clean, SuffixClaimed
      <3> QED BY <3>1, <3>2 DEF F
    <2> QED BY <1>1, <2>1, <2>2
  <1> QED BY <1>1, <1>6, <1>7 DEF F, x

(* A probe that runs is one of its suite.                                   *)
LEMMA ProbeConf ==
  ASSUME SweepInv, PlanInv, probing
  PROVE  /\ conf \in Launches /\ Fits(Suite, conf) /\ Suite \in Suites
         /\ conf.x \in {1, 2} /\ (Suite # "cluster" => conf.x = 1)
  <1>1. plan \in Seq(Shots) /\ plan # <<>> /\ conf = Head(plan).conf
    BY DEF SweepInv, PlanInv
  <1>2. Head(plan) \in Shots /\ 1 \in DOMAIN plan /\ Head(plan) = plan[1]
    BY <1>1, HeadTailProperties, LenProperties, EmptySeq
  <1>3. conf \in Launches
    BY <1>1, <1>2 DEF Shots
  <1>4. Fits(Suite, conf)
    BY <1>1, <1>2 DEF PlanInv, PlanFits
  <1>5. todo # <<>> /\ todo \in Seq(Suites)
    BY DEF SweepInv, PlanInv
  <1>6. Suite \in Suites
    BY <1>5, HeadTailProperties DEF Suite
  <1> QED BY <1>3, <1>4, <1>6 DEF Fits

(* Some cluster was launched: nobody else claims.                           *)
LEMMA SomeLaunched ==
  ASSUME SweepInv, CountInv, Done, conf \in Launches
  PROVE  \E w \in Launched : sm[w] \in 0 .. (SMs - 1)
  <1>1. /\ Launched \cup Claimed = Grid /\ Grid \in SUBSET Units
        /\ \A u \in Units : u \in Launched <=> status[u] = "left"
    BY DoneParts
  <1>2. 0 \in Grid
    BY DEF Grid, Launches
  <1>3. PICK w : w \in Launched
    <2>1. CASE 0 \in Launched
      BY <2>1
    <2>2. CASE 0 \in Claimed
      <3>1. PICK i \in DOMAIN claims : claims[i].unit = 0
        BY <2>2 DEF Claimed
      <3>2. claims[i].worker \in Units
        BY <3>1, ClaimsAre DEF SweepInv, DeviceInv, DeviceType
      <3>3. status[claims[i].worker] \in Started
        BY <3>1 DEF CountInv
      <3>4. status[claims[i].worker] = "left"
        BY <3>2, <3>3 DEF Done, Live, Started
      <3> QED BY <1>1, <3>2, <3>4
    <2> QED BY <1>1, <1>2, <2>1, <2>2
  <1>4. w \in Units /\ sm[w] # Nothing
    BY <1>1, <1>3 DEF Launched
  <1> QED BY <1>3, <1>4 DEF CountInv, OnDevice

(* The spread of the runtime row tells whether the SMs in use got workers   *)
(* evenly.                                                                  *)
LEMMA SpreadTold ==
  ASSUME SweepInv, CountInv, Done, conf \in Launches
  PROVE  Row.spread <= 1 <=> Even
  <1> DEFINE B == {WorkersOn(s) : s \in Busy}
  <1>1. \A s \in 0 .. (SMs - 1) : WorkersOn(s) \in 0 .. MaxUnits
    <2>1. ASSUME NEW s \in 0 .. (SMs - 1)
          PROVE  WorkersOn(s) \in Nat /\ WorkersOn(s) <= MaxUnits
      <3> DEFINE T == {w \in Workers : sm[w] = s}
      <3>1. T \in SUBSET Units
        BY DEF Workers
      <3> HIDE DEF T
      <3>2. Cardinality(T) \in Nat /\ Cardinality(T) <= MaxUnits
        BY <3>1, UnitsFinite, FS_Subset
      <3> QED BY <3>2 DEF WorkersOn, T
    <2> QED BY <2>1
  <1>2. Busy # {}
    <2>1. PICK w \in Launched : sm[w] \in 0 .. (SMs - 1)
      BY SomeLaunched
    <2>2. Workers = Launched
      BY DoneParts
    <2> DEFINE T == {v \in Workers : sm[v] = sm[w]}
    <2>3. T \in SUBSET Units /\ w \in T
      BY <2>1, <2>2 DEF Workers
    <2> HIDE DEF T
    <2>4. Cardinality(T) \in Nat /\ Cardinality(T) # 0
      BY <2>3, UnitsFinite, FS_EmptySet
    <2>5. WorkersOn(sm[w]) > 0
      BY <2>4 DEF WorkersOn, T
    <2> QED BY <2>1, <2>5 DEF Busy
  <1>3. B \in SUBSET (0 .. MaxUnits) /\ B # {}
    BY <1>1, <1>2 DEF Busy
  <1>4. \A s, t \in Busy : WorkersOn(s) \in B /\ WorkersOn(t) \in B
    OBVIOUS
  <1>5. \A a \in B : \E s \in Busy : a = WorkersOn(s)
    OBVIOUS
  <1>6. Row.spread = Max(B) - Min(B)
    BY DoneRow
  <1> HIDE DEF B
  <1>7. /\ Min(B) \in B /\ \A y \in B : Min(B) <= y
        /\ Max(B) \in B /\ \A y \in B : y <= Max(B)
    BY <1>3, Extremes
  <1>8. Min(B) \in Nat /\ Max(B) \in Nat /\ \A y \in B : y \in Nat
    <2>1. \A y \in B : y \in Nat
      BY <1>3
    <2> QED BY <1>7, <2>1
  <1>9. ASSUME Max(B) - Min(B) <= 1 PROVE Even
    <2>1. ASSUME NEW s \in Busy, NEW t \in Busy
          PROVE  WorkersOn(s) <= WorkersOn(t) + 1
      <3>1. WorkersOn(s) \in B /\ WorkersOn(t) \in B
        BY <1>4
      <3>2. WorkersOn(s) <= Max(B) /\ Min(B) <= WorkersOn(t)
        BY <1>7, <3>1
      <3> QED BY <1>8, <1>9, <3>1, <3>2
    <2> QED BY <2>1 DEF Even
  <1>10. ASSUME Even PROVE Max(B) - Min(B) <= 1
    <2>1. PICK s \in Busy : Max(B) = WorkersOn(s)
      BY <1>5, <1>7
    <2>2. PICK t \in Busy : Min(B) = WorkersOn(t)
      BY <1>5, <1>7
    <2>3. WorkersOn(s) <= WorkersOn(t) + 1
      BY <1>10 DEF Even
    <2> QED BY <1>8, <2>1, <2>2, <2>3
  <1> QED BY <1>6, <1>9, <1>10

(* The holes of a row with one CTA to a cluster: a claim skipped a cluster  *)
(* that was launched.                                                       *)
LEMMA HolesTold ==
  ASSUME SweepInv, CountInv, Done, conf \in Launches, conf.x = 1
  PROVE  Row.holes # 0
           <=> \E u, v \in Claimed, w \in Launched : u < w /\ w < v
  <1> DEFINE n == conf.units
             C == Cardinality(Claimed)
             lo == Min(Claimed)
             hi == Max(Claimed)
  <1>1. Launched \cup Claimed = 0 .. (n - 1) /\ Launched \cap Claimed = {}
        /\ n \in Nat \ {0}
    <2>1. Grid = 0 .. (n - 1) /\ n \in Nat \ {0}
      BY DoneRow
    <2> QED BY <2>1, DoneParts
  <1>2. CASE Claimed = {}
    BY <1>2, DoneRow
  <1>3. CASE Claimed # {}
    <2>1. /\ lo \in 0 .. (n - 1) /\ hi \in 0 .. (n - 1)
          /\ C = hi - lo + 1 <=> Claimed = lo .. hi
      BY <1>3, FirstRTold
    <2>2. Row.holes = (hi - lo + 1) - C /\ C \in Nat
      <3>1. /\ Row.cmin = 1 * lo /\ Row.cmax = 1 * (hi + 1) - 1
            /\ Row.holes = (Row.cmax - Row.cmin + 1) - 1 * C /\ C \in Nat
        BY <1>3, DoneRow
      <3> HIDE DEF lo, hi, C
      <3> QED BY <2>1, <3>1
    <2>3. /\ lo \in Claimed /\ hi \in Claimed
          /\ \A y \in Claimed : lo <= y /\ y <= hi
      <3>1. n - 1 \in Nat /\ Claimed \in SUBSET (0 .. (n - 1))
        BY <1>1
      <3> QED BY <1>3, <3>1, Extremes
    <2> HIDE DEF lo, hi, C, n
    <2>4. Row.holes # 0 <=> Claimed # lo .. hi
      BY <2>1, <2>2
    <2>5. ASSUME Claimed # lo .. hi
          PROVE  \E u, v \in Claimed, w \in Launched : u < w /\ w < v
      <3>1. Claimed \in SUBSET (lo .. hi)
        BY <1>1, <2>1, <2>3
      <3>2. PICK w \in lo .. hi : w \notin Claimed
        BY <2>5, <3>1
      <3>3. w \in Launched /\ lo < w /\ w < hi
        BY <1>1, <2>1, <2>3, <3>2
      <3> QED BY <2>3, <3>3
    <2>6. ASSUME NEW u \in Claimed, NEW v \in Claimed, NEW w \in Launched,
                 u < w, w < v
          PROVE  Claimed # lo .. hi
      <3>1. w \notin Claimed /\ lo <= u /\ v <= hi
        BY <1>1, <2>3
      <3>2. u \in Int /\ v \in Int /\ w \in Int
        BY <1>1
      <3>3. w \in lo .. hi
        BY <2>1, <2>6, <3>1, <3>2
      <3> QED BY <3>1, <3>3
    <2> QED BY <2>4, <2>5, <2>6
  <1> QED BY <1>2, <1>3

(* A valid row of a suite, by the test that its validator and its probe     *)
(* share.                                                                   *)
LEMMA PlainVerdict ==
  ASSUME SweepInv, CountInv, Done, conf \in Launches, conf.x \in {1, 2}
  PROVE  /\ ValidSweep(Row) <=> Launched = FirstR
         /\ ValidDecode(Row) <=> Launched = FirstR
         /\ ValidTuple(Row) <=> Launched = FirstR
         /\ Valid2d(Row) <=> Launched = FirstR
         /\ ValidCluster(Row) <=> Launched = FirstR
  <1>0. Row.tasks \in Int /\ Row.r \in Int /\ Row.x \in {1, 2}
    <2> DEFINE x == conf.x
               n == conf.units
               R == PredictedR(conf)
    <2>1. /\ Row.tasks = x * n /\ Row.r = x * R /\ Row.x = x /\ x \in {1, 2}
          /\ n \in Nat /\ R \in Nat
      BY DoneRow
    <2> HIDE DEF x, n, R
    <2> QED BY <2>1
  <1>1. /\ Structural(Row) <=> Launched = FirstR
        /\ Launched = FirstR =>
             /\ StructuralCluster(Row) /\ Row.active = Expected(Row)
             /\ Clean(Row) /\ SuffixClaimed(Row, Row.r)
    BY StructuralTold
  <1>2. ValidSweep(Row) <=> Launched = FirstR
    BY <1>1 DEF ValidSweep
  <1>3. ValidDecode(Row) <=> Launched = FirstR
    BY <1>1 DEF ValidDecode
  <1>4. ValidTuple(Row) <=> Launched = FirstR
    BY <1>1 DEF ValidTuple
  <1>5. Valid2d(Row) <=> Launched = FirstR
    <2>1. ASSUME Launched = FirstR, Row.tasks > Row.r
          PROVE  Coord(Row.cmin, Row.gx) = Coord(Row.r, Row.gx)
      <3>1. Row.cmin = Row.r
        BY <1>0, <1>1, <2>1 DEF SuffixClaimed
      <3> QED BY <3>1
    <2> QED BY <1>1, <2>1 DEF Valid2d
  <1>6. ValidCluster(Row) <=> Launched = FirstR
    <2>1. ValidCluster(Row) => Launched = FirstR
      BY <1>1 DEF ValidCluster, StructuralCluster
    <2>2. ASSUME Launched = FirstR PROVE ValidCluster(Row)
      <3>1. /\ Row.missed = 0 /\ Row.duplicates = 0 /\ Row.holes = 0
            /\ Row.active = Expected(Row) /\ StructuralCluster(Row)
        BY <1>1, <2>2 DEF Clean
      <3>2. CASE Row.tasks <= Row.r
        <4>1. Row.successes = 0 /\ Row.unique = 0
          BY <1>1, <2>2, <3>2 DEF SuffixClaimed
        <4>2. Row.bases = Row.successes
          BY DoneRow
        <4> QED BY <3>1, <3>2, <4>1, <4>2 DEF ValidCluster
      <3>3. CASE Row.tasks > Row.r
        <4>1. Row.cmin = Row.r /\ Row.cmax = Row.tasks - 1
          BY <1>1, <2>2, <1>0, <3>3 DEF SuffixClaimed
        <4>2. /\ Row.bmax = Row.tasks - Row.x
              /\ Row.bases = (Row.tasks - Row.r) \div Row.x
          BY <3>1, <3>3 DEF StructuralCluster
        <4> QED BY <1>0, <3>1, <3>3, <4>1, <4>2 DEF ValidCluster
      <3> QED BY <1>0, <3>2, <3>3
    <2> QED BY <2>1, <2>2
  <1> QED BY <1>2, <1>3, <1>4, <1>5, <1>6

(* The runtime suite asks for even use of the SMs too, and for workers that *)
(* stay where they started.                                                 *)
LEMMA RuntimeVerdict ==
  ASSUME SweepInv, CountInv, Done, conf \in Launches, conf.x = 1,
         conf.stride = 1
  PROVE  /\ StructuralRuntime(Row) <=> Launched = FirstR
         /\ ValidRuntime(Row) <=> Launched = FirstR /\ Even /\ ~regime.moved
  <1> DEFINE n == conf.units
             C == Cardinality(Claimed)
             L == Cardinality(Launched)
  <1>1. /\ Structural(Row) <=> Launched = FirstR
        /\ Launched = FirstR =>
             /\ Row.active = Expected(Row)
             /\ Clean(Row) /\ SuffixClaimed(Row, Row.r)
    BY StructuralTold
  <1>2. /\ n \in Nat /\ L \in Nat /\ C \in Nat /\ L + C = n
        /\ Row.tasks = 1 * n /\ Row.processed = 1 * n /\ Row.active = 1 * L
        /\ Row.attempts = n /\ Row.successes = C
        /\ Row.failures = Row.attempts - Row.successes
        /\ Row.unique = 1 * C
        /\ Claimed = {} => Row.cmin = 0
    BY DoneRow
  <1>3. Claimed = {} <=> C = 0
    BY FirstRTold
  <1> HIDE DEF n, C, L
  <1>4. Tallied(Row)
    BY <1>2 DEF Tallied
  <1>5. StructuralRuntime(Row) <=> Launched = FirstR
    BY <1>1, <1>4 DEF StructuralRuntime
  <1>6. ASSUME Launched = FirstR
        PROVE  ValidRuntime(Row) <=> Row.spread <= 1 /\ ~Row.moved
    <2>1. /\ Clean(Row) /\ Row.processed = Row.tasks /\ Row.attempts = Row.tasks
          /\ Row.active = Expected(Row)
          /\ Row.successes = Row.tasks - Expected(Row)
          /\ Row.failures = Expected(Row)
      BY <1>1, <1>2, <1>6
    <2>2. IF Row.tasks <= Row.r THEN Row.unique = 0 /\ Row.cmin = 0
                                ELSE SuffixClaimed(Row, Row.r)
      <3>1. CASE Row.tasks <= Row.r
        <4>1. Row.unique = 0
          BY <1>1, <1>6, <3>1 DEF SuffixClaimed
        <4>2. Row.cmin = 0
          BY <1>2, <1>3, <4>1
        <4> QED BY <3>1, <4>1, <4>2
      <3>2. CASE ~ (Row.tasks <= Row.r)
        BY <1>1, <1>6, <3>2
      <3> QED BY <3>1, <3>2
    <2> QED BY <1>5, <1>6, <2>1, <2>2 DEF ValidRuntime
  <1>7. ValidRuntime(Row) => Launched = FirstR
    BY <1>5 DEF ValidRuntime
  <1>8. /\ Row.spread <= 1 <=> Even
        /\ Row.moved = regime.moved
    BY SpreadTold DEF Row
  <1> QED BY <1>5, <1>6, <1>7, <1>8

(* Beside a pressure kernel the suffix is asked for from the first claim    *)
(* on; that it begins at R follows from the number of workers.  No worker   *)
(* may have moved, and a pressure kernel not have run beside the launch.    *)
LEMMA PressureVerdict ==
  ASSUME SweepInv, CountInv, Done, conf \in Launches, conf.x = 1,
         conf.stride = 1
  PROVE  /\ Launched = FirstR /\ ~regime.moved => StructuralPressure(Row)
         /\ ValidPressure(Row)
              <=> /\ Launched = FirstR /\ ~regime.moved
                  /\ conf.pressure > 0 => ~regime.overlap
  <1> DEFINE n == conf.units
             R == PredictedR(conf)
             C == Cardinality(Claimed)
             L == Cardinality(Launched)
  <1>1. /\ Launched = FirstR =>
             /\ Row.active = Expected(Row)
             /\ Clean(Row) /\ SuffixClaimed(Row, Row.active)
    BY StructuralTold
  <1>2. /\ n \in Nat /\ L \in Nat /\ C \in Nat /\ L + C = n /\ R \in Nat
        /\ Row.tasks = 1 * n /\ Row.processed = 1 * n /\ Row.active = 1 * L
        /\ Row.r = 1 * R /\ Row.attempts = n /\ Row.successes = C
        /\ Row.failures = Row.attempts - Row.successes
        /\ Row.unique = 1 * C
        /\ Claimed # {} => Row.cmin = 1 * Min(Claimed)
    BY DoneRow
  <1>3. /\ Claimed = {} <=> C = 0
        /\ Claimed # {} => Min(Claimed) \in Int
        /\ n <= R => (Launched = FirstR <=> C = 0)
        /\ n > R => (Launched = FirstR
                       <=> Claimed # {} /\ Min(Claimed) = R /\ C = n - R)
    BY FirstRTold
  <1>4. Expected(Row) = IF n <= R THEN n ELSE R
    <2> HIDE DEF n, R
    <2> QED BY <1>2, LesserOf DEF Expected
  <1> HIDE DEF n, R, C, L
  <1>5. /\ Row.moved = regime.moved /\ Row.overlap = regime.overlap
        /\ Row.pressure = conf.pressure /\ Row.started = conf.pressure
    BY DEF Row
  <1>6. ASSUME Launched = FirstR, ~regime.moved
        PROVE  /\ StructuralPressure(Row)
               /\ (conf.pressure > 0 => ~regime.overlap) => ValidPressure(Row)
    <2>1. StructuralPressure(Row)
      BY <1>1, <1>2, <1>5, <1>6 DEF StructuralPressure, Tallied
    <2> QED BY <1>1, <1>2, <1>5, <1>6, <2>1 DEF ValidPressure
  <1>7. ASSUME ValidPressure(Row)
        PROVE  /\ Launched = FirstR /\ ~regime.moved
               /\ conf.pressure > 0 => ~regime.overlap
    <2>1. Row.active = Expected(Row) /\ SuffixClaimed(Row, Row.active)
      BY <1>7 DEF ValidPressure, StructuralPressure
    <2>2. ASSUME n <= R PROVE Launched = FirstR
      BY <1>2, <1>3, <1>4, <2>1, <2>2
    <2>3. ASSUME n > R PROVE Launched = FirstR
      <3>1. L = R /\ C = n - R /\ Claimed # {}
        BY <1>2, <1>3, <1>4, <2>1, <2>3
      <3>2. Row.cmin = Row.active
        BY <1>2, <2>1, <2>3, <3>1 DEF SuffixClaimed
      <3> QED BY <1>2, <1>3, <2>3, <3>1, <3>2
    <2>4. Launched = FirstR
      BY <1>2, <2>2, <2>3
    <2>5. ~Row.moved /\ (Row.pressure > 0 => ~Row.overlap)
      BY <1>7, Zenon DEF ValidPressure
    <2>6. ~regime.moved /\ (conf.pressure > 0 => ~regime.overlap)
      BY <1>5, <2>5, Zenon
    <2> QED BY <2>4, <2>6, Zenon
  <1> QED BY <1>6, <1>7

(* Participation: with a stride of one the launch of the first R, else more *)
(* workers than R and a hole in what was claimed.                           *)
LEMMA PartVerdict ==
  ASSUME SweepInv, CountInv, Done, conf \in Launches, conf.x = 1,
         conf.stride = 1 => conf.units > PredictedR(conf)
  PROVE  ValidPart(Row)
           <=> IF conf.stride = 1 THEN Launched = FirstR
               ELSE /\ \E u, v \in Claimed, w \in Launched : u < w /\ w < v
                    /\ Cardinality(Launched) > PredictedR(conf)
  <1> DEFINE n == conf.units
             R == PredictedR(conf)
             C == Cardinality(Claimed)
             L == Cardinality(Launched)
  <1>1. /\ Row.processed = Row.tasks /\ ExactlyOnceRow(Row)
    BY DoneRow DEF ExactlyOnceRow
  <1>2. /\ n \in Nat /\ L \in Nat /\ C \in Nat /\ L + C = n /\ R \in Nat \ {0}
        /\ Row.active = 1 * L /\ Row.tasks = 1 * n /\ Row.stride = conf.stride
        /\ Row.r = 1 * R
        /\ Claimed = {} => Row.cmin = 0 /\ Row.holes = 0
        /\ Claimed # {} => /\ Row.cmin = 1 * Min(Claimed)
                           /\ Row.cmax = 1 * (Max(Claimed) + 1) - 1
                           /\ Row.holes = (Row.cmax - Row.cmin + 1) - 1 * C
    BY DoneRow
  <1>3. /\ Claimed = {} <=> C = 0
        /\ Claimed # {} => Min(Claimed) \in Int /\ Max(Claimed) \in Int
        /\ n > R => (Launched = FirstR
                       <=> Claimed # {} /\ Min(Claimed) = R /\ C = n - R)
        /\ n > R /\ Launched = FirstR => Max(Claimed) = n - 1
    BY FirstRTold
  <1>4. CASE conf.stride = 1
    <2>1. n > R
      BY <1>4
    <2> HIDE DEF n, R, C, L
    <2>2. ASSUME Launched = FirstR PROVE ValidPart(Row)
      BY <1>1, <1>2, <1>3, <1>4, <2>1, <2>2 DEF ValidPart
    <2>3. ASSUME ValidPart(Row) PROVE Launched = FirstR
      <3>1. Row.active = Row.r /\ Row.holes = 0 /\ Row.cmin = Row.r
        BY <1>2, <1>4, <2>3 DEF ValidPart
      <3>2. Claimed # {}
        BY <1>2, <3>1
      <3> QED BY <1>2, <1>3, <2>1, <3>1, <3>2
    <2> QED BY <1>4, <2>2, <2>3
  <1>5. CASE conf.stride # 1
    <2>1. ValidPart(Row) <=> Row.holes # 0 /\ Row.active > Row.r
      BY <1>1, <1>2, <1>5 DEF ValidPart
    <2>2. Row.active > Row.r <=> L > R
      <3> HIDE DEF L, R
      <3> QED BY <1>2
    <2> QED BY <1>5, <2>1, <2>2, HolesTold
  <1> QED BY <1>4, <1>5

(* The counts and the plan make every verdict true. *)
LEMMA VerdictsState == SweepInv /\ CountInv /\ PlanInv => VerdictsTrue
  <1> SUFFICES ASSUME SweepInv, CountInv, PlanInv, Validating,
                      Suite \notin {"trace", "mapping"}
               PROVE  Valid(Suite, Row) <=>
                        IF conf.stride = 1
                        THEN /\ Launched = FirstR
                             /\ Suite = "runtime" => Even
                             /\ Suite \in {"runtime", "pressure"} => ~regime.moved
                             /\ Suite = "pressure" => ~regime.overlap
                        ELSE /\ \E u, v \in Claimed, w \in Launched : u < w /\ w < v
                             /\ Cardinality(Launched) > PredictedR(conf)
    BY DEF VerdictsTrue
  <1>1. Done /\ probing
    BY DEF Validating
  <1>2. /\ conf \in Launches /\ Fits(Suite, conf) /\ Suite \in Suites
        /\ conf.x \in {1, 2} /\ (Suite # "cluster" => conf.x = 1)
    BY <1>1, ProbeConf
  <1>3. CASE Suite = "participation"
    BY <1>1, <1>2, <1>3, PartVerdict DEF Fits, Valid
  <1>4. CASE Suite = "runtime"
    BY <1>1, <1>2, <1>4, RuntimeVerdict DEF Fits, Valid
  <1>5. CASE Suite = "pressure"
    <2>1. regime \in Behaviours(Suite, conf) /\ conf.pressure \in Nat
      BY <1>1, <1>2 DEF PlanInv, Launches
    <2>2. conf.pressure = 0 => ~regime.overlap
      BY <2>1 DEF Behaviours, Observed
    <2>3. conf.stride = 1
      BY <1>2, <1>5 DEF Fits
    <2>4. Valid(Suite, Row) <=> ValidPressure(Row)
      BY <1>5 DEF Valid
    <2> QED BY <1>1, <1>2, <1>5, <2>1, <2>2, <2>3, <2>4, PressureVerdict
  <1>6. CASE Suite \notin {"participation", "runtime", "pressure"}
    <2>1. conf.stride = 1
      BY <1>2, <1>6 DEF Fits
    <2>2. Valid(Suite, Row) <=> Launched = FirstR
      BY <1>1, <1>2, <1>6, PlainVerdict DEF Valid
    <2> QED BY <1>6, <2>1, <2>2
  <1> QED BY <1>3, <1>4, <1>5, <1>6

(* Whatever the hardware did in a launch, a suite calls its row valid       *)
(* exactly when the launch was the one FINDINGS.md describes, on SMs used   *)
(* evenly and by workers that stay on theirs where the suite asks for it,   *)
(* and, for the pressure suite, not beside the pressure kernel for longer   *)
(* than tolerated: the counters and the timing of the row are enough.       *)
THEOREM VerdictsSound == Spec => []VerdictsTrue
  BY SweepAlways, CountAlways, PlanAlways, VerdictsState, PTL

-----------------------------------------------------------------------------
(* The documented behaviour: the first wave. *)

(* If occ CTAs fit on each SM and as many as fit are there, each is full.   *)
LEMMA AllFull ==
  ASSUME NEW m \in Nat \ {0}, NEW occ \in Nat, NEW D, IsFiniteSet(D),
         NEW p \in [D -> 0 .. (m - 1)], Cardinality(D) = occ * m,
         \A s \in 0 .. (m - 1) : Cardinality(Fibre(D, p, s)) <= occ
  PROVE  \A s \in 0 .. (m - 1) : Cardinality(Fibre(D, p, s)) = occ
  <1> SUFFICES ASSUME NEW t \in 0 .. (m - 1), Cardinality(Fibre(D, p, t)) # occ
               PROVE  FALSE
    OBVIOUS
  <1> DEFINE S == 0 .. (m - 1)
             F == Fibres(S, D, p)
  <1>1. IsFiniteSet(S) /\ Cardinality(S) = m /\ p \in [D -> S] /\ t \in S
    BY FS_Interval
  <1>2. \A s \in S : /\ Cardinality(Fibre(D, p, s)) \in Nat
                     /\ Cardinality(Fibre(D, p, s)) <= occ
    <2>1. ASSUME NEW s \in S PROVE Cardinality(Fibre(D, p, s)) \in Nat
      <3>1. Fibre(D, p, s) \in SUBSET D
        BY DEF Fibre
      <3>2. IsFiniteSet(Fibre(D, p, s))
        BY <3>1, FS_Subset
      <3> QED BY <3>2, FS_CardinalityType
    <2> QED BY <2>1
  <1> HIDE DEF S
  <1>3. F \in [S -> Int] /\ (\A s \in S : F[s] <= occ) /\ F[t] # occ
    BY <1>1, <1>2 DEF Fibres
  <1> HIDE DEF F
  <1>4. SumFunction(F) = occ * m
    BY <1>1, SumOfParts DEF F
  <1>5. occ \in Int
    OBVIOUS
  <1> QED BY <1>1, <1>3, <1>4, <1>5, SumShort

(* On the documented behaviour the CTAs of the first wave fill the device   *)
(* until nothing is pending, so that no other cluster is ever launched.     *)
Beside(s) == {w \in Live : sm[w] = s}
DeviceFull == \A s \in 0 .. (SMs - 1) : Cardinality(Beside(s)) = conf.occ

WaveInv ==
  probing /\ regime = Observed /\ conf.stride = 1 =>
    /\ Launched = FirstR
    /\ Pending # {} => DeviceFull

(* On an idle device every SM has the slots the occupancy query reports, so
   the first wave is the first R clusters. *)
LEMMA ObservedSlots ==
  ASSUME NEW c \in Launches
  PROVE  /\ \A s \in 0 .. (SMs - 1) : Slots(c, Observed, s) = c.occ
         /\ FirstWave(c, Observed) = {u \in 0 .. (c.units - 1) : u < PredictedR(c)}
         /\ c.occ \in Nat \ {0} /\ c.units \in Nat /\ PredictedR(c) \in Nat
  <1>1. c.occ \in Nat \ {0} /\ c.units \in Nat
    BY DEF Launches
  <1>2. Observed.eager = TRUE /\ Observed.taken = 0
    BY DEF Observed
  <1>3. \A s \in 0 .. (SMs - 1) : Slots(c, Observed, s) = c.occ
    BY <1>1, <1>2 DEF Slots
  <1> DEFINE S == 0 .. (SMs - 1)
             F == [s \in S |-> Slots(c, Observed, s)]
             o == c.occ
  <1>4. IsFiniteSet(S) /\ Cardinality(S) = SMs
    BY FS_Interval
  <1>5. F \in [S -> Int] /\ \A s \in S : F[s] = o
    BY <1>1, <1>3
  <1>6. o \in Int
    BY <1>1
  <1>7. SumFunction(F) = o * SMs
    <2> HIDE DEF S, F, o
    <2> QED BY <1>4, <1>5, <1>6, SumConstant
  <1>8. PredictedR(c) \in Nat
    BY <1>1 DEF PredictedR
  <1> QED BY <1>1, <1>2, <1>3, <1>7, <1>8 DEF FirstWave, PredictedR

(* A launch on an idle device admits its first wave. *)
LEMMA WaveLaunch ==
  ASSUME NEW c \in Launches, NEW g, NEW p \in Placements(c, g), Launch(c, g, p)
  PROVE  WaveInv'
  <1> SUFFICES ASSUME regime' = Observed
               PROVE  Launched' = FirstR' /\ (Pending' # {} => DeviceFull')
    BY DEF WaveInv
  <1>1. g = Observed /\ conf' = c
    BY DEF Launch
  <1> DEFINE D == {u \in 0 .. (c.units - 1) : u < PredictedR(c)}
             N == c.units
             R == PredictedR(c)
  <1>2. /\ p \in [D -> 0 .. (SMs - 1)]
        /\ \A s \in 0 .. (SMs - 1) : Cardinality({u \in D : p[u] = s}) <= c.occ
        /\ N \in Nat /\ R \in Nat
    <2>1. p \in [FirstWave(c, g) -> 0 .. (SMs - 1)]
          /\ \A s \in 0 .. (SMs - 1) :
               Cardinality({u \in DOMAIN p : p[u] = s}) <= Slots(c, g, s)
      BY DEF Placements
    <2>2. p \in [D -> 0 .. (SMs - 1)]
          /\ \A s \in 0 .. (SMs - 1) : Cardinality({u \in DOMAIN p : p[u] = s}) <= c.occ
      BY <1>1, <2>1, ObservedSlots
    <2>3. DOMAIN p = D
      BY <2>2
    <2> QED BY <2>2, <2>3, ObservedSlots
  <1>3. N <= MaxUnits /\ D \in SUBSET Units /\ 0 .. (N - 1) \in SUBSET Units
    BY <1>2 DEF Launches, Units
  <1>4. DOMAIN p = D
    BY <1>2
  <1>5. /\ \A u \in Units : status'[u] = IF u \in D THEN "resident"
                                         ELSE IF u < N THEN "pending" ELSE "out"
        /\ \A u \in Units : sm'[u] = IF u \in D THEN p[u] ELSE Nothing
    <2> HIDE DEF D
    <2> QED BY <1>4 DEF Launch
  <1>6. Grid' = 0 .. (N - 1)
    BY <1>1 DEF Grid
  <1>7. FirstR' = D
    BY <1>1, <1>6 DEF FirstR
  <1>8. \A u \in D : p[u] # Nothing /\ p[u] \in 0 .. (SMs - 1)
    <2> HIDE DEF D
    <2> QED BY <1>2 DEF Nothing
  <1>9. Launched' = D
    <2>1. D \in SUBSET (0 .. (N - 1))
      OBVIOUS
    <2> HIDE DEF D
    <2> QED BY <1>3, <1>5, <1>6, <1>8, <2>1 DEF Launched
  <1>10. Live' = D
    <2> HIDE DEF D
    <2> QED BY <1>3, <1>5 DEF Live
  <1>11. ASSUME Pending' # {} PROVE DeviceFull'
    <2>1. PICK u \in Units : u \notin D /\ u < N
      <3> HIDE DEF D
      <3> QED BY <1>5, <1>11 DEF Pending
    <2>2. R < N /\ D = 0 .. (R - 1)
      BY <1>2, <2>1, UnitsNat
    <2>3. IsFiniteSet(D) /\ Cardinality(D) = R
      <3> HIDE DEF D, R
      <3> QED BY <1>2, <2>2, FS_Interval
    <2>4. Cardinality(D) = c.occ * SMs /\ c.occ \in Nat
      BY <2>3, ObservedSlots DEF PredictedR
    <2>5. \A s \in 0 .. (SMs - 1) : Cardinality(Fibre(D, p, s)) <= c.occ
      BY <1>2 DEF Fibre
    <2>6. \A s \in 0 .. (SMs - 1) : Cardinality(Fibre(D, p, s)) = c.occ
      <3> HIDE DEF D, R, N
      <3> QED BY <1>2, <2>3, <2>4, <2>5, AllFull
    <2>7. ASSUME NEW s \in 0 .. (SMs - 1) PROVE Beside(s)' = Fibre(D, p, s)
      <3> HIDE DEF D
      <3> QED BY <1>3, <1>5, <1>10 DEF Beside, Fibre
    <2> QED BY <1>1, <2>6, <2>7 DEF DeviceFull
  <1> QED BY <1>7, <1>9, <1>11

(* On an idle device there is no later admission: while clusters are pending,
   the first wave keeps every slot. *)
LEMMA WaveAdmit ==
  ASSUME DeviceInv, conf \in Launches, WaveInv, probing, probing' = probing,
         NEW u \in Units, NEW s \in 0 .. (SMs - 1), Admit(u, s)
  PROVE  WaveInv'
  <1> SUFFICES ASSUME regime' = Observed, conf'.stride = 1 PROVE FALSE
    BY DEF WaveInv
  <1>1. regime = Observed /\ conf.stride = 1 /\ Pending # {}
        /\ Cardinality(Beside(s)) < conf.occ
    BY DEF Admit, Beside
  <1>2. Cardinality(Beside(s)) = conf.occ /\ conf.occ \in Nat
    BY <1>1, ObservedSlots DEF WaveInv, DeviceFull
  <1> QED BY <1>1, <1>2

(* Serving a cluster leaves the first wave what it was. *)
LEMMA WaveServe ==
  ASSUME DeviceInv, conf \in Launches, WaveInv, probing, probing' = probing,
         NEW w \in Units, Serve(w)
  PROVE  WaveInv'
  <1> SUFFICES ASSUME regime' = Observed, conf'.stride = 1
               PROVE  Launched' = FirstR' /\ (Pending' # {} => DeviceFull')
    BY DEF WaveInv
  <1>1. /\ status \in [Units -> {"out", "pending", "resident", "claiming",
                                 "left", "cancelled"}]
        /\ status[w] = "resident" /\ conf' = conf /\ regime' = regime /\ sm' = sm
    BY DEF DeviceInv, DeviceType, Serve
  <1>2. Participates(w)
    BY <1>1, UnitsNat DEF Participates
  <1>3. \A v \in Units : status'[v] = IF v = w THEN "claiming" ELSE status[v]
    BY <1>1, <1>2 DEF Serve
  <1>4. Live' = Live /\ Pending' = Pending
    BY <1>1, <1>3 DEF Live, Pending
  <1>5. Launched' = Launched /\ FirstR' = FirstR
    BY <1>1 DEF Launched, FirstR, Grid
  <1>6. DeviceFull' <=> DeviceFull
    BY <1>1, <1>4 DEF DeviceFull, Beside
  <1> QED BY <1>1, <1>4, <1>5, <1>6 DEF WaveInv

(* A claim only takes a cluster from those that are pending. *)
LEMMA WaveClaim ==
  ASSUME DeviceInv, conf \in Launches, WaveInv, probing, probing' = probing,
         NEW w \in Units, NEW u \in Units, Claim(w, u)
  PROVE  WaveInv'
  <1> SUFFICES ASSUME regime' = Observed, conf'.stride = 1
               PROVE  Launched' = FirstR' /\ (Pending' # {} => DeviceFull')
    BY DEF WaveInv
  <1>1. /\ status[w] = "claiming" /\ status[u] = "pending"
        /\ conf' = conf /\ regime' = regime /\ sm' = sm
    BY DEF Claim, Pending
  <1>2. \A v \in Units : status'[v] = IF v = w THEN "resident"
                                      ELSE IF v = u THEN "cancelled" ELSE status[v]
    BY <1>1 DEF Claim, DeviceInv, DeviceType
  <1>3. Live' = Live /\ Pending' \in SUBSET Pending
    BY <1>1, <1>2 DEF Live, Pending
  <1>4. Launched' = Launched /\ FirstR' = FirstR
    BY <1>1 DEF Launched, FirstR, Grid
  <1>5. DeviceFull' <=> DeviceFull
    BY <1>1, <1>3 DEF DeviceFull, Beside
  <1> QED BY <1>1, <1>3, <1>4, <1>5 DEF WaveInv

(* On an idle device an attempt fails only when nothing is pending. *)
LEMMA WaveFail ==
  ASSUME DeviceInv, conf \in Launches, WaveInv, probing, probing' = probing,
         NEW w \in Units, Fail(w)
  PROVE  WaveInv'
  <1> SUFFICES ASSUME regime' = Observed, conf'.stride = 1
               PROVE  Launched' = FirstR' /\ Pending' = {}
    BY DEF WaveInv
  <1>1. conf' = conf /\ regime' = regime /\ sm' = sm /\ status[w] = "claiming"
    BY DEF Fail
  <1>2. Pending = {}
    BY <1>1 DEF Fail, Observed
  <1>3. \A v \in Units : status'[v] = IF v = w THEN "left" ELSE status[v]
    BY DEF Fail, DeviceInv, DeviceType
  <1>4. Pending' = {}
    BY <1>2, <1>3 DEF Pending
  <1>5. Launched' = Launched /\ FirstR' = FirstR
    BY <1>1 DEF Launched, FirstR, Grid
  <1> QED BY <1>1, <1>4, <1>5 DEF WaveInv

(* Steps of the script leave the device alone. *)
LEMMA WaveStays ==
  ASSUME WaveInv, UNCHANGED device, probing' => probing
  PROVE  WaveInv'
  <1>1. UNCHANGED <<conf, regime, status, sm>>
    BY DEF device
  <1>2. Launched' = Launched /\ FirstR' = FirstR /\ Pending' = Pending
        /\ (DeviceFull' <=> DeviceFull)
    BY <1>1 DEF Launched, FirstR, Grid, Pending, DeviceFull, Beside, Live
  <1> QED BY <1>1, <1>2 DEF WaveInv

(* Every step preserves the account of the first wave. *)
LEMMA WaveNext == SweepInv /\ PlanInv /\ WaveInv /\ [Next]_vars => WaveInv'
  <1> SUFFICES ASSUME SweepInv, PlanInv, WaveInv, [Next]_vars PROVE WaveInv'
    OBVIOUS
  <1>1. DeviceInv
    BY DEF SweepInv
  <1>2. CASE StartProbe
    <2>1. LET c == Head(plan).conf
          IN \E g \in Behaviours(Suite, c) :
               c \in Launches /\ \E p \in Placements(c, g) : Launch(c, g, p)
      <3>1. Head(plan) \in Shots
        BY <1>2, HeadTailProperties DEF StartProbe, SweepInv
      <3>2. Head(plan).conf \in Launches
        BY <3>1 DEF Shots
      <3> QED BY <1>2, <3>2 DEF StartProbe
    <2> QED BY <2>1, WaveLaunch
  <1>3. CASE probing /\ Gpu /\ UNCHANGED harness
    <2>1. probing' = probing /\ conf \in Launches
      BY <1>3, ProbeConf DEF harness
    <2> QED BY <1>1, <1>3, <2>1, WaveAdmit, WaveServe, WaveClaim, WaveFail DEF Gpu
  <1>4. CASE ProbeFails \/ Predict \/ Capture \/ Validate \/ Report \/ UNCHANGED vars
    <2>1. UNCHANGED device /\ (probing' => probing)
      BY <1>4 DEF ProbeFails, Predict, Capture, Validate, Collected, Report,
                  vars, harness
    <2> QED BY <2>1, WaveStays
  <1> QED BY <1>2, <1>3, <1>4 DEF Next

(* So it holds throughout. *)
LEMMA WaveAlways == Spec => []WaveInv
  <1>1. Init => WaveInv
    BY DEF Init, WaveInv
  <1> QED BY SweepAlways, PlanAlways, <1>1, WaveNext, PTL DEF Spec

(* With the first wave accounted for, no documented launch is refused. *)
LEMMA DocumentedState ==
  SweepInv /\ CountInv /\ PlanInv /\ WaveInv => DocumentedPasses
  <1> SUFFICES ASSUME SweepInv, CountInv, PlanInv, WaveInv,
                      probing, Done, regime = Observed
               PROVE  /\ ExitsZero(Suite, Row)
                      /\ conf.stride = 1 /\ Suite \notin {"runtime", "mapping"}
                           => Valid(Suite, Row)
    BY DEF DocumentedPasses
  <1>1. /\ conf \in Launches /\ Fits(Suite, conf) /\ Suite \in Suites
        /\ conf.x \in {1, 2} /\ (Suite # "cluster" => conf.x = 1)
    BY ProbeConf
  <1>2. CASE conf.stride = 1
    <2>1. Launched = FirstR
      BY <1>2 DEF WaveInv
    <2>2. Structural(Row) /\ StructuralCluster(Row) /\ ExactlyOnceRow(Row)
      BY <1>1, <2>1, StructuralTold DEF Structural, Clean, ExactlyOnceRow
    <2>3. Suite # "cluster" =>
            /\ StructuralRuntime(Row) /\ StructuralMapping(Row)
            /\ StructuralPressure(Row) /\ ValidPressure(Row)
      <3>1. ~regime.moved /\ ~regime.overlap
        BY DEF Observed
      <3>2. ~Row.moved
        BY <3>1 DEF Row
      <3> QED BY <1>1, <1>2, <2>1, <3>1, <3>2, RuntimeVerdict, PressureVerdict
                 DEF StructuralMapping
    <2>4. ExitsZero(Suite, Row)
      BY <2>2, <2>3 DEF ExitsZero, ExactlyOnceRow
    <2>5. /\ ValidSweep(Row) /\ ValidDecode(Row) /\ ValidTuple(Row)
          /\ Valid2d(Row) /\ ValidCluster(Row)
      BY <1>1, <2>1, PlainVerdict
    <2>6. Suite = "participation" => ValidPart(Row)
      BY <1>1, <1>2, <2>1, PartVerdict DEF Fits
    <2>7. ASSUME Suite \notin {"runtime", "mapping"} PROVE Valid(Suite, Row)
      BY <1>1, <2>3, <2>5, <2>6, <2>7 DEF Valid, Suites
    <2> QED BY <2>4, <2>7
  <1>3. CASE conf.stride # 1
    <2>1. Suite = "participation"
      BY <1>1, <1>3 DEF Fits
    <2>2. Row.missed = 0 /\ Row.duplicates = 0 /\ Row.dupClaims = 0
      BY <1>1, DoneRow
    <2> QED BY <1>3, <2>1, <2>2 DEF ExitsZero, ExactlyOnceRow
  <1> QED BY <1>2, <1>3

(* DocumentedPasses for every device, grid and number of repeats: on the    *)
(* behaviour FINDINGS.md documents no probe exits nonzero, and the suites   *)
(* that do not look at the placement accept each row with a stride of 1.    *)
THEOREM DocumentedSound == Spec => []DocumentedPasses
  BY SweepAlways, CountAlways, PlanAlways, WaveAlways, DocumentedState, PTL

-----------------------------------------------------------------------------
(* What the reports vouch for. *)

RowRecords == [conf : Launches, valid : BOOLEAN]

(* What is left of a list that is worked off from its head.                 *)
Suffix(p, q) ==
  /\ Len(p) <= Len(q)
  /\ \A j \in 1 .. Len(p) : p[j] = q[Len(q) - Len(p) + j]

(* The planned rows of a configuration among the first k launches.          *)
RowsDone(s, k, c) == {i \in 1 .. k : Plan(s)[i] = Shot("row", c)}
Made(s) == Len(Plan(s)) - Len(plan)

ReportLines(s, f) ==
  /\ DOMAIN f = {c \in Configs(s) : RowsPlanned(s, c) > 0}
  /\ \A c \in DOMAIN f : f[c].repeats = RowsPlanned(s, c)

Progress ==
  /\ Suffix(plan, Plan(Suite))
  /\ \A c \in Launches :
       Cardinality(Group(c)) = Cardinality(RowsDone(Suite, Made(Suite), c))

ReportInv ==
  /\ rows \in Seq(RowRecords)
  /\ Suffix(todo, RunAll)
  /\ DOMAIN files = {RunAll[i] : i \in 1 .. (Len(RunAll) - Len(todo))}
  /\ exit = "running" => Progress
  /\ \A s \in DOMAIN files : ReportLines(s, files[s])
  /\ exit = "ok" => todo = <<>>
  /\ exit \in {"running", "ok", "died"} =>
       \A s \in DOMAIN files :
         ~AllOk(files[s]) => s = "tuple" /\ Suite = "participation"
  /\ exit = "invalid" => \E s \in DOMAIN files : ~AllOk(files[s])

(* ReportInv holds what ReportVouches says, and how a suite gets there. *)
LEMMA ReportVouchesState == ReportInv => ReportVouches
  BY DEF ReportInv, ReportVouches, ReportLines

(* Taking the next run off a plan moves one place along it. *)
LEMMA SuffixTail ==
  ASSUME NEW S, NEW p \in Seq(S), NEW q \in Seq(S), p # <<>>, Suffix(p, q)
  PROVE  LET k == Len(q) - Len(p)
         IN /\ k \in Nat /\ k + 1 \in 1 .. Len(q) /\ Head(p) = q[k + 1]
            /\ Tail(p) \in Seq(S) /\ Suffix(Tail(p), q)
            /\ Len(q) - Len(Tail(p)) = k + 1
  <1>1. /\ Tail(p) \in Seq(S) /\ Len(Tail(p)) = Len(p) - 1 /\ Len(p) \in Nat
        /\ Len(q) \in Nat /\ Len(p) > 0 /\ Head(p) = p[1]
        /\ \A i \in 1 .. Len(Tail(p)) : Tail(p)[i] = p[i + 1]
    BY HeadTailProperties, LenProperties, EmptySeq
  <1>2. Head(p) = q[Len(q) - Len(p) + 1]
    BY <1>1 DEF Suffix
  <1>3. ASSUME NEW j \in 1 .. Len(Tail(p))
        PROVE  Tail(p)[j] = q[Len(q) - Len(Tail(p)) + j]
    <2>1. j + 1 \in 1 .. Len(p) /\ Tail(p)[j] = p[j + 1]
      BY <1>1
    <2>2. p[j + 1] = q[Len(q) - Len(p) + (j + 1)]
      BY <2>1 DEF Suffix
    <2>3. Len(q) - Len(p) + (j + 1) = Len(q) - Len(Tail(p)) + j
      BY <1>1
    <2> QED BY <2>1, <2>2, <2>3
  <1> QED BY <1>1, <1>2, <1>3 DEF Suffix

(* The rows planned so far of one configuration can be counted. *)
LEMMA RowsFinite ==
  ASSUME NEW s, NEW k \in Nat, NEW c
  PROVE  IsFiniteSet(RowsDone(s, k, c)) /\ Cardinality(RowsDone(s, k, c)) \in Nat
  <1>1. RowsDone(s, k, c) \in SUBSET (1 .. k) /\ IsFiniteSet(1 .. k)
    BY FS_Interval DEF RowsDone
  <1>2. IsFiniteSet(RowsDone(s, k, c))
    BY <1>1, FS_Subset
  <1> QED BY <1>2, FS_CardinalityType

(* One run further, one row more if the run was a row of that configuration. *)
LEMMA RowsMore ==
  ASSUME NEW s, NEW k \in Nat, NEW c
  PROVE  Cardinality(RowsDone(s, k + 1, c))
           = Cardinality(RowsDone(s, k, c))
               + (IF Plan(s)[k + 1] = Shot("row", c) THEN 1 ELSE 0)
  <1>1. IsFiniteSet(RowsDone(s, k, c)) /\ Cardinality(RowsDone(s, k, c)) \in Nat
    BY RowsFinite
  <1>2. CASE Plan(s)[k + 1] = Shot("row", c)
    <2>1. RowsDone(s, k + 1, c) = RowsDone(s, k, c) \cup {k + 1}
          /\ k + 1 \notin RowsDone(s, k, c)
      BY <1>2 DEF RowsDone
    <2> QED BY <1>1, <1>2, <2>1, FS_AddElement
  <1>3. CASE Plan(s)[k + 1] # Shot("row", c)
    <2>1. RowsDone(s, k + 1, c) = RowsDone(s, k, c)
      BY <1>3 DEF RowsDone
    <2> QED BY <1>1, <1>3, <2>1
  <1> QED BY <1>2, <1>3

RowsOf(r, c) == {i \in DOMAIN r : r[i].conf = c}

(* One row more, one more in the group of its configuration. *)
LEMMA GroupMore ==
  ASSUME NEW r \in Seq(RowRecords), NEW x \in RowRecords, NEW c
  PROVE  Cardinality(RowsOf(Append(r, x), c))
           = Cardinality(RowsOf(r, c)) + (IF x.conf = c THEN 1 ELSE 0)
  <1> DEFINE n == Len(r)
             a == Append(r, x)
  <1>1. /\ n \in Nat /\ DOMAIN r = 1 .. n /\ DOMAIN a = 1 .. (n + 1)
        /\ \A i \in 1 .. n : a[i] = r[i]
        /\ a[n + 1] = x
    BY AppendProperties, LenProperties
  <1> HIDE DEF n, a
  <1>2. IsFiniteSet(RowsOf(r, c)) /\ Cardinality(RowsOf(r, c)) \in Nat
    <2>1. RowsOf(r, c) \in SUBSET (1 .. n) /\ IsFiniteSet(1 .. n)
      BY <1>1, FS_Interval DEF RowsOf
    <2>2. IsFiniteSet(RowsOf(r, c))
      BY <2>1, FS_Subset
    <2> QED BY <2>2, FS_CardinalityType
  <1>3. CASE x.conf = c
    <2>1. RowsOf(a, c) = RowsOf(r, c) \cup {n + 1} /\ n + 1 \notin RowsOf(r, c)
      BY <1>1, <1>3 DEF RowsOf
    <2> QED BY <1>2, <1>3, <2>1, FS_AddElement DEF a
  <1>4. CASE x.conf # c
    <2>1. RowsOf(a, c) = RowsOf(r, c)
      BY <1>1, <1>4 DEF RowsOf
    <2> QED BY <1>2, <1>4, <2>1 DEF a
  <1> QED BY <1>3, <1>4

(* When every planned row is there, the aggregate has all of them.          *)
LEMMA AggregateTells ==
  ASSUME rows \in Seq(RowRecords), NEW s \in Suites,
         \A c \in Launches :
           Cardinality(Group(c)) = Cardinality(RowsDone(s, Len(Plan(s)), c))
  PROVE  ReportLines(s, Aggregate)
  <1> DEFINE L == Len(Plan(s))
  <1>1. Plan(s) \in Seq(Shots) /\ L \in Nat /\ DOMAIN Plan(s) = 1 .. L
    BY PlanType, LenProperties
  <1>2. /\ Len(rows) \in Nat /\ DOMAIN rows = 1 .. Len(rows)
        /\ \A i \in DOMAIN rows : rows[i].conf \in Launches
    <2>1. /\ Len(rows) \in Nat /\ DOMAIN rows = 1 .. Len(rows)
          /\ \A i \in 1 .. Len(rows) : rows[i] \in RowRecords
      BY LenProperties, ElementOfSeq
    <2> QED BY <2>1 DEF RowRecords
  <1>3. \A c : RowsPlanned(s, c) = Cardinality(RowsDone(s, L, c))
    <2>1. \A c : RowsDone(s, L, c) = {i \in DOMAIN Plan(s) : Plan(s)[i] = Shot("row", c)}
      BY <1>1 DEF RowsDone
    <2> QED BY <2>1 DEF RowsPlanned
  <1>4. \A c \in Launches :
          /\ Cardinality(Group(c)) = RowsPlanned(s, c)
          /\ RowsPlanned(s, c) \in Nat
          /\ RowsPlanned(s, c) > 0 <=> RowsDone(s, L, c) # {}
    BY <1>1, <1>3, RowsFinite, FS_EmptySet
  <1>5. ASSUME NEW c \in Launches
        PROVE  Group(c) # {} <=> RowsPlanned(s, c) > 0
    <2>1. IsFiniteSet(Group(c))
      <3>1. Group(c) \in SUBSET (1 .. Len(rows)) /\ IsFiniteSet(1 .. Len(rows))
        BY <1>2, FS_Interval DEF Group
      <3> QED BY <3>1, FS_Subset
    <2>2. Cardinality(Group(c)) \in Nat
          /\ (Cardinality(Group(c)) = 0 <=> Group(c) = {})
      BY <2>1, FS_CardinalityType, FS_EmptySet
    <2> QED BY <1>4, <2>2
  <1> DEFINE D == {rows[i].conf : i \in DOMAIN rows}
             E == {c \in Configs(s) : RowsPlanned(s, c) > 0}
  <1>6. \A c \in D : c \in Launches /\ Group(c) # {}
    BY <1>2 DEF Group
  <1>7. ASSUME NEW c \in Configs(s) PROVE c \in Launches
    <2>1. \A i \in 1 .. L : Plan(s)[i] \in Shots
      BY <1>1, ElementOfSeq
    <2>2. PICK i \in 1 .. L : c = Plan(s)[i].conf
      BY <1>1 DEF Configs
    <2> QED BY <2>1, <2>2 DEF Shots
  <1>8. D \in SUBSET E
    <2>1. ASSUME NEW c \in D PROVE c \in E
      <3>1. c \in Launches /\ RowsPlanned(s, c) > 0
        BY <1>5, <1>6
      <3>2. PICK i \in 1 .. L : Plan(s)[i] = Shot("row", c)
        BY <1>4, <3>1 DEF RowsDone
      <3>3. c = Plan(s)[i].conf
        BY <3>2 DEF Shot
      <3> QED BY <1>1, <3>1, <3>3 DEF Configs
    <2> QED BY <2>1
  <1>9. E \in SUBSET D
    <2>1. ASSUME NEW c \in E PROVE c \in D
      <3>1. Group(c) # {}
        BY <1>5, <1>7
      <3> QED BY <3>1 DEF Group
    <2> QED BY <2>1
  <1>10. DOMAIN Aggregate = D
         /\ \A c \in D : Aggregate[c].repeats = Cardinality(Group(c))
    BY DEF Aggregate
  <1>11. D = E
    BY <1>8, <1>9
  <1> HIDE DEF D
  <1> QED BY <1>4, <1>6, <1>10, <1>11 DEF ReportLines

(* A verdict is true or false.                                              *)
LEMMA VerdictType ==
  ASSUME NEW s, NEW row
  PROVE  Valid(s, row) \in BOOLEAN
  <1>1. /\ Valid2d(row) \in BOOLEAN /\ ValidTuple(row) \in BOOLEAN
        /\ ValidCluster(row) \in BOOLEAN /\ ValidRuntime(row) \in BOOLEAN
        /\ ValidPressure(row) \in BOOLEAN /\ ValidDecode(row) \in BOOLEAN
        /\ ValidSweep(row) \in BOOLEAN
    BY DEF Valid2d, ValidTuple, ValidCluster, ValidRuntime, ValidPressure,
           ValidDecode, ValidSweep
  <1>2. ValidPart(row) \in BOOLEAN
    BY Zenon DEF ValidPart
  <1>3. ValidMapping(AnalyzeMapping(kept, row), row) \in BOOLEAN
    BY DEF ValidMapping
  <1> QED BY <1>1, <1>2, <1>3 DEF Valid

(* Steps that touch neither plan nor rows nor reports keep ReportInv. *)
LEMMA ReportStays ==
  ASSUME ReportInv, UNCHANGED <<todo, plan, rows, files>>,
         exit' = exit \/ (exit = "running" /\ exit' = "died")
  PROVE  ReportInv'
  <1>1. Suite' = Suite /\ \A c : Group(c)' = Group(c)
    BY DEF Suite, Group
  <1>2. Made(Suite)' = Made(Suite)
    BY <1>1 DEF Made
  <1>3. Progress => Progress'
    BY <1>1, <1>2 DEF Progress
  <1> QED BY <1>1, <1>3 DEF ReportInv

(* A launch that is collected was the next of the plan; its row, if it has  *)
(* one, is added.                                                           *)
LEMMA ReportCollected ==
  ASSUME SweepInv, PlanInv, ReportInv, Collected, Suite \in Suites,
         \/ rows' = rows /\ Head(plan).kind # "row"
         \/ /\ Head(plan).kind = "row"
            /\ rows' = Append(rows, [conf |-> conf, valid |-> Valid(Suite, Row)])
  PROVE  ReportInv'
  <1> DEFINE s == Suite
             k == Made(Suite)
  <1>1. /\ plan \in Seq(Shots) /\ plan # <<>> /\ plan' = Tail(plan)
        /\ todo' = todo /\ files' = files /\ exit' = exit /\ exit = "running"
        /\ conf = Head(plan).conf /\ Progress /\ Plan(s) \in Seq(Shots)
    BY PlanType DEF Collected, SweepInv, PlanInv, ReportInv
  <1>2. /\ k \in Nat /\ k + 1 \in 1 .. Len(Plan(s)) /\ Head(plan) = Plan(s)[k + 1]
        /\ Suffix(Tail(plan), Plan(s))
        /\ Len(Plan(s)) - Len(Tail(plan)) = k + 1
    BY <1>1, SuffixTail DEF Progress, Made
  <1>3. Suite' = s /\ Made(Suite)' = k + 1
    BY <1>1, <1>2 DEF Suite, Made
  <1>4. Head(plan) \in Shots /\ conf \in Launches
    <2>1. Head(plan) \in Shots
      BY <1>1, HeadTailProperties
    <2> QED BY <1>1, <2>1 DEF Shots
  <1>5. rows \in Seq(RowRecords)
        /\ \A c \in Launches : Cardinality(RowsOf(rows, c))
                                 = Cardinality(RowsDone(s, k, c))
    BY <1>1 DEF ReportInv, Progress, Group, RowsOf
  <1>6. \A c : Head(plan) = Shot("row", c)
                 <=> Head(plan).kind = "row" /\ conf = c
    <2>1. \A h \in Shots : \A c : h = Shot("row", c) <=> h.kind = "row" /\ h.conf = c
      BY DEF Shots, Shot
    <2> QED BY <1>1, <1>4, <2>1
  <1> HIDE DEF s, k
  <1>7. rows' \in Seq(RowRecords)
        /\ \A c \in Launches : Cardinality(RowsOf(rows', c))
                                 = Cardinality(RowsDone(s, k + 1, c))
    <2>1. CASE rows' = rows /\ Head(plan).kind # "row"
      <3>1. \A c \in Launches : Cardinality(RowsDone(s, k + 1, c))
                                  = Cardinality(RowsDone(s, k, c))
        <4>1. ASSUME NEW c \in Launches
              PROVE  Cardinality(RowsDone(s, k + 1, c)) = Cardinality(RowsDone(s, k, c))
          <5>1. Plan(s)[k + 1] # Shot("row", c)
            BY <1>2, <1>6, <2>1
          <5>2. Cardinality(RowsDone(s, k, c)) \in Nat
            BY <1>2, RowsFinite
          <5>3. Cardinality(RowsDone(s, k + 1, c))
                  = Cardinality(RowsDone(s, k, c))
                      + (IF Plan(s)[k + 1] = Shot("row", c) THEN 1 ELSE 0)
            BY <1>2, RowsMore
          <5> QED BY <5>1, <5>2, <5>3
        <4> QED BY <4>1
      <3> QED BY <1>5, <2>1, <3>1
    <2>2. CASE /\ Head(plan).kind = "row"
               /\ rows' = Append(rows, [conf |-> conf, valid |-> Valid(Suite, Row)])
      <3> DEFINE x == [conf |-> conf, valid |-> Valid(Suite, Row)]
      <3>1. x \in RowRecords /\ x.conf = conf
        BY <1>4, VerdictType DEF RowRecords
      <3> HIDE DEF x
      <3>2. rows' = Append(rows, x)
        BY <2>2 DEF x
      <3>3. rows' \in Seq(RowRecords)
        BY <1>5, <3>1, <3>2, AppendProperties
      <3>4. ASSUME NEW c \in Launches
            PROVE  Cardinality(RowsOf(rows', c)) = Cardinality(RowsDone(s, k + 1, c))
        <4>1. Cardinality(RowsOf(rows', c))
                = Cardinality(RowsOf(rows, c)) + (IF x.conf = c THEN 1 ELSE 0)
          BY <1>5, <3>1, <3>2, GroupMore
        <4>2. Cardinality(RowsDone(s, k + 1, c))
                = Cardinality(RowsDone(s, k, c))
                    + (IF Plan(s)[k + 1] = Shot("row", c) THEN 1 ELSE 0)
          BY <1>2, RowsMore
        <4>3. Plan(s)[k + 1] = Shot("row", c) <=> x.conf = c
          BY <1>2, <1>6, <2>2, <3>1
        <4> QED BY <1>5, <4>1, <4>2, <4>3
      <3> QED BY <3>3, <3>4
    <2> QED BY <2>1, <2>2
  <1>8. Progress'
    <2>1. \A c : Group(c)' = RowsOf(rows', c)
      BY DEF Group, RowsOf
    <2>2. Suffix(plan', Plan(Suite')) /\ Suite' = s /\ Made(Suite)' = k + 1
      BY <1>1, <1>2, <1>3
    <2> QED BY <1>7, <2>1, <2>2 DEF Progress
  <1>9. Suite' = Suite
    BY <1>3 DEF s
  <1> QED BY <1>1, <1>7, <1>8, <1>9 DEF ReportInv

(* Where the suites are in the list.                                        *)
LEMMA SuiteOrder ==
  /\ RunAll \in Seq(Suites) /\ Len(RunAll) = 13 /\ RunAll[13] = "pressure"
  /\ \A i \in 1 .. 13 : RunAll[i] = "tuple" => i = 9
  /\ RunAll[10] = "participation"
  BY DEF RunAll, Suites

(* A suite that has ended writes a report of all it planned. *)
LEMMA ReportReport ==
  ASSUME SweepInv, ReportInv, Report
  PROVE  ReportInv'
  <1> DEFINE s == Suite
             k == Len(RunAll) - Len(todo)
             F == DOMAIN files
  <1>1. /\ exit = "running" /\ plan = <<>> /\ todo # <<>> /\ todo \in Seq(Suites)
        /\ todo' = Tail(todo) /\ rows' = <<>>
        /\ files' = [t \in DOMAIN files \cup {Suite} |->
                       IF t = Suite THEN Aggregate ELSE files[t]]
        /\ rows \in Seq(RowRecords) /\ Progress
    BY DEF Report, SweepInv, ReportInv
  <1>2. /\ k \in Nat /\ k + 1 \in 1 .. 13 /\ s = RunAll[k + 1]
        /\ Tail(todo) \in Seq(Suites) /\ Suffix(Tail(todo), RunAll)
        /\ Len(RunAll) - Len(Tail(todo)) = k + 1 /\ Len(RunAll) = 13
    BY <1>1, SuffixTail, SuiteOrder DEF ReportInv, Suite
  <1>3. s \in Suites
    BY <1>1, HeadTailProperties DEF Suite
  <1>4. ReportLines(s, Aggregate)
    <2>1. Plan(s) \in Seq(Shots) /\ Made(s) = Len(Plan(s))
      BY <1>1, <1>3, PlanType, LenProperties, EmptySeq DEF Made
    <2> QED BY <1>1, <1>3, <2>1, AggregateTells DEF Progress
  <1>5. DOMAIN files' = {RunAll[i] : i \in 1 .. (Len(RunAll) - Len(todo'))}
    <2>1. DOMAIN files = {RunAll[i] : i \in 1 .. k}
      BY DEF ReportInv
    <2>2. DOMAIN files' = {RunAll[i] : i \in 1 .. k} \cup {RunAll[k + 1]}
      BY <1>1, <1>2, <2>1
    <2>3. 1 .. (k + 1) = (1 .. k) \cup {k + 1}
      BY <1>2
    <2>4. Len(RunAll) - Len(todo') = k + 1
      BY <1>1, <1>2
    <2> HIDE DEF k
    <2> QED BY <2>2, <2>3, <2>4
  <1>6. \A t \in DOMAIN files' : ReportLines(t, files'[t])
    <2>1. \A t \in DOMAIN files : ReportLines(t, files[t])
      BY DEF ReportInv
    <2> QED BY <1>1, <1>4, <2>1
  <1> DEFINE failed == \E t \in DOMAIN files' : ~AllOk(files'[t])
             stop == EndsScript(Suite) /\ failed
  <1>7. /\ exit' = IF stop THEN "invalid" ELSE IF Tail(todo) = <<>> THEN "ok" ELSE exit
        /\ plan' = IF exit' = "running" THEN Plan(Head(Tail(todo))) ELSE <<>>
    BY DEF Report
  <1>8. exit' = "ok" => todo' = <<>>
    BY <1>1, <1>7
  <1>9. exit' = "invalid" => \E t \in DOMAIN files' : ~AllOk(files'[t])
    BY <1>1, <1>7
  <1>10. exit' = "running" => Progress'
    <2> SUFFICES ASSUME exit' = "running" PROVE Progress'
      OBVIOUS
    <2>1. Tail(todo) # <<>> /\ Suite' = Head(Tail(todo)) /\ plan' = Plan(Suite')
      BY <1>1, <1>7 DEF Suite
    <2>2. Suite' \in Suites
      BY <1>2, <2>1, HeadTailProperties
    <2>3. Plan(Suite') \in Seq(Shots) /\ Len(Plan(Suite')) \in Nat
      BY <2>2, PlanType, LenProperties
    <2>4. Made(Suite)' = 0
      BY <2>1, <2>3 DEF Made
    <2>5. Suffix(plan', Plan(Suite'))
      BY <2>1, <2>3 DEF Suffix
    <2>6. \A c : Group(c)' = {} /\ RowsDone(Suite', 0, c) = {}
      BY <1>1 DEF Group, RowsDone
    <2> QED BY <2>4, <2>5, <2>6 DEF Progress
  <1>11. exit' \in {"running", "ok", "died"} =>
           \A t \in DOMAIN files' :
             ~AllOk(files'[t]) => t = "tuple" /\ Suite' = "participation"
    <2> SUFFICES ASSUME exit' \in {"running", "ok", "died"},
                        NEW t \in DOMAIN files', ~AllOk(files'[t])
                 PROVE  t = "tuple" /\ Suite' = "participation"
      OBVIOUS
    <2>1. ~stop
      BY <1>7
    <2>2. Suite = "tuple"
      BY <2>1 DEF EndsScript
    <2>3. t = "tuple"
      <3>1. CASE t # Suite
        <4>1. t \in DOMAIN files /\ files'[t] = files[t]
          BY <1>1, <3>1
        <4>2. Suite = "participation"
          BY <1>1, <4>1 DEF ReportInv
        <4> QED BY <2>2, <4>2
      <3> QED BY <2>2, <3>1
    <2>4. k + 1 = 9
      BY <1>2, <2>2, SuiteOrder
    <2> DEFINE T == Tail(todo)
    <2>5. T \in Seq(Suites) /\ Suffix(T, RunAll) /\ 13 - Len(T) = 9
          /\ todo' = T /\ Len(RunAll) = 13
      BY <1>1, <1>2, <2>4
    <2> HIDE DEF T, k
    <2>6. Len(T) \in Nat
      BY <2>5, LenProperties
    <2>7. Len(T) = 4
      <3>1. \A n \in Nat : 13 - n = 9 => n = 4
        OBVIOUS
      <3>2. 13 - Len(T) = 9
        BY <2>5
      <3> QED BY <2>6, <3>1, <3>2, Zenon
    <2>8. T[1] = RunAll[10]
      <3>1. 1 \in 1 .. Len(T) /\ Len(RunAll) - Len(T) + 1 = 10
        BY <2>5, <2>7
      <3> QED BY <2>5, <3>1 DEF Suffix
    <2>9. Suite' = T[1]
      <3>1. Suite' = Head(T)
        BY <2>5 DEF Suite
      <3> QED BY <2>5, <2>7, <3>1
    <2> QED BY <2>3, <2>8, <2>9, SuiteOrder
  <1>12. rows' \in Seq(RowRecords)
    BY <1>1
  <1>13. Suffix(todo', RunAll)
    BY <1>1, <1>2
  <1> QED
    BY <1>5, <1>6, <1>8, <1>9, <1>10, <1>11, <1>12, <1>13 DEF ReportInv

(* Every step preserves the account of plans, rows and reports. *)
LEMMA ReportNext == SweepInv /\ PlanInv /\ ReportInv /\ [Next]_vars => ReportInv'
  <1> SUFFICES ASSUME SweepInv, PlanInv, ReportInv, [Next]_vars PROVE ReportInv'
    OBVIOUS
  <1>1. exit = "running" => Suite \in Suites
    BY HeadTailProperties DEF SweepInv, Suite
  <1>2. CASE StartProbe \/ ProbeFails \/ (probing /\ Gpu /\ UNCHANGED harness)
             \/ UNCHANGED vars
    BY <1>2, ReportStays DEF StartProbe, ProbeFails, harness, vars
  <1>3. CASE Predict
    BY <1>1, <1>3, ReportCollected DEF Predict, Collected
  <1>4. CASE Capture
    BY <1>1, <1>4, ReportCollected DEF Capture, Collected
  <1>5. CASE Validate
    BY <1>1, <1>5, ReportCollected DEF Validate, Collected
  <1>6. CASE Report
    BY <1>6, ReportReport
  <1> QED BY <1>2, <1>3, <1>4, <1>5, <1>6 DEF Next

(* Before the first suite there is nothing to account for. *)
LEMMA ReportInit == Init => ReportInv
  <1> SUFFICES ASSUME Init PROVE ReportInv
    OBVIOUS
  <1>1. /\ todo = RunAll /\ plan = Plan(Head(RunAll)) /\ rows = <<>>
        /\ files = <<>> /\ exit = "running" /\ Suite = Head(RunAll)
    BY DEF Init, Suite
  <1>2. Head(RunAll) \in Suites
    BY DEF RunAll, Suites
  <1>3. Plan(Suite) \in Seq(Shots) /\ Len(Plan(Suite)) \in Nat
    BY <1>1, <1>2, PlanType, LenProperties
  <1>4. Suffix(plan, Plan(Suite)) /\ Made(Suite) = 0 /\ Suffix(todo, RunAll)
    BY <1>1, <1>3, SuiteOrder DEF Suffix, Made
  <1>5. \A c : Group(c) = {} /\ RowsDone(Suite, 0, c) = {}
    BY <1>1 DEF Group, RowsDone
  <1>6. DOMAIN files = {} /\ DOMAIN files = {RunAll[i] : i \in 1 .. (Len(RunAll) - Len(todo))}
    BY <1>1, SuiteOrder
  <1>7. rows \in Seq(RowRecords)
    BY <1>1
  <1> QED BY <1>1, <1>4, <1>5, <1>6, <1>7 DEF ReportInv, Progress

(* A suite has a report exactly when it ran to its end, with a line for     *)
(* each configuration and every planned run in it; all rows are valid when  *)
(* the script ends with 0; and an invalid row stops it at the end of its    *)
(* own Python script.                                                       *)
THEOREM ReportsSound == Spec => []ReportVouches
  <1>1. Spec => []ReportInv
    BY SweepAlways, PlanAlways, ReportInit, ReportNext, PTL DEF Spec
  <1> QED BY <1>1, ReportVouchesState, PTL

-----------------------------------------------------------------------------
(* The events of one run beside the row of another. *)

InWave(c) == {u \in 0 .. (c.units - 1) : u < PredictedR(c)}

(* What a capture keeps of a run that exited 0.                             *)
KeptFits(k, s, c) ==
  /\ s = "mapping" =>
       /\ DOMAIN k = 0 .. (c.units - 1)
       /\ \A u \in 0 .. (c.units - 1) :
            IF u \in InWave(c) THEN k[u].worker = u
                               ELSE k[u].worker \in InWave(c)
       /\ \A u \in InWave(c) : k[u].sm \in 0 .. (SMs - 1)
  /\ s = "trace" =>
       /\ k \in Seq(ClaimRecords)
       /\ {k[i].unit : i \in DOMAIN k} = (0 .. (c.units - 1)) \ InWave(c)
       /\ Len(k) = Cardinality({k[i].unit : i \in DOMAIN k})

KeptInv ==
  exit = "running" /\ Suite \in Capturing /\ plan # <<>> /\ Head(plan).kind = "row"
    => KeptFits(kept, Suite, Head(plan).conf)

(* The plan of a suite that captures starts with a capture.                 *)
LEMMA CaptureFirst ==
  ASSUME NEW s \in Capturing
  PROVE  Head(Plan(s)).kind = "events"
  <1>1. ASSUME NEW cs, Len(cs) \in Nat \ {0} PROVE Head(Captures(cs)).kind = "events"
    <2> DEFINE q == Captures(cs)
    <2>1. 1 \in 1 .. (2 * Len(cs))
      BY <1>1
    <2>2. q[1] = Shot("events", cs[((1 - 1) \div 2) + 1])
      BY <2>1 DEF Captures
    <2>3. Head(q) = q[1]
      BY DEF Captures
    <2> HIDE DEF q
    <2>4. Head(q).kind = "events"
      BY <2>2, <2>3 DEF Shot
    <2> QED BY <2>4 DEF q
  <1>2. Len(MappingConfigs) = 2 /\ Len(<<About(1, 2)>>) = 1
    BY DEF MappingConfigs
  <1>3. CASE s = "mapping"
    <2>1. Plan(s) = Captures(MappingConfigs)
      BY <1>3 DEF Plan
    <2>2. Len(MappingConfigs) \in Nat \ {0}
      BY <1>2
    <2> QED BY <1>1, <2>1, <2>2
  <1>4. CASE s = "trace"
    <2>1. Plan(s) = Captures(<<About(1, 2)>>)
      BY <1>4 DEF Plan
    <2>2. Len(<<About(1, 2)>>) \in Nat \ {0}
      BY <1>2
    <2> QED BY <1>1, <2>1, <2>2
  <1> QED BY <1>3, <1>4 DEF Capturing

(* After a capture comes the row of the same configuration, after a row     *)
(* another capture.                                                         *)
LEMMA CaptureNext ==
  ASSUME NEW s \in Capturing, NEW p \in Seq(Shots), p # <<>>, PlanFits(s, p),
         Tail(p) # <<>>
  PROVE  /\ Head(p).kind = "events" => Head(Tail(p)) = Shot("row", Head(p).conf)
         /\ Head(p).kind = "row" => Head(Tail(p)).kind = "events"
  <1>1. /\ Tail(p) \in Seq(Shots) /\ Len(Tail(p)) = Len(p) - 1 /\ Len(p) \in Nat
        /\ DOMAIN p = 1 .. Len(p)
        /\ \A i \in 1 .. Len(Tail(p)) : Tail(p)[i] = p[i + 1]
        /\ Len(Tail(p)) \in Nat /\ Len(Tail(p)) # 0
    BY HeadTailProperties, LenProperties, EmptySeq
  <1>2. Head(Tail(p)) = p[2] /\ Head(p) = p[1] /\ 1 \in DOMAIN p /\ 2 \in DOMAIN p
    <2>1. 1 \in 1 .. Len(Tail(p))
      BY <1>1
    <2>2. Tail(p)[1] = p[2]
      BY <1>1, <2>1
    <2>3. Head(Tail(p)) = Tail(p)[1] /\ Head(p) = p[1]
      BY <1>1
    <2> QED BY <1>1, <2>2, <2>3
  <1>3. Alternates(p, 1)
    BY <1>2 DEF PlanFits
  <1>4. /\ p[1].kind = "events" => p[2] = Shot("row", p[1].conf)
        /\ p[1].kind = "row" => p[2].kind = "events"
    BY <1>2, <1>3 DEF Alternates
  <1> QED BY <1>2, <1>4

(* In these suites a probe that exits 0 has launched the first R clusters.  *)
LEMMA CapturedRun ==
  ASSUME SweepInv, CountInv, PlanInv, probing, Done, Suite \in Capturing,
         ExitsZero(Suite, Row)
  PROVE  /\ Launched = InWave(conf) /\ Grid = 0 .. (conf.units - 1)
         /\ conf = Head(plan).conf /\ conf \in Launches /\ conf.x = 1
         /\ conf.stride = 1 /\ FirstR = InWave(conf)
  <1>1. /\ conf \in Launches /\ Fits(Suite, conf) /\ Suite \in {"mapping", "trace"}
        /\ conf.x = 1 /\ conf.stride = 1
    BY ProbeConf DEF Capturing, Fits
  <1>2. Launched = FirstR
    BY <1>1, RuntimeVerdict, StructuralTold DEF ExitsZero, StructuralMapping
  <1>3. FirstR = InWave(conf) /\ Grid = 0 .. (conf.units - 1)
    BY DEF FirstR, InWave, Grid
  <1> QED BY <1>1, <1>2, <1>3 DEF PlanInv

(* The server of a raw id: its own cluster, or the one that claimed it.     *)
LEMMA ServersLaunched ==
  ASSUME SweepInv, CountInv, Done, NEW u \in Grid
  PROVE  IF u \in Launched THEN Server(u) = u ELSE Server(u) \in Launched
  <1>1. /\ Launched \cup Claimed = Grid /\ Launched \cap Claimed = {}
        /\ \A w \in Units : w \in Launched <=> status[w] = "left"
    BY DoneParts
  <1>2. CASE u \in Launched
    BY <1>1, <1>2 DEF Server
  <1>3. CASE u \notin Launched
    <2>1. u \in Claimed
      BY <1>1, <1>3
    <2> DEFINE i == CHOOSE j \in DOMAIN claims : claims[j].unit = u
    <2>2. i \in DOMAIN claims
      BY <2>1 DEF Claimed
    <2>3. Server(u) = claims[i].worker
      BY <2>1 DEF Server
    <2> HIDE DEF i
    <2>4. claims \in Seq(ClaimRecords)
      BY DEF SweepInv, DeviceInv, DeviceType
    <2>5. claims[i].worker \in Units /\ status[claims[i].worker] \in Started
      BY <2>2, <2>4, ClaimsAre DEF CountInv
    <2>6. status[claims[i].worker] = "left"
      BY <2>5 DEF Started, Done, Live
    <2> QED BY <1>1, <1>3, <2>3, <2>5, <2>6
  <1> QED BY <1>2, <1>3

(* A captured event file fits the configuration of the row run that follows. *)
LEMMA KeptCapture ==
  ASSUME SweepInv, CountInv, PlanInv, Capture
  PROVE  KeptInv'
  <1> SUFFICES ASSUME Suite' \in Capturing, plan' # <<>>, Head(plan').kind = "row"
               PROVE  KeptFits(kept', Suite', Head(plan').conf)
    BY DEF KeptInv
  <1>1. /\ probing /\ Done /\ ExitsZero(Suite, Row) /\ Head(plan).kind = "events"
        /\ plan' = Tail(plan) /\ todo' = todo /\ UNCHANGED device
        /\ kept' = IF Suite = "trace" THEN claims ELSE MappingEvents
    BY DEF Capture, Collected
  <1>2. Suite' = Suite /\ plan \in Seq(Shots) /\ plan # <<>>
    BY <1>1 DEF Suite, SweepInv
  <1>3. Head(plan') = Shot("row", conf) /\ Head(plan').conf = conf
    <2>1. Head(plan') = Shot("row", Head(plan).conf)
      BY <1>1, <1>2, CaptureNext DEF PlanInv
    <2>2. conf = Head(plan).conf
      BY <1>1 DEF PlanInv
    <2>3. Head(plan') = Shot("row", conf)
      BY <2>1, <2>2
    <2> QED BY <2>3 DEF Shot
  <1>4. /\ Launched = InWave(conf) /\ Grid = 0 .. (conf.units - 1)
    BY <1>1, <1>2, CapturedRun
  <1>5. ASSUME Suite = "mapping"
        PROVE  /\ DOMAIN kept' = 0 .. (conf.units - 1)
               /\ \A u \in 0 .. (conf.units - 1) :
                    IF u \in InWave(conf) THEN kept'[u].worker = u
                                          ELSE kept'[u].worker \in InWave(conf)
               /\ \A u \in InWave(conf) : kept'[u].sm \in 0 .. (SMs - 1)
    <2>1. kept' = MappingEvents
      BY <1>1, <1>5
    <2>2. DOMAIN kept' = Grid /\ \A u \in Grid : kept'[u].worker = Server(u)
      BY <2>1 DEF MappingEvents
    <2>3. \A u \in Grid : kept'[u].sm = sm[Server(u)]
      BY <2>1 DEF MappingEvents
    <2>4. \A u \in Launched : Server(u) = u /\ u \in Grid /\ sm[u] \in 0 .. (SMs - 1)
      <3>1. \A u \in Launched : u \in Grid /\ u \in Units /\ sm[u] # Nothing
        BY <1>1, DoneParts DEF Launched
      <3> QED BY <1>1, <3>1, ServersLaunched DEF CountInv, OnDevice
    <2>5. \A u \in InWave(conf) : kept'[u].sm \in 0 .. (SMs - 1)
      BY <1>4, <2>3, <2>4
    <2> QED BY <1>1, <1>4, <2>2, <2>5, ServersLaunched
  <1>6. ASSUME Suite = "trace"
        PROVE  /\ kept' \in Seq(ClaimRecords)
               /\ {kept'[i].unit : i \in DOMAIN kept'}
                    = (0 .. (conf.units - 1)) \ InWave(conf)
               /\ Len(kept') = Cardinality({kept'[i].unit : i \in DOMAIN kept'})
    <2>1. kept' = claims
      BY <1>1, <1>6
    <2>2. claims \in Seq(ClaimRecords) /\ OneClaim
      BY GridParts DEF SweepInv, DeviceInv, DeviceType
    <2>3. Claimed = Grid \ Launched /\ Len(claims) = Cardinality(Claimed)
      BY <1>1, <2>2, DoneParts, ClaimsCounted
    <2>4. {kept'[i].unit : i \in DOMAIN kept'} = Claimed
      BY <2>1 DEF Claimed
    <2> QED BY <1>4, <2>1, <2>2, <2>3, <2>4
  <1>7. KeptFits(kept', Suite, conf)
    BY <1>5, <1>6 DEF KeptFits
  <1> QED BY <1>2, <1>3, <1>7

(* Steps that keep no new run keep what was kept. *)
LEMMA KeptStays ==
  ASSUME KeptInv, UNCHANGED <<todo, plan, kept>>, exit' = "running" => exit = "running"
  PROVE  KeptInv'
  BY DEF KeptInv, Suite

(* Every step preserves what is known of the captured events. *)
LEMMA KeptNext ==
  SweepInv /\ CountInv /\ PlanInv /\ KeptInv /\ [Next]_vars => KeptInv'
  <1> SUFFICES ASSUME SweepInv, CountInv, PlanInv, KeptInv, [Next]_vars
               PROVE  KeptInv'
    OBVIOUS
  <1>1. CASE StartProbe \/ ProbeFails \/ (probing /\ Gpu /\ UNCHANGED harness)
             \/ UNCHANGED vars
    BY <1>1, KeptStays DEF StartProbe, ProbeFails, harness, vars
  <1>2. CASE Capture
    BY <1>2, KeptCapture
  <1>3. CASE Validate \/ Predict
    <2> SUFFICES ASSUME Suite' \in Capturing, plan' # <<>>, Head(plan').kind = "row"
                 PROVE  FALSE
      BY DEF KeptInv
    <2>1. plan' = Tail(plan) /\ Suite' = Suite /\ plan \in Seq(Shots) /\ plan # <<>>
      BY <1>3 DEF Validate, Predict, Collected, Suite, SweepInv
    <2>2. Head(plan).kind \in {"row", "predict"}
      BY <1>3 DEF Validate, Predict
    <2>3. 1 \in DOMAIN plan /\ Head(plan) = plan[1]
      BY <2>1
    <2>4. Head(plan).kind # "predict"
      BY <2>1, <2>3 DEF PlanInv, PlanFits, Alternates
    <2>5. Head(Tail(plan)).kind = "events"
      BY <2>1, <2>2, <2>4, CaptureNext DEF PlanInv
    <2> QED BY <2>1, <2>5
  <1>4. CASE Report
    <2> SUFFICES ASSUME exit' = "running", Suite' \in Capturing, plan' # <<>>,
                        Head(plan').kind = "row"
                 PROVE  FALSE
      BY DEF KeptInv
    <2>1. plan' = Plan(Suite')
      BY <1>4 DEF Report, Suite
    <2> QED BY <2>1, CaptureFirst
  <1> QED BY <1>1, <1>2, <1>3, <1>4 DEF Next

(* So it holds throughout. *)
LEMMA KeptAlways == Spec => []KeptInv
  <1>1. Init => KeptInv
    <2>1. Init => Suite = "threshold"
      BY DEF Init, Suite, RunAll
    <2> QED BY <2>1 DEF KeptInv, Capturing
  <1> QED BY SweepAlways, CountAlways, PlanAlways, <1>1, KeptNext, PTL DEF Spec

(* Each claim is in one wave: the waves add up to the claims.               *)
LEMMA WavesAdd ==
  ASSUME NEW ev \in Seq(ClaimRecords), NEW row
  PROVE  SumFunction(Summarize(ev, row).waves) = Len(ev)
  <1> DEFINE n == Len(ev)
             D == 1 .. n
             p == [i \in D |-> Wave(ev, i)]
             S == {Wave(ev, i) : i \in D}
  <1>1. n \in Nat /\ DOMAIN ev = D /\ IsFiniteSet(D) /\ Cardinality(D) = n
    <2>1. n \in Nat /\ DOMAIN ev = D
      BY LenProperties
    <2> HIDE DEF n
    <2> QED BY <2>1, FS_Interval
  <1>2. ASSUME NEW i \in D PROVE Wave(ev, i) \in D
    <2> DEFINE E == {j \in 1 .. (i - 1) : ev[j].worker = ev[i].worker}
    <2>1. /\ IsFiniteSet(1 .. (i - 1)) /\ Cardinality(1 .. (i - 1)) = i - 1
          /\ i \in Nat /\ i >= 1 /\ i <= n
      <3>1. n \in Nat /\ i \in 1 .. n
        BY <1>1
      <3> HIDE DEF n
      <3>2. i \in Nat /\ i >= 1 /\ i <= n
        BY <3>1
      <3>3. 1 \in Int /\ i - 1 \in Int
        BY <3>2
      <3>4. /\ IsFiniteSet(1 .. (i - 1))
            /\ Cardinality(1 .. (i - 1)) = IF i - 1 >= 1 THEN (i - 1) - 1 + 1 ELSE 0
        BY <3>2, FS_Interval
      <3> QED BY <3>2, <3>4
    <2>2. E \in SUBSET (1 .. (i - 1))
      OBVIOUS
    <2>3. Wave(ev, i) = 1 + Cardinality(E)
      BY DEF Wave
    <2> HIDE DEF E, D
    <2>4. Cardinality(E) \in Nat /\ Cardinality(E) <= i - 1
      BY <2>1, <2>2, FS_Subset, FS_CardinalityType
    <2>5. 1 + Cardinality(E) \in 1 .. n
      BY <1>1, <2>1, <2>4
    <2> QED BY <2>3, <2>5 DEF D
  <1>3. IsFiniteSet(S)
    <2>1. S \in SUBSET D
      BY <1>2
    <2> HIDE DEF S, D
    <2> QED BY <1>1, <2>1, FS_Subset
  <1>4. p \in [D -> S]
    OBVIOUS
  <1>5. Summarize(ev, row).waves = Fibres(S, D, p)
    <2>1. Summarize(ev, row).waves
            = [k \in S |-> Cardinality({i \in D : Wave(ev, i) = k})]
      BY <1>1 DEF Summarize
    <2>2. \A k : {i \in D : Wave(ev, i) = k} = Fibre(D, p, k)
      BY DEF Fibre
    <2> QED BY <2>1, <2>2 DEF Fibres
  <1> HIDE DEF S, D, p
  <1>6. SumFunction(Fibres(S, D, p)) = Cardinality(D)
    BY <1>1, <1>3, <1>4, SumOfParts
  <1> QED BY <1>1, <1>5, <1>6

Backsteps(ev) == {i \in 2 .. Len(ev) : ev[i].unit < ev[i - 1].unit}
Inverted(ev) == {p \in (DOMAIN ev) \X (DOMAIN ev) :
                   p[1] < p[2] /\ ev[p[1]].unit > ev[p[2]].unit}

(* A trace without a backstep is in order.                                  *)
LEMMA OrderedTrace ==
  ASSUME NEW ev \in Seq(ClaimRecords)
  PROVE  Backsteps(ev) = {} <=> Inverted(ev) = {}
  <1> DEFINE n == Len(ev)
  <1>1. n \in Nat /\ DOMAIN ev = 1 .. n /\ \A i \in 1 .. n : ev[i].unit \in Int
    <2>1. \A i \in DOMAIN ev : ev[i].unit \in Int
      BY ClaimsAre, UnitsNat
    <2> QED BY <2>1, LenProperties
  <1>2. ASSUME NEW i \in Backsteps(ev) PROVE Inverted(ev) # {}
    <2>1. <<i - 1, i>> \in Inverted(ev)
      BY <1>1, <1>2 DEF Backsteps, Inverted
    <2> QED BY <2>1
  <1>3. ASSUME Backsteps(ev) = {}, Inverted(ev) # {} PROVE FALSE
    <2> DEFINE T == {d \in Nat : \E i \in 1 .. n : /\ i + d \in 1 .. n /\ d > 0
                                                   /\ ev[i].unit > ev[i + d].unit}
    <2>1. T # {}
      <3>1. PICK p \in (1 .. n) \X (1 .. n) :
              p[1] < p[2] /\ ev[p[1]].unit > ev[p[2]].unit
        BY <1>1, <1>3 DEF Inverted
      <3>2. PICK i \in 1 .. n, j \in 1 .. n : i < j /\ ev[i].unit > ev[j].unit
        BY <3>1
      <3>3. j - i \in Nat /\ j - i > 0 /\ i + (j - i) = j
        BY <1>1, <3>2
      <3>4. j - i \in T
        BY <3>2, <3>3
      <3> QED BY <3>4
    <2>2. PICK d \in T : \A e \in T : d <= e
      <3>1. T \in SUBSET Nat
        OBVIOUS
      <3> HIDE DEF T
      <3> QED BY <2>1, <3>1, LeastNat
    <2>3. PICK i \in 1 .. n : i + d \in 1 .. n /\ ev[i].unit > ev[i + d].unit
      BY <2>2
    <2>4. d \in Nat /\ d > 0 /\ i + 1 \in 2 .. n /\ i + 1 \in 1 .. n
      BY <1>1, <2>2, <2>3
    <2>5. ~ (ev[i + 1].unit < ev[i].unit)
      <3>1. i + 1 \notin Backsteps(ev)
        BY <1>3
      <3>2. (i + 1) - 1 = i
        BY <2>3
      <3> QED BY <2>4, <3>1, <3>2 DEF Backsteps
    <2>6. ev[i + 1].unit > ev[i + d].unit
      BY <1>1, <2>3, <2>4, <2>5
    <2>7. d # 1
      BY <1>1, <2>3, <2>4, <2>6
    <2>8. d - 1 \in Nat /\ d - 1 > 0 /\ (i + 1) + (d - 1) = i + d
      <3>1. i \in Int
        OBVIOUS
      <3> QED BY <2>4, <2>7, <3>1
    <2>9. d - 1 \in T
      BY <2>3, <2>4, <2>6, <2>8
    <2> HIDE DEF T
    <2> QED BY <2>2, <2>4, <2>9
  <1> QED BY <1>2, <1>3

(* Events inverted at all are inverted next to each other somewhere. *)
LEMMA InversionsTold ==
  ASSUME NEW ev \in Seq(ClaimRecords), NEW row
  PROVE  Summarize(ev, row).inversions.adjacent = 0
           <=> Summarize(ev, row).inversions.total = 0
  <1>1. Summarize(ev, row).inversions = Inversions(ev)
    BY DEF Summarize
  <1>2. /\ Inversions(ev).adjacent = Cardinality(Backsteps(ev))
        /\ Inversions(ev).total = Cardinality(Inverted(ev))
    BY DEF Inversions, Backsteps, Inverted
  <1>3. Len(ev) \in Nat /\ DOMAIN ev = 1 .. Len(ev)
    BY LenProperties
  <1>4. IsFiniteSet(Backsteps(ev))
    <2>1. Backsteps(ev) \in SUBSET (2 .. Len(ev)) /\ IsFiniteSet(2 .. Len(ev))
      BY <1>3, FS_Interval DEF Backsteps
    <2> QED BY <2>1, FS_Subset
  <1>5. IsFiniteSet(Inverted(ev))
    <2>1. IsFiniteSet(DOMAIN ev)
      BY <1>3, FS_Interval
    <2>2. IsFiniteSet((DOMAIN ev) \X (DOMAIN ev))
      BY <2>1, FS_Product
    <2>3. Inverted(ev) \in SUBSET ((DOMAIN ev) \X (DOMAIN ev))
      BY DEF Inverted
    <2> QED BY <2>2, <2>3, FS_Subset
  <1>6. /\ Cardinality(Backsteps(ev)) = 0 <=> Backsteps(ev) = {}
        /\ Cardinality(Inverted(ev)) = 0 <=> Inverted(ev) = {}
    BY <1>4, <1>5, FS_EmptySet
  <1> QED BY <1>1, <1>2, <1>6, OrderedTrace

(* So two runs that are stitched agree on what both tell. *)
LEMMA StitchedState ==
  SweepInv /\ CountInv /\ PlanInv /\ KeptInv => StitchedRunsAgree
  <1> SUFFICES ASSUME SweepInv, CountInv, PlanInv, KeptInv, Validating,
                      Suite \in Capturing
               PROVE  StitchedRunsAgree
    BY DEF StitchedRunsAgree, Capturing
  <1>1. /\ probing /\ Done /\ ExitsZero(Suite, Row) /\ Head(plan).kind = "row"
        /\ exit = "running" /\ plan # <<>>
    BY DEF Validating, PlanInv, SweepInv
  <1>2. /\ Launched = InWave(conf) /\ Grid = 0 .. (conf.units - 1)
        /\ conf = Head(plan).conf /\ conf \in Launches /\ conf.x = 1
        /\ conf.stride = 1 /\ FirstR = InWave(conf)
    BY <1>1, CapturedRun
  <1>3. KeptFits(kept, Suite, conf)
    BY <1>1, <1>2 DEF KeptInv
  <1>4. ASSUME Suite = "mapping"
        PROVE  /\ DOMAIN kept = Grid
               /\ \A u \in Grid : IF u \in Launched THEN kept[u].worker = u
                                                     ELSE kept[u].worker \in Launched
    BY <1>2, <1>3, <1>4 DEF KeptFits
  <1>5. ASSUME Suite = "trace"
        PROVE  LET a == Summarize(kept, Row)
               IN /\ {kept[i].unit : i \in DOMAIN kept} = Claimed
                  /\ a.events = Row.successes /\ a.holes = 0 /\ a.terminal
                  /\ SumFunction(a.waves) = a.events
                  /\ a.inversions.adjacent = 0 <=> a.inversions.total = 0
    <2> DEFINE n == conf.units
               C == Cardinality(Claimed)
               L == Cardinality(Launched)
    <2>1. /\ kept \in Seq(ClaimRecords)
          /\ {kept[i].unit : i \in DOMAIN kept} = Grid \ Launched
          /\ Len(kept) = Cardinality({kept[i].unit : i \in DOMAIN kept})
      BY <1>2, <1>3, <1>5 DEF KeptFits
    <2>2. Grid \ Launched = Claimed
      BY <1>1, DoneParts
    <2>3. {kept[i].unit : i \in DOMAIN kept} = Claimed /\ Len(kept) = C
      BY <2>1, <2>2
    <2>4. /\ n \in Nat /\ L \in Nat /\ C \in Nat /\ L + C = n
          /\ Row.successes = C /\ Row.attempts = n /\ Row.active = 1 * L
      BY <1>1, <1>2, DoneRow
    <2>5. Summarize(kept, Row).events = Row.successes
      BY <2>3, <2>4 DEF Summarize
    <2>6. Summarize(kept, Row).terminal
      <3>1. Row.attempts - Row.successes = Row.active
        BY <2>4
      <3> QED BY <3>1 DEF Summarize
    <2>7. Summarize(kept, Row).holes = 0
      <3>1. Summarize(kept, Row).holes
              = IF Claimed = {} THEN 0
                ELSE Max(Claimed) - Min(Claimed) + 1 - Cardinality(Claimed)
        BY <2>3 DEF Summarize
      <3>2. CASE Claimed = {}
        BY <3>1, <3>2
      <3>3. CASE Claimed # {}
        <4>1. /\ Max(Claimed) \in 0 .. (n - 1) /\ Min(Claimed) \in 0 .. (n - 1)
              /\ C = Max(Claimed) - Min(Claimed) + 1
                   <=> Claimed = Min(Claimed) .. Max(Claimed)
              /\ n > PredictedR(conf) =>
                   /\ Min(Claimed) = PredictedR(conf) /\ Max(Claimed) = n - 1
                   /\ Claimed = PredictedR(conf) .. (n - 1)
              /\ n <= PredictedR(conf) => C = 0
              /\ Claimed = {} <=> C = 0
              /\ PredictedR(conf) \in Nat
          BY <1>1, <1>2, <3>3, FirstRTold, DoneRow
        <4>2. n > PredictedR(conf)
          BY <2>4, <3>3, <4>1
        <4>3. C = Max(Claimed) - Min(Claimed) + 1
          BY <4>1, <4>2
        <4> HIDE DEF n
        <4>4. Max(Claimed) \in Int /\ Min(Claimed) \in Int
          BY <2>4, <4>1
        <4> QED BY <2>4, <3>1, <3>3, <4>3, <4>4
      <3> QED BY <3>2, <3>3
    <2>8. SumFunction(Summarize(kept, Row).waves) = Summarize(kept, Row).events
      BY <2>1, <2>3, <2>4, <2>5, WavesAdd
    <2>9. Summarize(kept, Row).inversions.adjacent = 0
            <=> Summarize(kept, Row).inversions.total = 0
      BY <2>1, InversionsTold
    <2> QED BY <2>3, <2>5, <2>6, <2>7, <2>8, <2>9
  <1> QED BY <1>4, <1>5 DEF StitchedRunsAgree

(* The events of a capture and the row of the next run come from different  *)
(* launches; because both exited 0 they tell of the same clusters launched  *)
(* and claimed, and the analysis of the trace finds no hole, as many events *)
(* in its waves as claims in the row and one failure a worker.              *)
THEOREM StitchedSound == Spec => []StitchedRunsAgree
  BY SweepAlways, CountAlways, PlanAlways, KeptAlways, StitchedState, PTL

-----------------------------------------------------------------------------
(* The verdict on a mapping. *)

(* The chunks of two first waves of as many CTAs as there are SMs.          *)
Chunk(ev, k) == [i \in 0 .. (SMs - 1) |-> ev[k * SMs + i].sm]
Onto(ev) == {Chunk(ev, 0)[i] : i \in 0 .. (SMs - 1)} = 0 .. (SMs - 1)
InTurn(ev) == Chunk(ev, 1) = Chunk(ev, 0)

(* What analyze_mapping derives from events, stated of the first two waves. *)
LEMMA AnalysisTold ==
  ASSUME NEW ev, NEW row, row.active = 2 * SMs, row.r = 2 * SMs,
         row.tasks \in Nat, row.tasks >= 2 * SMs
  PROVE  LET a == AnalyzeMapping(ev, row)
             P == 0 .. (2 * SMs - 1)
         IN /\ a.unique <=> \A k \in 0 .. 1 :
                 Cardinality({Chunk(ev, k)[i] : i \in 0 .. (SMs - 1)}) = SMs
            /\ a.repeating <=> \A k \in 0 .. 1 : Chunk(ev, k) = Chunk(ev, 0)
            /\ a.contiguous <=>
                 \A u, v \in P : ev[u].sm = ev[v].sm /\ u < v =>
                   \A w \in u .. v : ev[w].sm = ev[u].sm
            /\ a.residue <=>
                 \A s \in 0 .. (SMs - 1) :
                   Cardinality({u % SMs : u \in {x \in P : ev[x].sm = s}}) <= 1
            /\ a.byPrefix <=>
                 \A u \in (2 * SMs) .. (row.tasks - 1) : ev[u].worker < row.active
  <1> DEFINE P == 0 .. (2 * SMs - 1)
             prefix == 0 .. (Min({row.active, row.tasks}) - 1)
             waves == Cardinality(prefix) \div SMs
  <1>1. prefix = P
    <2>1. 2 * SMs \in Nat
      OBVIOUS
    <2>2. Min({row.active, row.tasks}) = 2 * SMs
      BY <2>1, LesserOf
    <2> QED BY <2>2
  <1>2. waves = 2
    <2>1. Cardinality(P) = 2 * SMs
      <3>1. 2 * SMs - 1 \in Int /\ ~ (0 > 2 * SMs - 1)
        OBVIOUS
      <3>2. Cardinality(P) = (2 * SMs - 1) - 0 + 1
        BY <3>1, FS_Interval
      <3> QED BY <3>2
    <2>2. (2 * SMs) \div SMs = 2
      <3>1. 2 * SMs \in Nat
        OBVIOUS
      <3> DEFINE q == (2 * SMs) \div SMs
                 r == (2 * SMs) % SMs
      <3>2. q \in Nat /\ r \in 0 .. (SMs - 1) /\ 2 * SMs = q * SMs + r
        BY <3>1, DivMod
      <3> HIDE DEF q, r
      <3>3. q >= 3 => q * SMs >= 3 * SMs
        BY <3>2
      <3>4. q <= 1 => q * SMs <= SMs
        BY <3>2
      <3>5. q = 2
        BY <3>2, <3>3, <3>4
      <3> QED BY <3>5 DEF q
    <2> QED BY <1>1, <2>1, <2>2
  <1>3. 0 .. (waves - 1) = 0 .. 1
    BY <1>2
  <1> DEFINE W == 0 .. (waves - 1)
             chunk(k) == [i \in 0 .. (SMs - 1) |-> ev[k * SMs + i].sm]
             onSm(s) == {u \in prefix : ev[u].sm = s}
             suffix == row.r .. (row.tasks - 1)
  <1>4. AnalyzeMapping(ev, row) =
         [unique |-> \A k \in W :
                       Cardinality({chunk(k)[i] : i \in 0 .. (SMs - 1)}) = SMs,
          repeating |-> \A k \in W : chunk(k) = chunk(0),
          contiguous |-> \A u, v \in prefix : ev[u].sm = ev[v].sm /\ u < v =>
                           \A w \in u .. v : ev[w].sm = ev[u].sm,
          residue |-> \A s \in 0 .. (SMs - 1) :
                        Cardinality({u % SMs : u \in onSm(s)}) <= 1,
          byPrefix |-> \A u \in suffix : ev[u].worker < row.active]
    BY Zenon DEF AnalyzeMapping
  <1>5. W = 0 .. 1 /\ prefix = P /\ suffix = (2 * SMs) .. (row.tasks - 1)
    BY <1>1, <1>3
  <1> HIDE DEF W, prefix, suffix, P, waves
  <1>6. /\ AnalyzeMapping(ev, row).unique <=> \A k \in 0 .. 1 :
             Cardinality({Chunk(ev, k)[i] : i \in 0 .. (SMs - 1)}) = SMs
        /\ AnalyzeMapping(ev, row).repeating
             <=> \A k \in 0 .. 1 : Chunk(ev, k) = Chunk(ev, 0)
    BY <1>4, <1>5 DEF Chunk
  <1>7. /\ AnalyzeMapping(ev, row).contiguous <=>
             \A u, v \in P : ev[u].sm = ev[v].sm /\ u < v =>
               \A w \in u .. v : ev[w].sm = ev[u].sm
        /\ AnalyzeMapping(ev, row).residue <=>
             \A s \in 0 .. (SMs - 1) :
               Cardinality({u % SMs : u \in {x \in P : ev[x].sm = s}}) <= 1
    BY <1>4, <1>5
  <1>8. AnalyzeMapping(ev, row).byPrefix <=>
          \A u \in (2 * SMs) .. (row.tasks - 1) : ev[u].worker < row.active
    BY <1>4, <1>5
  <1> QED BY <1>6, <1>7, <1>8 DEF P

(* When two waves fill the SMs in turn, each of the first wave is on a      *)
(* different SM.                                                            *)
LEMMA OntoOneToOne ==
  ASSUME NEW ev, Onto(ev)
  PROVE  \A i, j \in 0 .. (SMs - 1) : ev[i].sm = ev[j].sm => i = j
  <1> DEFINE S == 0 .. (SMs - 1)
             f == Chunk(ev, 0)
  <1>1. IsFiniteSet(S)
    BY FS_Interval
  <1>2. \A i \in S : f[i] = ev[i].sm
    <2>1. \A i \in S : 0 * SMs + i = i
      OBVIOUS
    <2> QED BY <2>1 DEF Chunk
  <1>3. f \in Surjection(S, S)
    <2>1. {f[i] : i \in S} = S /\ DOMAIN f = S /\ f = [i \in S |-> f[i]]
      BY DEF Onto, Chunk
    <2> HIDE DEF f, S
    <2>2. f \in [S -> S]
      BY <2>1
    <2>3. \A t \in S : \E i \in S : f[i] = t
      BY <2>1
    <2> QED BY <2>2, <2>3 DEF Surjection
  <1> HIDE DEF S, f
  <1>4. f \in Injection(S, S)
    BY <1>1, <1>3, FS_SurjSameCardinalityImpliesInj
  <1>5. \A i, j \in S : f[i] = f[j] => i = j
    BY <1>4 DEF Injection, IsInjective
  <1> QED BY <1>2, <1>5 DEF S

(* A worker of two waves is a wave and a place in it. *)
LEMMA InFirstWaves ==
  ASSUME NEW w \in 0 .. (2 * SMs - 1)
  PROVE  /\ w \div SMs \in 0 .. 1 /\ w % SMs \in 0 .. (SMs - 1)
         /\ w = (w \div SMs) * SMs + (w % SMs)
  <1> DEFINE q == w \div SMs
             r == w % SMs
  <1>1. w \in Nat /\ w <= 2 * SMs - 1
    OBVIOUS
  <1>2. q \in Nat /\ r \in 0 .. (SMs - 1) /\ w = q * SMs + r
    BY <1>1, DivMod
  <1> HIDE DEF q, r
  <1>3. q >= 2 => q * SMs >= 2 * SMs
    BY <1>2
  <1>4. q \in 0 .. 1
    BY <1>1, <1>2, <1>3
  <1> QED BY <1>2, <1>4 DEF q, r

(* The second wave repeats the first exactly if each worker has the SM of the
   one a wave before it. *)
LEMMA FillInTurn ==
  ASSUME NEW ev
  PROVE  /\ (\A k \in 0 .. 1 : Chunk(ev, k) = Chunk(ev, 0))
              <=> \A w \in 0 .. (2 * SMs - 1) : ev[w].sm = ev[w % SMs].sm
         /\ {ev[u].sm : u \in 0 .. (SMs - 1)}
              = {Chunk(ev, 0)[i] : i \in 0 .. (SMs - 1)}
  <1>1. \A i \in 0 .. (SMs - 1) : /\ Chunk(ev, 0)[i] = ev[i].sm
                                  /\ Chunk(ev, 1)[i] = ev[SMs + i].sm
    <2>1. \A i \in 0 .. (SMs - 1) : 0 * SMs + i = i /\ 1 * SMs + i = SMs + i
      OBVIOUS
    <2> QED BY <2>1 DEF Chunk
  <1>2. {ev[u].sm : u \in 0 .. (SMs - 1)}
          = {Chunk(ev, 0)[i] : i \in 0 .. (SMs - 1)}
    BY <1>1
  <1>3. ASSUME Chunk(ev, 1) = Chunk(ev, 0), NEW w \in 0 .. (2 * SMs - 1)
        PROVE  ev[w].sm = ev[w % SMs].sm
    <2> DEFINE i == w % SMs
    <2>1. i \in 0 .. (SMs - 1) /\ w \div SMs \in 0 .. 1
          /\ w = (w \div SMs) * SMs + i
      BY InFirstWaves
    <2> HIDE DEF i
    <2>2. CASE w \div SMs = 0
      <3>1. w = i
        BY <2>1, <2>2
      <3> QED BY <3>1 DEF i
    <2>3. CASE w \div SMs = 1
      <3>1. w = SMs + i
        BY <2>1, <2>3
      <3>2. ev[SMs + i].sm = ev[i].sm
        BY <1>1, <1>3, <2>1
      <3> QED BY <3>1, <3>2 DEF i
    <2> QED BY <2>1, <2>2, <2>3
  <1>4. ASSUME \A w \in 0 .. (2 * SMs - 1) : ev[w].sm = ev[w % SMs].sm
        PROVE  Chunk(ev, 1) = Chunk(ev, 0)
    <2>1. ASSUME NEW i \in 0 .. (SMs - 1) PROVE ev[SMs + i].sm = ev[i].sm
      <3>1. (1 * SMs + i) % SMs = i /\ 1 * SMs + i = SMs + i
        BY DivModOf
      <3>2. SMs + i \in 0 .. (2 * SMs - 1)
        OBVIOUS
      <3>3. (SMs + i) % SMs = i
        BY <3>1
      <3> QED BY <1>4, <3>2, <3>3
    <2>2. \A i \in 0 .. (SMs - 1) : Chunk(ev, 1)[i] = Chunk(ev, 0)[i]
      BY <1>1, <2>1
    <2>3. \A k \in 0 .. 1 : /\ DOMAIN Chunk(ev, k) = 0 .. (SMs - 1)
                            /\ Chunk(ev, k) = [i \in 0 .. (SMs - 1) |-> Chunk(ev, k)[i]]
      BY DEF Chunk
    <2> QED BY <2>2, <2>3
  <1>5. (\A k \in 0 .. 1 : Chunk(ev, k) = Chunk(ev, 0)) <=> Chunk(ev, 1) = Chunk(ev, 0)
    <2>1. \A k \in 0 .. 1 : k = 0 \/ k = 1
      OBVIOUS
    <2>2. 1 \in 0 .. 1
      OBVIOUS
    <2> QED BY <2>1, <2>2
  <1> QED BY <1>2, <1>3, <1>4, <1>5

(* A set whose elements are all equal has at most one. *)
LEMMA AtMostOne ==
  ASSUME NEW Q, \A r, t \in Q : r = t
  PROVE  Cardinality(Q) <= 1
  <1>1. CASE Q = {}
    <2>1. Cardinality(Q) = 0
      BY <1>1, FS_EmptySet
    <2> QED BY <2>1
  <1>2. CASE Q # {}
    <2>1. PICK r : r \in Q
      BY <1>2
    <2>2. Q = {r}
      BY <2>1
    <2>3. Cardinality(Q) = 1
      BY <2>2, FS_Singleton
    <2> QED BY <2>3
  <1> QED BY <1>1, <1>2

(* The device has SMs SMs. *)
LEMMA SMsCount == IsFiniteSet(0 .. (SMs - 1)) /\ Cardinality(0 .. (SMs - 1)) = SMs
  <1>1. 0 \in Int /\ SMs - 1 \in Int /\ ~ (0 > SMs - 1)
    OBVIOUS
  <1> QED BY <1>1, FS_Interval

(* The verdict on a mapping, stated of the SMs of the two waves. *)
LEMMA MappingTold ==
  ASSUME NEW ev, NEW row, row.active = 2 * SMs, row.r = 2 * SMs,
         row.tasks \in Nat, row.tasks >= 2 * SMs,
         \A w \in 0 .. (2 * SMs - 1) : ev[w].sm \in 0 .. (SMs - 1),
         \A u \in (2 * SMs) .. (row.tasks - 1) : ev[u].worker < row.active,
         StructuralMapping(row)
  PROVE  ValidMapping(AnalyzeMapping(ev, row), row)
           <=> /\ {ev[u].sm : u \in 0 .. (SMs - 1)} = 0 .. (SMs - 1)
               /\ \A w \in 0 .. (2 * SMs - 1) : ev[w].sm = ev[w % SMs].sm
  <1> DEFINE a == AnalyzeMapping(ev, row)
             P == 0 .. (2 * SMs - 1)
             S == 0 .. (SMs - 1)
             turn == \A w \in P : ev[w].sm = ev[w % SMs].sm
  <1>1. /\ a.unique <=> \A k \in 0 .. 1 :
             Cardinality({Chunk(ev, k)[i] : i \in S}) = SMs
        /\ a.repeating <=> \A k \in 0 .. 1 : Chunk(ev, k) = Chunk(ev, 0)
        /\ a.contiguous <=>
             \A u, v \in P : ev[u].sm = ev[v].sm /\ u < v =>
               \A w \in u .. v : ev[w].sm = ev[u].sm
        /\ a.residue <=>
             \A s \in S : Cardinality({u % SMs : u \in {x \in P : ev[x].sm = s}}) <= 1
        /\ a.byPrefix
    BY AnalysisTold
  <1>2. ValidMapping(a, row) <=> a.unique /\ a.repeating /\ ~a.contiguous /\ a.residue
    <2>1. row.tasks >= row.r
      OBVIOUS
    <2> HIDE DEF a
    <2> QED BY <1>1, <2>1 DEF ValidMapping
  <1>3. a.repeating <=> turn
    BY <1>1, FillInTurn
  <1>4. Cardinality(S) = SMs /\ IsFiniteSet(S)
    BY SMsCount
  <1>5. {ev[u].sm : u \in S} = {Chunk(ev, 0)[i] : i \in S}
    BY FillInTurn
  <1>6. ASSUME a.unique PROVE {ev[u].sm : u \in S} = S
    <2> DEFINE T == {ev[u].sm : u \in S}
    <2>1. Cardinality(T) = SMs
      <3>1. Cardinality({Chunk(ev, 0)[i] : i \in S}) = SMs
        <4>1. 0 \in 0 .. 1
          OBVIOUS
        <4> HIDE DEF a, P, S
        <4> QED BY <1>1, <1>6, <4>1
      <3> QED BY <1>5, <3>1
    <2>2. T \in SUBSET S
      OBVIOUS
    <2> HIDE DEF T, S
    <2>3. T = S
      BY <1>4, <2>1, <2>2, FS_Subset
    <2> QED BY <2>3 DEF T
  <1>7. ASSUME {ev[u].sm : u \in S} = S, turn
        PROVE  a.unique /\ a.repeating /\ ~a.contiguous /\ a.residue
    <2>1. Onto(ev)
      BY <1>5, <1>7 DEF Onto
    <2>2. a.repeating
      BY <1>3, <1>7
    <2>3. a.unique
      <3>1. \A k \in 0 .. 1 : Chunk(ev, k) = Chunk(ev, 0)
        BY <1>1, <2>2
      <3>2. Cardinality({Chunk(ev, 0)[i] : i \in S}) = SMs
        BY <1>4, <1>5, <1>7
      <3>3. ASSUME NEW k \in 0 .. 1 PROVE Cardinality({Chunk(ev, k)[i] : i \in S}) = SMs
        <4>1. Chunk(ev, k) = Chunk(ev, 0)
          BY <3>1
        <4> QED BY <3>2, <4>1
      <3> QED BY <1>1, <3>3
    <2>4. ~a.contiguous
      <3>1. 0 \in P /\ SMs \in P /\ 0 < SMs /\ 1 \in 0 .. SMs /\ 0 \in S /\ 1 \in S
        OBVIOUS
      <3>2. SMs % SMs = 0
        <4>1. (1 * SMs + 0) % SMs = 0
          BY <3>1, DivModOf
        <4> QED BY <4>1
      <3>3. ev[SMs].sm = ev[0].sm
        BY <1>7, <3>1, <3>2
      <3>4. ev[1].sm # ev[0].sm
        BY <2>1, <3>1, OntoOneToOne
      <3> HIDE DEF P, S
      <3> QED BY <1>1, <3>1, <3>3, <3>4
    <2>5. a.residue
      <3>1. ASSUME NEW s \in S
            PROVE  Cardinality({u % SMs : u \in {x \in P : ev[x].sm = s}}) <= 1
        <4> DEFINE Q == {u % SMs : u \in {x \in P : ev[x].sm = s}}
        <4>1. \A r \in Q : r \in S /\ ev[r].sm = s
          BY <1>7, InFirstWaves
        <4>2. \A r, t \in Q : r = t
          BY <2>1, <4>1, OntoOneToOne
        <4> HIDE DEF Q
        <4>4. Cardinality(Q) <= 1
          BY <4>2, AtMostOne
        <4> QED BY <4>4 DEF Q
      <3> QED BY <1>1, <3>1
    <2> QED BY <2>2, <2>3, <2>4, <2>5
  <1>8. ValidMapping(a, row) <=> {ev[u].sm : u \in S} = S /\ turn
    BY <1>2, <1>3, <1>6, <1>7
  <1> QED BY <1>8

(* So it is the verdict MappingVerdict states. *)
LEMMA MappingState ==
  SweepInv /\ CountInv /\ PlanInv /\ KeptInv => MappingVerdict
  <1> SUFFICES ASSUME SweepInv, CountInv, PlanInv, KeptInv, Validating,
                      Suite = "mapping", Row.tasks >= Row.r
               PROVE  Valid(Suite, Row) <=>
                        /\ {kept[u].sm : u \in 0 .. (SMs - 1)} = 0 .. (SMs - 1)
                        /\ \A w \in FirstR : kept[w].sm = kept[w % SMs].sm
    BY DEF MappingVerdict
  <1>1. /\ probing /\ Done /\ ExitsZero(Suite, Row) /\ Head(plan).kind = "row"
        /\ exit = "running" /\ plan # <<>> /\ Suite \in Capturing
    BY DEF Validating, PlanInv, SweepInv, Capturing
  <1>2. /\ Launched = InWave(conf) /\ Grid = 0 .. (conf.units - 1)
        /\ conf = Head(plan).conf /\ conf \in Launches /\ conf.x = 1
        /\ conf.stride = 1 /\ FirstR = InWave(conf)
    BY <1>1, CapturedRun
  <1>3. KeptFits(kept, Suite, conf)
    BY <1>1, <1>2 DEF KeptInv
  <1>4. PredictedR(conf) = 2 * SMs
    BY <1>1, ProbeConf DEF Fits, PredictedR
  <1> DEFINE n == conf.units
             L == Cardinality(Launched)
  <1>5. /\ n \in Nat /\ L \in Nat /\ Row.tasks = n /\ Row.r = 2 * SMs
        /\ Row.active = L
    BY <1>1, <1>2, <1>4, DoneRow
  <1>6. n >= 2 * SMs
    BY <1>5
  <1>7. FirstR = 0 .. (2 * SMs - 1)
    BY <1>2, <1>4, <1>5, <1>6 DEF InWave
  <1>8. L = 2 * SMs
    <2>1. 2 * SMs - 1 \in Int /\ ~ (0 > 2 * SMs - 1)
      OBVIOUS
    <2>2. Cardinality(0 .. (2 * SMs - 1)) = (2 * SMs - 1) - 0 + 1
      BY <2>1, FS_Interval
    <2> QED BY <1>2, <1>7, <2>2
  <1>9. StructuralMapping(Row)
    BY <1>1 DEF ExitsZero
  <1>10. \A w \in 0 .. (2 * SMs - 1) : kept[w].sm \in 0 .. (SMs - 1)
    BY <1>2, <1>3, <1>7 DEF KeptFits
  <1>11. \A u \in (2 * SMs) .. (Row.tasks - 1) : kept[u].worker < Row.active
    <2> SUFFICES ASSUME NEW u \in (2 * SMs) .. (n - 1) PROVE kept[u].worker < 2 * SMs
      BY <1>5, <1>8
    <2>1. u \in 0 .. (n - 1) /\ u \notin InWave(conf)
      BY <1>2, <1>5, <1>7
    <2>2. kept[u].worker \in InWave(conf)
      BY <1>3, <2>1 DEF KeptFits
    <2>3. kept[u].worker \in 0 .. (2 * SMs - 1)
      BY <1>2, <1>7, <2>2
    <2> QED BY <2>3
  <1>12. Valid(Suite, Row) <=> ValidMapping(AnalyzeMapping(kept, Row), Row)
    BY DEF Valid
  <1>13. /\ Row.active = 2 * SMs /\ Row.r = 2 * SMs /\ Row.tasks \in Nat
         /\ Row.tasks >= 2 * SMs
    BY <1>5, <1>6, <1>8
  <1>14. ValidMapping(AnalyzeMapping(kept, Row), Row)
           <=> /\ {kept[u].sm : u \in 0 .. (SMs - 1)} = 0 .. (SMs - 1)
               /\ \A w \in 0 .. (2 * SMs - 1) : kept[w].sm = kept[w % SMs].sm
    BY <1>9, <1>10, <1>11, <1>13, MappingTold
  <1> QED BY <1>7, <1>12, <1>14

(* With at least R tasks the mapping suite accepts a run exactly when the   *)
(* first wave used each SM once and the others followed in turn: the        *)
(* verdict's five tests of chunks, residues and intervals say no more and   *)
(* no less.                                                                 *)
THEOREM MappingSound == Spec => []MappingVerdict
  BY SweepAlways, CountAlways, PlanAlways, KeptAlways, MappingState, PTL
=============================================================================
