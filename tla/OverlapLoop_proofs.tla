-------------------------- MODULE OverlapLoop_proofs --------------------------
(***************************************************************************)
(* What holds of the control loop for every table size, grid size, depth   *)
(* of the pipeline and choice of channel.                                  *)
(***************************************************************************)
EXTENDS OverlapLoop, Lemmas

USE LoopAssumption DEF LoopAssumption

(* The order of a new plane is a table of tiles.                            *)
LEMMA IdentityType == Identity(MaxTasks) \in [Tiles(MaxTasks) -> Tiles(MaxTasks)]
  BY DEF Identity

(* A step without an install carries an empty copy.                         *)
LEMMA NoCopyType == NoCopy \in Copies /\ NoCopy.len = 0
  BY IdentityType DEF NoCopy, Copies

(* An install leaves the plane well typed, whatever order it installs. *)
LEMMA InstallType ==
  ASSUME TypeOK, NEW n \in 0 .. MaxTasks, NEW size \in 0 .. MaxTasks,
         NEW f \in [Tiles(MaxTasks) -> Tiles(MaxTasks)],
         InstallOrder(f, n, size)
  PROVE  /\ table' \in [Tiles(MaxTasks) -> Tiles(MaxTasks)]
         /\ staged' \in Copies
         /\ mirror' \in 0 .. MaxTasks
         /\ dirty' \in BOOLEAN
         /\ torn' \in BOOLEAN
  <1>1. table' \in [Tiles(MaxTasks) -> Tiles(MaxTasks)]
    BY OverwriteType DEF TypeOK, InstallOrder
  <1>2. staged' \in Copies
    BY DEF TypeOK, InstallOrder, Copies
  <1>3. mirror' \in 0 .. MaxTasks /\ dirty' \in BOOLEAN /\ torn' \in BOOLEAN
    BY DEF InstallOrder
  <1> QED BY <1>1, <1>2, <1>3

(* The guards and effects of the three planned steps, as the proofs use     *)
(* them.                                                                    *)
LEMMA PlanSteps ==
  ASSUME Plan
  PROVE  \/ \E n \in 1 .. MaxTasks : PlanOneWave(n)
         \/ \E n \in 1 .. MaxTasks : \E f \in Orders(MaxTasks, n) : PlanArmed(n, f)
         \/ \E n \in 1 .. MaxTasks : \E f \in Orders(MaxTasks, n) : PlanQueued(n, f)
  BY DEF Plan, PlannedTiles

(* Every order that region_order may return is a table of tiles.            *)
LEMMA OrderType ==
  ASSUME NEW n \in 1 .. MaxTasks, NEW f \in Orders(MaxTasks, n)
  PROVE  f \in [Tiles(MaxTasks) -> Tiles(MaxTasks)]
  BY DEF Orders

(* TypeOK is inductive. *)
LEMMA TypeStep == TypeOK /\ [Next]_vars => TypeOK'
  <1> SUFFICES ASSUME TypeOK, [Next]_vars PROVE TypeOK'
    OBVIOUS
  <1>1. CASE Skip
    BY <1>1 DEF TypeOK, Skip, gpuVars
  <1>2. CASE \E n \in 1 .. MaxTasks : PlanOneWave(n)
    <2> PICK n \in 1 .. MaxTasks : PlanOneWave(n)
      BY <1>2
    <2>1. /\ table' \in [Tiles(MaxTasks) -> Tiles(MaxTasks)]
          /\ staged' \in Copies /\ mirror' \in 0 .. MaxTasks
          /\ dirty' \in BOOLEAN /\ torn' \in BOOLEAN
      BY InstallType, IdentityType DEF PlanOneWave, TypeOK
    <2>2. clcR' \in {0, EnvR, OccR}
      BY DEF PlanOneWave, ResolveR, OccupancyRead, TypeOK
    <2> QED BY <2>1, <2>2 DEF TypeOK, PlanOneWave, gpuVars
  <1>3. CASE \E n \in 1 .. MaxTasks :
               \E f \in Orders(MaxTasks, n) : PlanArmed(n, f)
    <2> PICK n \in 1 .. MaxTasks : \E f \in Orders(MaxTasks, n) : PlanArmed(n, f)
      BY <1>3
    <2> PICK f \in Orders(MaxTasks, n) : PlanArmed(n, f)
      OBVIOUS
    <2>1. /\ table' \in [Tiles(MaxTasks) -> Tiles(MaxTasks)]
          /\ staged' \in Copies /\ mirror' \in 0 .. MaxTasks
          /\ dirty' \in BOOLEAN /\ torn' \in BOOLEAN
      BY InstallType, OrderType DEF PlanArmed
    <2>2. clcR' \in {0, EnvR, OccR}
      BY DEF PlanArmed, ResolveR, OccupancyRead, TypeOK
    <2> QED BY <2>1, <2>2 DEF TypeOK, PlanArmed, gpuVars
  <1>4. CASE \E n \in 1 .. MaxTasks :
               \E f \in Orders(MaxTasks, n) : PlanQueued(n, f)
    <2> PICK n \in 1 .. MaxTasks : \E f \in Orders(MaxTasks, n) : PlanQueued(n, f)
      BY <1>4
    <2> PICK f \in Orders(MaxTasks, n) : PlanQueued(n, f)
      OBVIOUS
    <2>1. /\ table' \in [Tiles(MaxTasks) -> Tiles(MaxTasks)]
          /\ staged' \in Copies /\ mirror' \in 0 .. MaxTasks
          /\ dirty' \in BOOLEAN /\ torn' \in BOOLEAN
      BY InstallType, OrderType DEF PlanQueued, TypeOK
    <2>2. clcR' \in {0, EnvR, OccR}
      BY DEF PlanQueued, ResolveR, OccupancyRead, TypeOK
    <2>3. orderN' \in 0 .. MaxTasks
      BY DEF PlanQueued, TypeOK
    <2> QED BY <2>1, <2>2, <2>3 DEF TypeOK, PlanQueued, gpuVars
  <1>5. CASE RaiseBeforePush
    BY <1>5 DEF TypeOK, RaiseBeforePush, gpuVars
  <1>6. CASE Push
    BY <1>6 DEF TypeOK, Push, Publish, gpuVars
  <1>7. CASE \E g \in 1 .. MaxGrid : LaunchBatch(g)
    <2> PICK g \in 1 .. MaxGrid : LaunchBatch(g)
      BY <1>7
    <2>1. [grid |-> g, copy |-> staged] \in LaunchRecord
      BY DEF LaunchRecord, TypeOK
    <2>2. queue' \in Seq(LaunchRecord)
      BY <2>1 DEF LaunchBatch, TypeOK
    <2> QED BY <2>2, NoCopyType DEF TypeOK, LaunchBatch, gpuVars
  <1>8. CASE EndBatch
    BY <1>8 DEF TypeOK, EndBatch, Publish, gpuVars
  <1>9. CASE Start
    <2>1. Head(queue) \in LaunchRecord /\ queue' \in Seq(LaunchRecord)
      BY <1>9 DEF Start, TypeOK
    <2>2. table' \in [Tiles(MaxTasks) -> Tiles(MaxTasks)]
      BY <1>9, <2>1, OverwriteType DEF Start, TypeOK, LaunchRecord, Copies
    <2>3. run' \in 0 .. MaxGrid
      BY <1>9, <2>1 DEF Start, LaunchRecord
    <2>4. torn' \in BOOLEAN
      BY <1>9 DEF Start, Settled
    <2> QED BY <1>9, <2>1, <2>2, <2>3, <2>4 DEF TypeOK, Start, hostVars
  <1>10. CASE \E p \in CTAs : LoadEntry(p)
    <2> PICK p \in CTAs : LoadEntry(p)
      BY <1>10
    <2>1. table[p] \in Tiles(MaxTasks)
      BY DEF LoadEntry, TypeOK, CTAs, Tiles
    <2> QED BY <2>1 DEF TypeOK, LoadEntry, hostVars
  <1>11. CASE \E p \in CTAs : ServeTask(p)
    <2> PICK p \in CTAs : ServeTask(p)
      BY <1>11
    <2>1. p \in Tiles(run) /\ run \in Nat /\ Tiles(run) \subseteq CTAs
      BY DEF ServeTask, TypeOK, CTAs, Tiles
    <2>2. entry[p] # Nothing => entry[p] \in Nat
      BY DEF TypeOK, Tiles
    <2>3. p < MaxTasks => Guarded(entry[p], p, stamp, run) \in CTAs
      BY <2>1, <2>2, GuardedInLaunch DEF ServeTask
    <2> QED BY <2>3 DEF TypeOK, ServeTask, hostVars
  <1>12. CASE Finish
    <2>1. served' \in [CTAs -> CTAs \cup {Nothing}]
      BY <1>12 DEF Finish
    <2>2. run' \in 0 .. MaxGrid
      BY <1>12 DEF Finish
    <2>3. torn' \in BOOLEAN
      BY <1>12, Zenon DEF Finish
    <2> QED BY <1>12, <2>1, <2>2, <2>3 DEF TypeOK, Finish, hostVars
  <1>13. CASE UNCHANGED vars
    BY <1>13 DEF TypeOK, vars
  <1> QED BY <1>1, <1>2, <1>3, <1>4, <1>5, <1>6, <1>7, <1>8, <1>9, <1>10,
             <1>11, <1>12, <1>13, PlanSteps DEF Next, Host, Gpu

(* The loop is type correct in every configuration. *)
THEOREM TypeCorrect == Spec => []TypeOK
  <1>1. Init => TypeOK
    <2> SUFFICES ASSUME Init PROVE TypeOK
      OBVIOUS
    <2>1. /\ entry \in [CTAs -> Tiles(MaxTasks) \cup {Nothing}]
          /\ served \in [CTAs -> CTAs \cup {Nothing}]
      BY DEF Init
    <2>2. queue \in Seq(LaunchRecord)
      BY DEF Init
    <2>3. orderN \in 0 .. MaxTasks /\ run \in 0 .. MaxGrid
      BY DEF Init
    <2> QED BY <2>1, <2>2, <2>3, IdentityType, NoCopyType DEF Init, TypeOK
  <1> QED BY <1>1, TypeStep, PTL DEF Spec

-----------------------------------------------------------------------------
(* The host never touches what the CTAs of the executing launch hold. *)
LEMMA HostLeavesCtas ==
  ASSUME Host
  PROVE  UNCHANGED <<run, entry, served>>
  BY DEF Host, Plan, PlannedTiles, Skip, PlanArmed, PlanOneWave, PlanQueued,
         RaiseBeforePush, Push, LaunchBatch, EndBatch, gpuVars

(* CtasInv is inductive, in every configuration. *)
LEMMA CtasStep == TypeOK /\ CtasInv /\ [Next]_vars => CtasInv'
  <1> SUFFICES ASSUME TypeOK, CtasInv, [Next]_vars PROVE CtasInv'
    OBVIOUS
  <1>1. CASE Host \/ UNCHANGED vars
    BY <1>1, HostLeavesCtas DEF CtasInv, vars
  <1>2. CASE Start
    <2>1. \A p \in CTAs : entry[p] = Nothing /\ served[p] = Nothing
      BY <1>2 DEF Start, CtasInv, CTAs, Tiles
    <2> QED BY <1>2, <2>1 DEF Start, CtasInv
  <1>3. CASE \E p \in CTAs : LoadEntry(p)
    BY <1>3 DEF LoadEntry, CtasInv, TypeOK
  <1>4. CASE \E p \in CTAs : ServeTask(p)
    <2> PICK p \in CTAs : ServeTask(p)
      BY <1>4
    <2>1. p \in Tiles(run) /\ run \in Nat
      BY DEF ServeTask, TypeOK, CTAs, Tiles
    <2>2. entry[p] # Nothing => entry[p] \in Nat
      BY DEF TypeOK, Tiles
    <2>3. served'[p] \in Tiles(run)
      BY <2>1, <2>2, GuardedInLaunch DEF ServeTask, TypeOK
    <2>4. \A q \in CTAs \ {p} : served'[q] = served[q] /\ entry'[q] = entry[q]
      BY DEF ServeTask, TypeOK
    <2>5. entry'[p] = Nothing /\ run' = run /\ p < run
      BY DEF ServeTask, TypeOK
    <2> QED BY <2>3, <2>4, <2>5 DEF CtasInv
  <1>5. CASE Finish
    <2>1. \A p \in CTAs : entry[p] = Nothing
      BY <1>5 DEF Finish, CtasInv, CTAs, Tiles, TypeOK
    <2> QED BY <1>5, <2>1 DEF Finish, CtasInv
  <1> QED BY <1>1, <1>2, <1>3, <1>4, <1>5 DEF Next, Gpu

(* Only CTAs of the executing launch hold entries and tasks, and their      *)
(* tasks are tiles of that launch, whatever the host does meanwhile.        *)
THEOREM CtasCorrect == Spec => []CtasInv
  <1>1. Init => CtasInv
    BY DEF Init, CtasInv
  <1> QED BY <1>1, CtasStep, TypeCorrect, PTL DEF Spec

(* No interleaving of hooks and kernels, in any configuration, sends a CTA  *)
(* to a tile outside its launch.                                            *)
THEOREM NeverFaults == Spec => []FaultFree
  <1>1. TypeOK /\ CtasInv => FaultFree
    BY DEF TypeOK, CtasInv, FaultFree, CTAs, Tiles
  <1> QED BY <1>1, TypeCorrect, CtasCorrect, PTL

-----------------------------------------------------------------------------
(* The gated configuration. *)

(* The table the next launch reads, when no launch waits to start. *)
LEMMA UpcomingEmpty ==
  ASSUME TypeOK, queue = <<>>
  PROVE  Upcoming = Overwrite(table, staged.order, staged.len)
  BY NoCopyType, OverwriteNothing DEF Upcoming, TypeOK

(* ... and when the head of the queue and this step carry no copy. *)
LEMMA UpcomingNoCopies ==
  ASSUME TypeOK, staged.len = 0,
         queue # <<>> => Head(queue).copy.len = 0
  PROVE  Upcoming = table
  BY NoCopyType, OverwriteNothing DEF Upcoming, TypeOK

(* While a launch executes, the table agrees with the stamp. *)
LEMMA ExecutingCoherent ==
  ASSUME TypeOK, GatedInv, run # 0
  PROVE  Coherent(table, stamp) /\ stamp = mirror /\ ~dirty
  <1>1. staged.len = 0 /\ ~dirty
    BY DEF GatedInv, StreamIdle, InFlight, TypeOK
  <1>2. queue # <<>> => Head(queue).copy.len = 0
    BY DEF GatedInv, TypeOK
  <1>3. Upcoming = table
    BY <1>1, <1>2, UpcomingNoCopies
  <1> QED BY <1>1, <1>3 DEF GatedInv

(* While nothing executes, no CTA holds anything. *)
LEMMA IdleCtas ==
  ASSUME TypeOK, CtasInv, run = 0
  PROVE  \A p \in CTAs : entry[p] = Nothing /\ served[p] = Nothing
  BY DEF CtasInv, CTAs, Tiles

(* An install that found the stream idle leaves the upcoming table coherent *)
(* with the stamp it is about to publish.                                   *)
LEMMA GatedPlanQueued ==
  ASSUME Gated, TypeOK, TypeOK', CtasInv, GatedInv,
         NEW n \in 1 .. MaxTasks, NEW f \in Orders(MaxTasks, n),
         PlanQueued(n, f)
  PROVE  GatedInv'
  <1>1. clcR' = 0
    BY DEF PlanQueued, ResolveR, OccupancyRead, Gated, GatedInv
  <1>2. staged.len = 0 /\ ~dirty
    BY DEF PlanQueued, GatedInv
  <1>3. CASE ~StreamIdle
    BY <1>1, <1>2, <1>3
       DEF PlanQueued, GatedInv, gpuVars, Upcoming, StreamIdle, InFlight, NoCopy
  <1>4. CASE StreamIdle
    <2>1. run = 0 /\ queue = <<>>
      BY <1>4 DEF StreamIdle, InFlight, TypeOK
    <2>2. InstallOrder(f, n, n)
      BY <1>4 DEF PlanQueued
    <2>3. run' = 0 /\ queue' = <<>> /\ StreamIdle' /\ pc' = "push"
      BY <2>1 DEF PlanQueued, gpuVars, StreamIdle, InFlight
    <2>4. Upcoming' = Overwrite(table', staged'.order, staged'.len)
      BY <2>3, NoCopyType, OverwriteNothing DEF Upcoming, TypeOK, NoCopy
    <2>5. Upcoming' = Overwrite(table, f, n)
      <3>1. CASE channel = "device"
        BY <2>2, <2>4, <3>1 DEF InstallOrder
      <3>2. CASE channel # "device"
        <4>1. table' = Overwrite(table, f, n) /\ staged' = staged
          BY <2>2, <3>2 DEF InstallOrder
        <4>2. table' \in [Tiles(MaxTasks) -> Tiles(MaxTasks)]
          BY DEF TypeOK
        <4> QED BY <1>2, <2>4, <4>1, <4>2, OverwriteNothing
      <3> QED BY <3>1, <3>2
    <2>6. Coherent(Upcoming', n) /\ mirror' = n
      BY <2>2, <2>5, OverwriteCoherent DEF TypeOK, InstallOrder
    <2>7. \A p \in CTAs : entry'[p] = Nothing /\ served'[p] = Nothing
      BY <2>1, IdleCtas DEF PlanQueued, gpuVars
    <2>8. dirty'
      BY <2>2, Zenon DEF InstallOrder
    <2> QED BY <1>1, <2>3, <2>6, <2>7, <2>8 DEF GatedInv
  <1> QED BY <1>3, <1>4

(* push() and on_batch_end publish what is published already, unless the    *)
(* stream is idle.                                                          *)
LEMMA GatedPublish ==
  ASSUME TypeOK, CtasInv, GatedInv, Push \/ EndBatch
  PROVE  GatedInv'
  <1>1. UNCHANGED <<clcR, mirror, table, staged, queue, run, entry, served>>
    BY DEF Push, EndBatch, gpuVars
  <1>2. Upcoming' = Upcoming /\ StreamIdle' = StreamIdle
    BY <1>1 DEF Upcoming, StreamIdle, InFlight, NoCopy
  <1>3. ~dirty' /\ stamp' = mirror
    BY DEF Push, EndBatch, Publish, GatedInv
  <1>4. staged'.len # 0 => StreamIdle' /\ pc' \in {"push", "launch"}
    BY <1>1, <1>2 DEF Push, EndBatch, GatedInv
  <1>5. \A p \in CTAs :
          /\ entry'[p] # Nothing => p < MaxTasks /\ entry'[p] = table'[p]
          /\ served'[p] # Nothing => served'[p] = Target(table', stamp', p, run')
    <2>1. CASE run = 0
      BY <1>1, <2>1, IdleCtas
    <2>2. CASE run # 0
      BY <1>1, <1>3, <2>2, ExecutingCoherent DEF GatedInv
    <2> QED BY <2>1, <2>2
  <1> QED BY <1>1, <1>2, <1>3, <1>4, <1>5 DEF GatedInv

(* The copy an install enqueued becomes the head of an empty stream. *)
LEMMA GatedLaunch ==
  ASSUME TypeOK, TypeOK', GatedInv, NEW g \in 1 .. MaxGrid, LaunchBatch(g)
  PROVE  GatedInv'
  <1> DEFINE rec == [grid |-> g, copy |-> staged]
  <1>1. /\ UNCHANGED <<clcR, mirror, stamp, table, run, entry, served, dirty>>
        /\ queue' = Append(queue, rec) /\ staged' = NoCopy
        /\ pc = "launch"
    BY DEF LaunchBatch, gpuVars
  <1>2. ~dirty /\ stamp = mirror
    BY <1>1 DEF GatedInv
  <1>3. rec \in LaunchRecord
    BY DEF LaunchRecord, TypeOK
  <1>4. /\ Len(queue') = Len(queue) + 1
        /\ \A i \in 1 .. Len(queue) : queue'[i] = queue[i]
        /\ queue'[Len(queue) + 1] = rec
    BY <1>1, <1>3 DEF TypeOK
  <1>5. /\ queue = <<>> => Head(queue') = rec
        /\ queue # <<>> => Head(queue') = Head(queue)
        /\ queue' # <<>>
    BY <1>1, <1>3, <1>4 DEF TypeOK
  <1>6. staged.len # 0 => run = 0 /\ queue = <<>>
    BY DEF GatedInv, StreamIdle, InFlight, TypeOK
  <1>7. Upcoming' = Upcoming
    <2> DEFINE H == Head(queue').copy
    <2>1. /\ H.len \in 0 .. MaxTasks
          /\ H.order \in [Tiles(MaxTasks) -> Tiles(MaxTasks)]
      <3>1. Head(queue') \in LaunchRecord
        BY <1>5 DEF TypeOK
      <3> QED BY <3>1 DEF LaunchRecord, Copies
    <2>2. Upcoming' = Overwrite(table, H.order, H.len)
      <3>1. Overwrite(table, H.order, H.len) \in [Tiles(MaxTasks) -> Tiles(MaxTasks)]
        BY <2>1, OverwriteType DEF TypeOK
      <3>2. Upcoming' = Overwrite(Overwrite(table, H.order, H.len), NoCopy.order, NoCopy.len)
        BY <1>1, <1>5 DEF Upcoming, NoCopy
      <3> QED BY <3>1, <3>2, NoCopyType, OverwriteNothing
    <2>3. CASE queue = <<>>
      BY <1>5, <2>2, <2>3, UpcomingEmpty
    <2>4. CASE queue # <<>>
      <3>1. Upcoming = Overwrite(Overwrite(table, H.order, H.len), staged.order, 0)
        BY <1>5, <1>6, <2>4 DEF Upcoming, TypeOK, Copies
      <3>2. Overwrite(table, H.order, H.len) \in [Tiles(MaxTasks) -> Tiles(MaxTasks)]
        BY <2>1, OverwriteType DEF TypeOK
      <3> QED BY <2>2, <3>1, <3>2, OverwriteNothing
    <2> QED BY <2>3, <2>4
  <1>8. ASSUME NEW i \in 1 .. Len(queue'), queue'[i].copy.len # 0
        PROVE  i = 1 /\ run' = 0
    <2>1. CASE i \in 1 .. Len(queue)
      BY <1>1, <1>4, <1>8, <2>1 DEF GatedInv
    <2>2. CASE i = Len(queue) + 1
      BY <1>1, <1>4, <1>6, <1>8, <2>2
    <2> QED BY <1>4, <2>1, <2>2 DEF TypeOK
  <1> QED BY <1>1, <1>2, <1>7, <1>8, NoCopyType DEF GatedInv

(* The launch that starts performs the copy the stream held for it. *)
LEMMA GatedStart ==
  ASSUME TypeOK, TypeOK', CtasInv, GatedInv, Start
  PROVE  GatedInv'
  <1> DEFINE H == Head(queue)
  <1>1. /\ UNCHANGED <<clcR, mirror, stamp, staged, dirty, pc, entry, served>>
        /\ run = 0 /\ queue # <<>>
        /\ table' = Overwrite(table, H.copy.order, H.copy.len)
        /\ queue' = Tail(queue)
    BY DEF Start, hostVars
  <1>2. ~StreamIdle
    BY <1>1 DEF StreamIdle, InFlight, TypeOK
  <1>3. ~dirty /\ staged.len = 0
    BY <1>2 DEF GatedInv
  <1>4. \A i \in 1 .. Len(queue') : queue'[i].copy.len = 0
    <2> TAKE i \in 1 .. Len(queue')
    <2>1. i + 1 \in 1 .. Len(queue) /\ queue'[i] = queue[i + 1] /\ i + 1 # 1
      BY <1>1 DEF TypeOK
    <2> QED BY <2>1 DEF GatedInv
  <1>5. Upcoming' = table'
    <2>1. queue' # <<>> => Head(queue').copy.len = 0
      BY <1>4 DEF TypeOK
    <2>2. queue' # <<>> => Overwrite(table', Head(queue').copy.order, 0) = table'
      BY OverwriteNothing DEF TypeOK
    <2>3. Overwrite(table', NoCopy.order, 0) = table'
      BY OverwriteNothing DEF TypeOK
    <2>4. Overwrite(table', staged'.order, 0) = table'
      BY OverwriteNothing DEF TypeOK
    <2> QED BY <1>1, <1>3, <2>1, <2>2, <2>3, <2>4, NoCopyType DEF Upcoming, NoCopy
  <1>6. Upcoming = table'
    BY <1>1, <1>3, OverwriteNothing DEF Upcoming, TypeOK
  <1>7. \A p \in CTAs : entry'[p] = Nothing /\ served'[p] = Nothing
    BY <1>1, IdleCtas
  <1> QED BY <1>1, <1>3, <1>4, <1>5, <1>6, <1>7 DEF GatedInv

(* What a CTA reads and decides is what Target says of the current plane. *)
LEMMA GatedCtas ==
  ASSUME TypeOK, GatedInv,
         (\E p \in CTAs : LoadEntry(p) \/ ServeTask(p)) \/ Finish
  PROVE  GatedInv'
  <1>1. UNCHANGED <<clcR, pc, mirror, stamp, staged, dirty, table, queue>>
    BY DEF LoadEntry, ServeTask, Finish, hostVars
  <1>2. Upcoming' = Upcoming
    BY <1>1 DEF Upcoming, NoCopy
  <1>3. StreamIdle => StreamIdle'
    BY <1>1 DEF StreamIdle, InFlight, LoadEntry, ServeTask, Finish, TypeOK
  <1>4. run = 0 => run' = 0
    BY DEF LoadEntry, ServeTask, Finish
  <1>5. \A p \in CTAs :
          /\ entry'[p] # Nothing => p < MaxTasks /\ entry'[p] = table'[p]
          /\ served'[p] # Nothing => served'[p] = Target(table', stamp', p, run')
    <2>1. CASE \E p \in CTAs : LoadEntry(p)
      BY <1>1, <2>1 DEF LoadEntry, GatedInv, TypeOK
    <2>2. CASE \E p \in CTAs : ServeTask(p)
      <3> PICK p \in CTAs : ServeTask(p)
        BY <2>2
      <3>1. served'[p] = Target(table, stamp, p, run)
        BY DEF ServeTask, GatedInv, TypeOK, Target, Tiles, CTAs
      <3>2. \A q \in CTAs \ {p} : served'[q] = served[q] /\ entry'[q] = entry[q]
        BY DEF ServeTask, TypeOK
      <3>3. entry'[p] = Nothing /\ run' = run
        BY DEF ServeTask, TypeOK
      <3> QED BY <1>1, <3>1, <3>2, <3>3 DEF GatedInv
    <2>3. CASE Finish
      BY <1>1, <2>3 DEF Finish, GatedInv
    <2> QED BY <2>1, <2>2, <2>3
  <1> QED BY <1>1, <1>2, <1>3, <1>4, <1>5 DEF GatedInv

(* With claiming off and no capacity given, every planned step is queued. *)
LEMMA GatedPlan ==
  ASSUME Gated, TypeOK, TypeOK', CtasInv, GatedInv, Plan
  PROVE  GatedInv'
  <1>1. ASSUME NEW n \in 1 .. MaxTasks PROVE ~PlanOneWave(n)
    BY DEF PlanOneWave, ResolveR, OccupancyRead, Gated, GatedInv
  <1>2. ASSUME NEW n \in 1 .. MaxTasks, NEW f \in Orders(MaxTasks, n)
        PROVE  ~PlanArmed(n, f)
    BY DEF PlanArmed, ResolveR, OccupancyRead, Gated, GatedInv
  <1>3. ASSUME NEW n \in 1 .. MaxTasks, NEW f \in Orders(MaxTasks, n),
               PlanQueued(n, f)
        PROVE  GatedInv'
    BY <1>3, GatedPlanQueued
  <1> QED BY <1>1, <1>2, <1>3, PlanSteps

(* GatedInv is inductive in the gated configuration. *)
LEMMA GatedStep ==
  Gated /\ TypeOK /\ TypeOK' /\ CtasInv /\ GatedInv /\ [Next]_vars => GatedInv'
  <1> SUFFICES ASSUME Gated, TypeOK, TypeOK', CtasInv, GatedInv, [Next]_vars
               PROVE  GatedInv'
    OBVIOUS
  <1>1. CASE Skip
    <2>1. UNCHANGED <<clcR, mirror, stamp, table, staged, queue, run, entry,
                      served, dirty>>
      BY <1>1 DEF Skip, gpuVars
    <2>2. Upcoming' = Upcoming /\ StreamIdle' = StreamIdle
      BY <2>1 DEF Upcoming, StreamIdle, InFlight, NoCopy
    <2>3. ~dirty /\ staged.len = 0
      BY <1>1 DEF Skip, GatedInv
    <2> QED BY <2>1, <2>2, <2>3 DEF GatedInv
  <1>2. CASE Plan
    BY <1>2, GatedPlan
  <1>3. CASE RaiseBeforePush
    BY <1>3 DEF RaiseBeforePush, Gated
  <1>4. CASE Push \/ EndBatch
    BY <1>4, GatedPublish
  <1>5. CASE \E g \in 1 .. MaxGrid : LaunchBatch(g)
    BY <1>5, GatedLaunch
  <1>6. CASE Start
    BY <1>6, GatedStart
  <1>7. CASE (\E p \in CTAs : LoadEntry(p) \/ ServeTask(p)) \/ Finish
    BY <1>7, GatedCtas
  <1>8. CASE UNCHANGED vars
    BY <1>8 DEF vars, GatedInv, Upcoming, StreamIdle, InFlight, NoCopy
  <1> QED BY <1>1, <1>2, <1>3, <1>4, <1>5, <1>6, <1>7, <1>8
          DEF Next, Host, Gpu

(* In the gated configuration the inductive invariant holds throughout. *)
THEOREM GatedCorrect ==
  ASSUME Gated
  PROVE  Spec => []GatedInv
  <1>1. Init => GatedInv
    <2> SUFFICES ASSUME Init PROVE GatedInv
      OBVIOUS
    <2>1. Upcoming = Identity(MaxTasks)
      BY NoCopyType, IdentityType, OverwriteNothing DEF Init, Upcoming
    <2>2. Coherent(Upcoming, mirror)
      BY <2>1 DEF Init, Coherent, Identity
    <2> QED BY <2>2, NoCopyType DEF Init, GatedInv, Gated
  <1>2. Gated
    OBVIOUS
  <1>3. TypeOK /\ TypeOK' /\ CtasInv /\ GatedInv /\ [Next]_vars => GatedInv'
    BY <1>2, GatedStep
  <1> QED BY <1>1, <1>3, TypeCorrect, CtasCorrect, PTL DEF Spec

(* What the CTAs of an executing launch serve is injective. *)
LEMMA GatedInjective == TypeOK /\ GatedInv => NoTileTwice
  <1> SUFFICES ASSUME TypeOK, GatedInv,
                      NEW p \in Tiles(run), NEW q \in Tiles(run),
                      served[p] # Nothing, served[p] = served[q]
               PROVE  p = q
    BY DEF NoTileTwice
  <1>1. p \in CTAs /\ q \in CTAs /\ run # 0
    BY DEF TypeOK, CTAs, Tiles
  <1>2. Target(table, stamp, p, run) = Target(table, stamp, q, run)
    BY <1>1 DEF GatedInv
  <1> QED BY <1>1, <1>2, ExecutingCoherent, TargetInjective DEF TypeOK

(* If every table write waits for the stream, no launch, however large and  *)
(* whatever orders were installed before it, serves a tile twice.           *)
THEOREM GatedNoTileTwice ==
  ASSUME Gated
  PROVE  Spec => []NoTileTwice
  BY GatedInjective, GatedCorrect, TypeCorrect, PTL

(* In the gated configuration nothing a CTA reads changes while its launch  *)
(* executes.                                                                *)
LEMMA FrozenStep ==
  ASSUME Gated, TypeOK, GatedInv, [Next]_vars, run # 0, run' = run
  PROVE  UNCHANGED <<table, stamp>>
  <1>1. ~StreamIdle /\ ~dirty /\ stamp = mirror /\ staged.len = 0
    BY ExecutingCoherent DEF StreamIdle, InFlight, TypeOK, GatedInv
  <1>2. CASE Plan
    <2>1. ASSUME NEW n \in 1 .. MaxTasks PROVE ~PlanOneWave(n)
      BY DEF PlanOneWave, ResolveR, OccupancyRead, Gated, GatedInv
    <2>2. ASSUME NEW n \in 1 .. MaxTasks, NEW f \in Orders(MaxTasks, n)
          PROVE  ~PlanArmed(n, f)
      BY DEF PlanArmed, ResolveR, OccupancyRead, Gated, GatedInv
    <2>3. ASSUME NEW n \in 1 .. MaxTasks, NEW f \in Orders(MaxTasks, n),
                 PlanQueued(n, f)
          PROVE  UNCHANGED <<table, stamp>>
      BY <1>1, <2>3 DEF PlanQueued
    <2> QED BY <1>2, <2>1, <2>2, <2>3, PlanSteps
  <1>3. CASE Push \/ EndBatch
    BY <1>1, <1>3 DEF Push, EndBatch, Publish
  <1>4. CASE Skip \/ RaiseBeforePush \/ \E g \in 1 .. MaxGrid : LaunchBatch(g)
    BY <1>4 DEF Skip, RaiseBeforePush, LaunchBatch
  <1>5. CASE Start \/ (\E p \in CTAs : LoadEntry(p) \/ ServeTask(p)) \/ Finish
    BY <1>5 DEF Start, LoadEntry, ServeTask, Finish, hostVars
  <1>6. CASE UNCHANGED vars
    BY <1>6 DEF vars
  <1> QED BY <1>2, <1>3, <1>4, <1>5, <1>6 DEF Next, Host, Gpu

(* In the gated configuration the table and the stamp that the CTAs of a    *)
(* launch read are the same words from its start to its completion.         *)
THEOREM GatedFrozen ==
  ASSUME Gated
  PROVE  Spec => FrozenWhileExecuting
  <1>1. Gated
    OBVIOUS
  <1>2. TypeOK /\ GatedInv /\ [Next]_vars
          => [run # 0 /\ run' = run => UNCHANGED <<table, stamp>>]_vars
    BY <1>1, FrozenStep
  <1> QED BY <1>2, TypeCorrect, GatedCorrect, PTL DEF Spec, FrozenWhileExecuting

(* A launch that serves no tile twice and has finished has served them all. *)
LEMMA FinishedServesAll ==
  ASSUME TypeOK, CtasInv, NoTileTwice, NEW S,
         S = {served[p] : p \in Tiles(run)},
         \A p \in Tiles(run) : served[p] # Nothing
  PROVE  S = Tiles(run)
  <1> DEFINE f == [p \in Tiles(run) |-> served[p]]
  <1>1. run \in Nat /\ Tiles(run) \subseteq CTAs
    BY DEF TypeOK, CTAs, Tiles
  <1>2. f \in [Tiles(run) -> Tiles(run)]
    BY <1>1 DEF CtasInv
  <1>3. InjectiveOn(f, Tiles(run))
    BY DEF NoTileTwice, InjectiveOn
  <1>4. {f[p] : p \in Tiles(run)} = Tiles(run)
    BY <1>1, <1>2, <1>3, InjectiveCovers
  <1> QED BY <1>4

(* Every step of the gated loop is a step of ServeOnce or leaves it alone:  *)
(* Start launches, ServeTask serves one outstanding tile, Finish completes. *)
LEMMA GatedRefines ==
  ASSUME TypeOK, CtasInv, NoTileTwice, NoTileTwice', [Next]_vars
  PROVE  [Once!Next]_(Once!vars)
  <1> DEFINE todo == Tiles(run) \ {served[p] : p \in Tiles(run)}
  <1>1. CASE Host \/ UNCHANGED vars
    BY <1>1, HostLeavesCtas DEF Once!vars, vars
  <1>2. CASE Start
    <2>1. run = 0 /\ run' \in 1 .. MaxGrid /\ served' = served
      <3>1. Head(queue) \in LaunchRecord
        BY <1>2 DEF Start, TypeOK
      <3> QED BY <1>2, <3>1 DEF Start, LaunchRecord
    <2>2. \A p \in Tiles(run') : served'[p] = Nothing
      BY <2>1, IdleCtas DEF CTAs, Tiles
    <2>3. todo' = 0 .. (run' - 1)
      BY <2>2 DEF Tiles, Nothing
    <2>4. Once!Launch
      BY <2>1, <2>3 DEF Once!Launch
    <2> QED BY <2>4 DEF Once!Next
  <1>3. CASE \E p \in CTAs : LoadEntry(p)
    BY <1>3 DEF LoadEntry, Once!vars
  <1>4. CASE \E p \in CTAs : ServeTask(p)
    <2> PICK p \in CTAs : ServeTask(p)
      BY <1>4
    <2> DEFINE t == served'[p]
    <2>1. p \in Tiles(run) /\ run' = run /\ served[p] = Nothing
      BY DEF ServeTask, CTAs, Tiles, TypeOK
    <2>2. \A q \in Tiles(run) \ {p} : served'[q] = served[q]
      BY DEF ServeTask, TypeOK, CTAs, Tiles
    <2>3. t \in Tiles(run) /\ t # Nothing
      <3>1. CtasInv'
        BY CtasStep
      <3>2. t # Nothing
        BY <2>1, GuardedInLaunch DEF ServeTask, TypeOK, Tiles, CTAs, Nothing
      <3> QED BY <2>1, <3>1, <3>2 DEF CtasInv
    <2>4. \A q \in Tiles(run) \ {p} : served[q] # t
      BY <2>1, <2>2, <2>3 DEF NoTileTwice
    <2>5. t \in todo
      BY <2>1, <2>3, <2>4 DEF Nothing
    <2>6. todo' = todo \ {t}
      BY <2>1, <2>2, <2>3 DEF Nothing, Tiles
    <2>7. Once!Serve
      BY <2>1, <2>5, <2>6 DEF Once!Serve
    <2> QED BY <2>7 DEF Once!Next
  <1>5. CASE Finish
    <2>1. todo = {}
      BY <1>5, FinishedServesAll DEF Finish
    <2>2. run # 0 /\ run' = 0 /\ todo' = {}
      BY <1>5 DEF Finish, Tiles
    <2>3. Once!Complete
      BY <2>1, <2>2 DEF Once!Complete
    <2> QED BY <2>3 DEF Once!Next
  <1> QED BY <1>1, <1>2, <1>3, <1>4, <1>5 DEF Next, Gpu

(* In the gated configuration the loop, its in-flight hooks and its kernels *)
(* implement ServeOnce: reordering never adds, drops or repeats a tile.     *)
THEOREM GatedServesExactlyOnce ==
  ASSUME Gated
  PROVE  Spec => ServesExactlyOnce
  <1>1. Init => Once!Init
    BY DEF Init, Once!Init, Tiles
  <1>2. TypeOK /\ CtasInv /\ NoTileTwice /\ NoTileTwice' /\ [Next]_vars
          => [Once!Next]_(Once!vars)
    BY GatedRefines
  <1> QED BY <1>1, <1>2, TypeCorrect, CtasCorrect, GatedNoTileTwice, PTL
          DEF Spec, ServesExactlyOnce, Once!Spec

-----------------------------------------------------------------------------
(***************************************************************************)
(* Every configuration: hooks that install without waiting, that raise     *)
(* between an install and its push, and either channel.  Nothing orders    *)
(* the hooks and the kernels here; what remains true is that the words     *)
(* still under way describe each other.                                    *)
(***************************************************************************)

(* A copy that an install enqueued for a stamp of n, or a retirement (0).   *)
CopyFor(c, n) ==
  IF n = 0 THEN c.len = MaxTasks /\ c.order = Identity(MaxTasks)
           ELSE c.len = n /\ c.order \in Orders(MaxTasks, n)

(* No copy is under way on the stream. *)
NonePending ==
  staged.len = 0 /\ \A i \in 1 .. Len(queue) : queue[i].copy.len = 0

(* The last table write, done or still under way, is the one the host's     *)
(* private stamp is for.                                                    *)
LastWriteDescribed ==
  /\ staged.len # 0 => CopyFor(staged, mirror)
  /\ \A i \in 1 .. Len(queue) :
       /\ staged.len = 0 /\ queue[i].copy.len # 0
       /\ \A j \in i + 1 .. Len(queue) : queue[j].copy.len = 0
       => CopyFor(queue[i].copy, mirror)
  /\ NonePending => Coherent(table, mirror)

(* While a quiet launch executes nothing is under way, and what its CTAs    *)
(* have read is what any of them would read now.                            *)
QuietKept ==
  run # 0 /\ ~torn =>
    /\ Settled
    /\ \A p \in CTAs :
         /\ entry[p] # Nothing => p < MaxTasks /\ entry[p] = table[p]
         /\ served[p] # Nothing => served[p] = Target(table, stamp, p, run)

LoopInv ==
  /\ orderN = mirror
  /\ ~dirty => stamp = mirror
  /\ channel # "device" => NonePending
  /\ LastWriteDescribed
  /\ QuietKept

(* What an install writes: an order of n tiles and its stamp, or the        *)
(* identity and none.                                                       *)
Installs(f, n, size) ==
  /\ InstallOrder(f, n, size) /\ orderN' = size
  /\ \/ size = n /\ n \in 1 .. MaxTasks /\ f \in Orders(MaxTasks, n)
     \/ size = 0 /\ n = MaxTasks /\ f = Identity(MaxTasks)

(* A planned step installs, retires, or leaves the plane as it was.         *)
LEMMA PlanEffect ==
  ASSUME LoopInv, Plan
  PROVE  /\ UNCHANGED <<channel, stamp, queue, run, entry, served>>
         /\ \/ UNCHANGED <<table, staged, mirror, orderN, dirty, torn>>
            \/ \E f, n, size : Installs(f, n, size)
  <1>1. CASE \E n \in 1 .. MaxTasks : PlanOneWave(n)
    BY <1>1 DEF PlanOneWave, Installs, gpuVars
  <1>2. CASE \E n \in 1 .. MaxTasks :
               \E f \in Orders(MaxTasks, n) : PlanArmed(n, f)
    BY <1>2 DEF PlanArmed, Installs, gpuVars
  <1>3. CASE \E n \in 1 .. MaxTasks :
               \E f \in Orders(MaxTasks, n) : PlanQueued(n, f)
    BY <1>3 DEF PlanQueued, Installs, gpuVars
  <1> QED BY <1>1, <1>2, <1>3, PlanSteps

(* The identity, written over a whole table, is coherent with no stamp.     *)
LEMMA RetiredCoherent ==
  ASSUME NEW t \in [Tiles(MaxTasks) -> Tiles(MaxTasks)]
  PROVE  Coherent(Overwrite(t, Identity(MaxTasks), MaxTasks), 0)
  BY DEF Coherent, Overwrite, Identity, Tiles

(* A copy enqueued for a stamp makes any table coherent with that stamp.    *)
LEMMA CopyCoherent ==
  ASSUME NEW t \in [Tiles(MaxTasks) -> Tiles(MaxTasks)],
         NEW c, NEW n \in 0 .. MaxTasks, CopyFor(c, n)
  PROVE  Coherent(Overwrite(t, c.order, c.len), n)
  <1>1. CASE n = 0
    BY <1>1, RetiredCoherent DEF CopyFor
  <1>2. CASE n # 0
    BY <1>2, OverwriteCoherent DEF CopyFor
  <1> QED BY <1>1, <1>2

(* An install describes the write it makes, at once or on the stream, and   *)
(* marks the executing launch as one that it may tear.                      *)
LEMMA LoopInstall ==
  ASSUME TypeOK, LoopInv, NEW f, NEW n, NEW size, Installs(f, n, size),
         UNCHANGED <<channel, stamp, queue, run, entry, served>>
  PROVE  LoopInv'
  <1>1. dirty' /\ torn' = (run # 0) /\ mirror' = size /\ orderN' = size
    BY Zenon DEF Installs, InstallOrder
  <1>2. QuietKept'
    BY <1>1 DEF QuietKept
  <1>3. CASE channel = "device"
    <2>1. staged' = [len |-> n, order |-> f]
      BY <1>3 DEF Installs, InstallOrder
    <2>2. n # 0 /\ CopyFor(staged', size)
      BY <2>1 DEF Installs, CopyFor
    <2>3. staged'.len # 0
      BY <2>1, <2>2
    <2>4. LastWriteDescribed'
      BY <1>1, <2>2, <2>3 DEF LastWriteDescribed, NonePending, CopyFor
    <2> QED BY <1>1, <1>2, <1>3, <2>4 DEF LoopInv
  <1>4. CASE channel # "device"
    <2>1. table' = Overwrite(table, f, n) /\ staged' = staged
      BY <1>4 DEF Installs, InstallOrder
    <2>2. NonePending' /\ staged'.len = 0 /\ \A i \in 1 .. Len(queue') : queue'[i].copy.len = 0
      BY <1>4, <2>1 DEF LoopInv, NonePending
    <2>3. Coherent(table', mirror')
      BY <1>1, <2>1, RetiredCoherent, OverwriteCoherent DEF Installs, TypeOK
    <2>4. LastWriteDescribed'
      BY <2>2, <2>3 DEF LastWriteDescribed
    <2> QED BY <1>1, <1>2, <2>2, <2>4 DEF LoopInv
  <1> QED BY <1>3, <1>4

(* push() and on_batch_end complete an install; under a quiet launch they   *)
(* publish the words that are published already.                            *)
LEMMA LoopPublish ==
  ASSUME TypeOK, LoopInv, Push \/ EndBatch
  PROVE  LoopInv'
  <1>1. UNCHANGED <<channel, mirror, orderN, table, staged, queue, run, entry,
                    served, torn>>
    BY DEF Push, EndBatch, gpuVars
  <1>2. \/ stamp' = mirror /\ ~dirty'
        \/ stamp' = stamp /\ dirty' = dirty
    BY Zenon DEF Push, EndBatch, Publish
  <1>3. ~dirty => stamp' = stamp /\ ~dirty'
    BY <1>2 DEF LoopInv
  <1>4. QuietKept'
    BY <1>1, <1>3 DEF LoopInv, QuietKept, Settled
  <1>5. LastWriteDescribed'
    BY <1>1 DEF LoopInv, LastWriteDescribed, NonePending
  <1> QED BY <1>1, <1>2, <1>4, <1>5 DEF LoopInv, NonePending

(* The copy this step enqueued takes its place at the end of the stream.    *)
LEMMA LoopLaunch ==
  ASSUME TypeOK, LoopInv, NEW g \in 1 .. MaxGrid, LaunchBatch(g)
  PROVE  LoopInv'
  <1> DEFINE rec == [grid |-> g, copy |-> staged]
             n == Len(queue)
  <1>1. /\ UNCHANGED <<channel, mirror, orderN, stamp, table, dirty, run, entry,
                       served, torn>>
        /\ queue' = Append(queue, rec) /\ staged' = NoCopy
    BY DEF LaunchBatch, gpuVars
  <1>2. rec \in LaunchRecord
    BY DEF LaunchRecord, TypeOK
  <1>3. /\ n \in Nat /\ Len(queue') = n + 1
        /\ \A i \in 1 .. n : queue'[i] = queue[i]
        /\ queue'[n + 1].copy = staged
    BY <1>1, <1>2 DEF TypeOK
  <1>4. staged'.len = 0
    BY <1>1, NoCopyType
  <1> HIDE DEF rec
  <1>5. NonePending' <=> NonePending
    <2>1. NonePending => NonePending'
      BY <1>3, <1>4 DEF NonePending
    <2>2. NonePending' => NonePending
      BY <1>3, <1>4 DEF NonePending
    <2> QED BY <2>1, <2>2
  <1>6. LastWriteDescribed'
    <2>1. ASSUME NEW i \in 1 .. n + 1, queue'[i].copy.len # 0,
                 \A j \in i + 1 .. n + 1 : queue'[j].copy.len = 0
          PROVE  CopyFor(queue'[i].copy, mirror)
      <3>1. CASE i = n + 1
        BY <1>3, <2>1, <3>1 DEF LoopInv, LastWriteDescribed
      <3>2. CASE i # n + 1
        <4>1. i \in 1 .. n /\ n + 1 \in i + 1 .. n + 1
          BY <1>3, <3>2
        <4>2. staged.len = 0
          BY <1>3, <2>1, <4>1
        <4>3. \A j \in i + 1 .. n : queue[j].copy.len = 0
          BY <1>3, <2>1, <4>1
        <4> QED BY <1>3, <2>1, <4>1, <4>2, <4>3 DEF LoopInv, LastWriteDescribed
      <3> QED BY <3>1, <3>2
    <2>2. \A i \in 1 .. Len(queue') :
            /\ staged'.len = 0 /\ queue'[i].copy.len # 0
            /\ \A j \in i + 1 .. Len(queue') : queue'[j].copy.len = 0
            => CopyFor(queue'[i].copy, mirror')
      BY <1>1, <1>3, <2>1
    <2> QED BY <1>1, <1>4, <1>5, <2>2
            DEF LoopInv, LastWriteDescribed, CopyFor
  <1>7. QuietKept'
    BY <1>1, <1>5 DEF LoopInv, QuietKept, Settled, NonePending
  <1> QED BY <1>1, <1>5, <1>6, <1>7 DEF LoopInv

(* The launch that starts performs its copy; if it was the last one under   *)
(* way, the table is now what the host's stamp is for.                      *)
LEMMA LoopStart ==
  ASSUME TypeOK, TypeOK', CtasInv, LoopInv, Start
  PROVE  LoopInv'
  <1> DEFINE c == Head(queue).copy
             n == Len(queue)
  <1>1. /\ UNCHANGED <<channel, mirror, orderN, stamp, staged, dirty, entry,
                       served>>
        /\ run = 0 /\ queue # <<>>
        /\ table' = Overwrite(table, c.order, c.len)
        /\ queue' = Tail(queue) /\ torn' = ~Settled'
    BY Zenon DEF Start, hostVars
  <1>2. /\ n \in Nat \ {0} /\ Len(queue') = n - 1 /\ c = queue[1].copy
        /\ \A i \in 1 .. n - 1 : queue'[i] = queue[i + 1]
    BY <1>1 DEF TypeOK
  <1>3. /\ c.len \in 0 .. MaxTasks
        /\ c.order \in [Tiles(MaxTasks) -> Tiles(MaxTasks)]
    <2>1. Head(queue) \in LaunchRecord
      BY <1>1 DEF TypeOK
    <2> QED BY <2>1 DEF LaunchRecord, Copies
  <1> HIDE DEF c
  <1>4. \A i \in 2 .. n : i - 1 \in 1 .. n - 1 /\ queue'[i - 1] = queue[i]
    BY <1>2
  <1>5. NonePending => NonePending'
    BY <1>1, <1>2 DEF NonePending
  <1>6. NonePending' /\ c.len = 0 => NonePending
    <2> SUFFICES ASSUME NonePending', c.len = 0, NEW i \in 1 .. n
                 PROVE  queue[i].copy.len = 0
      BY <1>1 DEF NonePending
    <2>1. CASE i = 1
      BY <1>2, <2>1
    <2>2. CASE i # 1
      BY <1>2, <1>4, <2>2 DEF NonePending
    <2> QED BY <2>1, <2>2
  <1>7. ASSUME NonePending' PROVE Coherent(table', mirror')
    <2>1. CASE c.len = 0
      <3>1. table' = table
        BY <1>1, <1>3, <2>1, OverwriteNothing DEF TypeOK
      <3> QED BY <1>1, <1>6, <1>7, <2>1, <3>1 DEF LoopInv, LastWriteDescribed
    <2>2. CASE c.len # 0
      <3>1. staged.len = 0 /\ \A j \in 2 .. n : queue[j].copy.len = 0
        BY <1>1, <1>2, <1>4, <1>7 DEF NonePending
      <3>2. 1 \in 1 .. n
        BY <1>2
      <3>3. CopyFor(c, mirror)
        BY <1>2, <2>2, <3>1, <3>2 DEF LoopInv, LastWriteDescribed
      <3> QED BY <1>1, <3>3, CopyCoherent DEF TypeOK
    <2> QED BY <2>1, <2>2
  <1>8. \A i \in 1 .. Len(queue') :
          /\ staged'.len = 0 /\ queue'[i].copy.len # 0
          /\ \A j \in i + 1 .. Len(queue') : queue'[j].copy.len = 0
          => CopyFor(queue'[i].copy, mirror')
    <2> SUFFICES ASSUME NEW i \in 1 .. n - 1,
                        staged.len = 0, queue'[i].copy.len # 0,
                        \A j \in i + 1 .. n - 1 : queue'[j].copy.len = 0
                 PROVE  CopyFor(queue[i + 1].copy, mirror)
      BY <1>1, <1>2
    <2>1. i + 1 \in 1 .. n /\ queue[i + 1].copy.len # 0
      BY <1>2
    <2>2. \A j \in (i + 1) + 1 .. n : queue[j].copy.len = 0
      <3> TAKE j \in (i + 1) + 1 .. n
      <3>1. j - 1 \in i + 1 .. n - 1 /\ j \in 2 .. n
        BY <1>2
      <3> QED BY <1>4, <3>1
    <2> QED BY <2>1, <2>2 DEF LoopInv, LastWriteDescribed
  <1>9. LastWriteDescribed'
    BY <1>1, <1>7, <1>8 DEF LoopInv, LastWriteDescribed, CopyFor
  <1>10. QuietKept'
    BY <1>1, IdleCtas DEF QuietKept
  <1> QED BY <1>1, <1>5, <1>9, <1>10 DEF LoopInv

(* What a CTA of a quiet launch reads and decides is what Target says.      *)
LEMMA LoopCtas ==
  ASSUME TypeOK, LoopInv,
         (\E p \in CTAs : LoadEntry(p) \/ ServeTask(p)) \/ Finish
  PROVE  LoopInv'
  <1>1. UNCHANGED <<channel, mirror, orderN, stamp, staged, dirty, table, queue>>
    BY DEF LoadEntry, ServeTask, Finish, hostVars
  <1>2. LastWriteDescribed' /\ (NonePending => NonePending')
    BY <1>1 DEF LoopInv, LastWriteDescribed, NonePending, CopyFor
  <1>3. Settled' = Settled
    BY <1>1 DEF Settled
  <1>4. QuietKept'
    <2>1. CASE \E p \in CTAs : LoadEntry(p)
      BY <1>1, <1>3, <2>1 DEF LoadEntry, LoopInv, QuietKept, TypeOK
    <2>2. CASE \E p \in CTAs : ServeTask(p)
      <3> PICK p \in CTAs : ServeTask(p)
        BY <2>2
      <3>1. /\ run' = run /\ torn' = torn /\ entry'[p] = Nothing
            /\ \A q \in CTAs \ {p} : served'[q] = served[q] /\ entry'[q] = entry[q]
        BY DEF ServeTask, TypeOK
      <3>2. run # 0 /\ ~torn => served'[p] = Target(table, stamp, p, run)
        BY DEF ServeTask, LoopInv, QuietKept, TypeOK, Target, Tiles, CTAs
      <3> QED BY <1>1, <1>3, <3>1, <3>2 DEF LoopInv, QuietKept
    <2>3. CASE Finish
      BY <2>3 DEF Finish, QuietKept
    <2> QED BY <2>1, <2>2, <2>3
  <1> QED BY <1>1, <1>2, <1>4 DEF LoopInv

(* LoopInv is inductive in every configuration.                             *)
LEMMA LoopStep ==
  TypeOK /\ TypeOK' /\ CtasInv /\ LoopInv /\ [Next]_vars => LoopInv'
  <1> SUFFICES ASSUME TypeOK, TypeOK', CtasInv, LoopInv, [Next]_vars
               PROVE  LoopInv'
    OBVIOUS
  <1>1. ASSUME UNCHANGED <<channel, stamp, queue, run, entry, served, table,
                           staged, mirror, orderN, dirty, torn>>
        PROVE  LoopInv'
    BY <1>1 DEF LoopInv, LastWriteDescribed, NonePending, QuietKept, Settled, CopyFor
  <1>2. CASE Plan
    BY <1>1, <1>2, PlanEffect, LoopInstall
  <1>3. CASE Skip \/ RaiseBeforePush \/ UNCHANGED vars
    BY <1>1, <1>3 DEF Skip, RaiseBeforePush, gpuVars, vars
  <1>4. CASE Push \/ EndBatch
    BY <1>4, LoopPublish
  <1>5. CASE \E g \in 1 .. MaxGrid : LaunchBatch(g)
    BY <1>5, LoopLaunch
  <1>6. CASE Start
    BY <1>6, LoopStart
  <1>7. CASE (\E p \in CTAs : LoadEntry(p) \/ ServeTask(p)) \/ Finish
    BY <1>7, LoopCtas
  <1> QED BY <1>2, <1>3, <1>4, <1>5, <1>6, <1>7 DEF Next, Host, Gpu

(* In every configuration the words of the plane, published, private and    *)
(* still on the stream, describe each other.                                *)
THEOREM LoopCorrect == Spec => []LoopInv
  <1>1. Init => LoopInv
    <2> SUFFICES ASSUME Init PROVE LoopInv
      OBVIOUS
    <2>1. Coherent(table, mirror)
      BY DEF Init, Coherent, Identity
    <2>2. staged.len = 0 /\ queue = <<>>
      BY NoCopyType DEF Init
    <2>3. NonePending /\ LastWriteDescribed
      BY <2>1, <2>2 DEF NonePending, LastWriteDescribed
    <2> QED BY <2>3 DEF Init, LoopInv, QuietKept
  <1> QED BY <1>1, LoopStep, TypeCorrect, CtasCorrect, PTL DEF Spec

(* Between installs the published stamp describes the table, whatever       *)
(* mixture of installs, retirements, failed hooks and delayed copies came   *)
(* first, on either channel.                                                *)
THEOREM SettledPlaneCoherent == Spec => []PlaneCoherent
  <1>1. LoopInv => PlaneCoherent
    BY DEF LoopInv, LastWriteDescribed, NonePending, PlaneCoherent, Settled
  <1> QED BY <1>1, LoopCorrect, PTL

(* The hook never forgets an order that the plane still holds.              *)
THEOREM RetirementNeverMissed == Spec => []LiveOrderRemembered
  <1>1. TypeOK /\ LoopInv => LiveOrderRemembered
    <2> SUFFICES ASSUME TypeOK, LoopInv, Settled, orderN = 0
                 PROVE  stamp = 0 /\ table = Identity(MaxTasks)
      BY DEF LiveOrderRemembered
    <2>1. stamp = 0 /\ Coherent(table, 0)
      BY DEF LoopInv, LastWriteDescribed, NonePending, Settled
    <2> QED BY <2>1 DEF Coherent, Identity, TypeOK
  <1> QED BY <1>1, TypeCorrect, LoopCorrect, PTL

(* In every configuration, a launch that no install overlaps serves no tile *)
(* twice, hence all of its tiles: overlap is the only way to lose one.      *)
THEOREM QuietServesOnce == Spec => []QuietLaunchesServeOnce
  <1>1. TypeOK /\ LoopInv => QuietLaunchesServeOnce
    <2> SUFFICES ASSUME TypeOK, LoopInv, ~torn,
                        NEW p \in Tiles(run), NEW q \in Tiles(run),
                        served[p] # Nothing, served[p] = served[q]
                 PROVE  p = q
      BY DEF QuietLaunchesServeOnce, NoTileTwice
    <2>1. p \in CTAs /\ q \in CTAs /\ run # 0
      BY DEF TypeOK, CTAs, Tiles
    <2>2. Target(table, stamp, p, run) = Target(table, stamp, q, run)
      BY <2>1 DEF LoopInv, QuietKept
    <2>3. Coherent(table, stamp)
      BY <2>1 DEF LoopInv, QuietKept, Settled, LastWriteDescribed, NonePending
    <2> QED BY <2>1, <2>2, <2>3, TargetInjective DEF TypeOK
  <1> QED BY <1>1, TypeCorrect, LoopCorrect, PTL
===============================================================================
