----------------------------- MODULE OverlapLoop -----------------------------
(***************************************************************************)
(* The serving control loop and the woven kernels it steers, under         *)
(* SGLang's overlap scheduler.                                             *)
(*                                                                         *)
(* The scheduler thread calls on_batch_begin, launches the batch without   *)
(* waiting for it, and calls on_batch_end (python/sched_sglang_plugin.py). *)
(* The hooks rewrite the order table and the ctrl block of the one         *)
(* SchedPlane (python/sched_rt.py); the CTAs of the launches, which run    *)
(* later, read both at EXECUTION time (lib/SchedWeave.cpp, emitRemap): the *)
(* entry first, the stamp second.  Launches of the stream execute one at a *)
(* time, in order; their CTAs interleave with each other and with the      *)
(* hooks.                                                                  *)
(*                                                                         *)
(* Two channels carry the order table.  On the "arena" channel it is host  *)
(* memory that a hook overwrites at once; on the "device" channel          *)
(* (SCHED_ORDER_DEVICE, the default) set_order enqueues a copy, which runs *)
(* on the stream before the next launch and after the earlier ones.  The   *)
(* ctrl block is host memory on both.                                      *)
(***************************************************************************)
EXTENDS Remap, Sequences

CONSTANTS
  MaxTasks,  (* SchedPlane.N: entries of the table (SCHED_MAX_TASKS)        *)
  MaxGrid,   (* the largest grid a woven launch uses; bounds the model      *)
  Depth,     (* launches that may be in flight after a run_batch            *)
  Clc,       (* SCHED_SGLANG_CLC: "off", "auto" or "on"                     *)
  EnvR,      (* SCHED_CLC_R: resident capacity given up front, 0 = unknown  *)
  OccR,      (* the capacity _resolve_r may read from the woven .so, or 0   *)
  MayRaise,  (* may the code between an install and its push raise?         *)
  Channels   (* the order channels to consider, of "arena" and "device"     *)

ASSUME LoopAssumption ==
  /\ MaxTasks \in Nat \ {0} /\ MaxGrid \in Nat \ {0} /\ Depth \in Nat \ {0}
  /\ Clc \in {"off", "auto", "on"}
  /\ EnvR \in Nat /\ OccR \in Nat
  /\ MayRaise \in BOOLEAN
  /\ Channels \subseteq {"arena", "device"}

VARIABLES
  channel,  (* the channel use_device_order did or did not select           *)
  pc,       (* where the scheduler thread is in its step                    *)
  clcR,     (* _STATE["clc_r"]                                              *)
  orderN,   (* _STATE["order_n"]: tile count of the live order, 0 for None  *)
  mirror,   (* order_size in the host's private copy of ctrl (_ctrl_host)   *)
  stamp,    (* order_size in the published ctrl block                       *)
  table,    (* the order table the CTAs read                                *)
  staged,   (* the table copy this step enqueued ahead of its launch        *)
  queue,    (* launches enqueued and not started, oldest first              *)
  run,      (* grid of the executing launch, 0 when the GPU is idle         *)
  entry,    (* per CTA, the table entry it has loaded (or Nothing)          *)
  served,   (* per CTA, the task it serves (or Nothing)                     *)
  dirty,    (* history: a table write whose stamp is not published yet      *)
  torn      (* history: the executing launch overlapped part of an install  *)

hostVars == <<channel, pc, clcR, orderN, mirror, stamp, staged, dirty>>
gpuVars == <<run, entry, served>>
vars == <<channel, pc, clcR, orderN, mirror, stamp, table, staged, queue,
          run, entry, served, dirty, torn>>

Nothing == -1

(* A table copy on the stream: the first len entries of order.  len = 0 is  *)
(* no copy at all.                                                          *)
NoCopy == [len |-> 0, order |-> Identity(MaxTasks)]
Copies == [len : 0 .. MaxTasks, order : [Tiles(MaxTasks) -> Tiles(MaxTasks)]]

CTAs == Tiles(MaxGrid)

InFlight == Len(queue) + (IF run = 0 THEN 0 ELSE 1)

(* Mutant of StreamIdle: launches that have started are taken for done. *)
StreamDrained == queue = <<>>

(* ev is None or ev.query(): nothing launched so far is still unfinished. *)
StreamIdle == InFlight = 0

(* No table write is waiting for its stamp, and no stamp for its table. *)
Settled ==
  /\ ~dirty
  /\ staged.len = 0
  /\ \A i \in 1 .. Len(queue) : queue[i].copy.len = 0

-----------------------------------------------------------------------------
(* The scheduler thread. *)

(* set_order(tasks[0:n]) followed by set_order_size(size). *)
InstallOrder(f, n, size) ==
  /\ IF channel = "device"
     THEN staged' = [len |-> n, order |-> f] /\ UNCHANGED table
     ELSE table' = Overwrite(table, f, n) /\ UNCHANGED staged
  /\ mirror' = size
  /\ dirty' = TRUE
  /\ torn' = (run # 0)

(* r_for_cached_so: the resident capacity of the decode kernel found in the *)
(* cache, multiplied up from the driver's answer; 0 when any step fails.    *)
OccupancyRead == {0, OccR}

(* _resolve_r: the capacity may become known, once, if claiming is not off. *)
ResolveR ==
  \/ clcR' = clcR
  \/ clcR = 0 /\ Clc # "off" /\ clcR' \in OccupancyRead

(* The tiles of a batch that the plane takes: the last plan's request       *)
(* indices, padding included, or, when they cannot be read, a tile per      *)
(* request.                                                                 *)
PlannedTiles == 1 .. MaxTasks

(* A begin-hook that leaves the plane alone: off the planning cadence, no   *)
(* slot indices, or a batch the plane refuses (more tiles than MaxTasks).   *)
Skip ==
  /\ pc = "begin"
  /\ pc' = "launch"
  /\ UNCHANGED <<channel, clcR, orderN, mirror, stamp, table, staged,
                 queue, gpuVars, dirty, torn>>

(* Mutant of PlanArmed: the armed branch does not note its live order. *)
PlanArmedForgets(n, f) ==
  /\ pc = "begin"
  /\ ResolveR
  /\ Clc = "on" \/ (Clc = "auto" /\ clcR' > 0 /\ n > clcR')
  /\ InstallOrder(f, n, n)
  /\ pc' = "push"
  /\ UNCHANGED <<channel, orderN, stamp, queue, gpuVars>>

(* The claim loop is armed for this batch, on request or (auto) when the    *)
(* batch exceeds the capacity and the predicted imbalance and uncertainty,  *)
(* which are any, exceed their thresholds.  The order is installed at once. *)
PlanArmed(n, f) ==
  /\ pc = "begin"
  /\ ResolveR
  /\ Clc = "on" \/ (Clc = "auto" /\ clcR' > 0 /\ n > clcR')
  /\ InstallOrder(f, n, n)
  /\ orderN' = n
  /\ pc' = "push"
  /\ UNCHANGED <<channel, stamp, queue, gpuVars>>

(* The batch fits in one wave: retire any order an earlier step installed.  *)
PlanOneWave(n) ==
  /\ pc = "begin"
  /\ ResolveR
  /\ Clc # "on" /\ clcR' > 0 /\ n <= clcR'
  /\ IF orderN # 0
     THEN InstallOrder(Identity(MaxTasks), MaxTasks, 0)
     ELSE UNCHANGED <<table, staged, mirror, dirty, torn>>
  /\ orderN' = 0
  /\ pc' = "push"
  /\ UNCHANGED <<channel, stamp, queue, gpuVars>>

(* The queued regime: a new order only if the last launch's event fired.    *)
PlanQueued(n, f) ==
  /\ pc = "begin"
  /\ ResolveR
  /\ Clc # "on" /\ ~(clcR' > 0 /\ n <= clcR')
  /\ IF StreamIdle
     THEN InstallOrder(f, n, n) /\ orderN' = n
     ELSE UNCHANGED <<table, staged, mirror, orderN, dirty, torn>>
  /\ pc' = "push"
  /\ UNCHANGED <<channel, stamp, queue, gpuVars>>

(* The hook raises after its install and before its push; run_batch goes on. *)
RaiseBeforePush ==
  /\ pc = "push" /\ MayRaise
  /\ pc' = "launch"
  /\ UNCHANGED <<channel, clcR, orderN, mirror, stamp, table, staged,
                 queue, gpuVars, dirty, torn>>

(* push(): the mirror becomes the published ctrl block. *)
Publish ==
  /\ stamp' = mirror
  /\ dirty' = FALSE

Push ==
  /\ pc = "push"
  /\ Publish
  /\ pc' = "launch"
  /\ UNCHANGED <<channel, clcR, orderN, mirror, table, staged, queue,
                 gpuVars, torn>>

(* run_batch enqueues the batch's launch and returns.  Its grid is whatever *)
(* the batch needs: the hook's tile count is read from the previous plan.   *)
LaunchBatch(g) ==
  /\ pc = "launch"
  /\ InFlight < Depth
  /\ queue' = Append(queue, [grid |-> g, copy |-> staged])
  /\ staged' = NoCopy
  /\ pc' = "end"
  /\ UNCHANGED <<channel, clcR, orderN, mirror, stamp, table, gpuVars, dirty,
                 torn>>

(* on_batch_end: record the completion event; after a probe step also push  *)
(* the mirror, to turn the timer off.                                       *)
EndBatch ==
  /\ pc = "end"
  /\ pc' = "begin"
  /\ Publish \/ UNCHANGED <<stamp, dirty>>
  /\ UNCHANGED <<channel, clcR, orderN, mirror, table, staged, queue,
                 gpuVars, torn>>

-----------------------------------------------------------------------------
(* The GPU. *)

(* The oldest launch starts, after the table copy enqueued ahead of it. *)
Start ==
  /\ run = 0 /\ queue # <<>>
  /\ LET next == Head(queue) IN
       /\ run' = next.grid
       /\ table' = Overwrite(table, next.copy.order, next.copy.len)
  /\ queue' = Tail(queue)
  /\ UNCHANGED <<hostVars, entry, served>>
  /\ torn' = ~Settled'

(* CTA p loads order[p]; CTAs past the table load nothing. *)
LoadEntry(p) ==
  /\ p < run /\ p < MaxTasks
  /\ entry[p] = Nothing /\ served[p] = Nothing
  /\ entry' = [entry EXCEPT ![p] = table[p]]
  /\ UNCHANGED <<hostVars, table, queue, run, served, torn>>

(* CTA p loads order_size, decides, and runs the kernel body for its task. *)
ServeTask(p) ==
  /\ p < run /\ served[p] = Nothing
  /\ p < MaxTasks => entry[p] # Nothing
  /\ served' = [served EXCEPT ![p] =
                  IF p < MaxTasks THEN Guarded(entry[p], p, stamp, run) ELSE p]
  /\ entry' = [entry EXCEPT ![p] = Nothing]
  /\ UNCHANGED <<hostVars, table, queue, run, torn>>

(* Every CTA has run: the launch completes (and its event fires). *)
Finish ==
  /\ run # 0
  /\ \A p \in Tiles(run) : served[p] # Nothing
  /\ run' = 0
  /\ served' = [p \in CTAs |-> Nothing]
  /\ torn' = FALSE
  /\ UNCHANGED <<hostVars, table, queue, entry>>

-----------------------------------------------------------------------------
Init ==
  /\ channel \in Channels
  /\ pc = "begin"
  /\ clcR = EnvR
  /\ orderN = 0 /\ mirror = 0 /\ stamp = 0
  /\ table = Identity(MaxTasks)
  /\ staged = NoCopy
  /\ queue = <<>>
  /\ run = 0
  /\ entry = [p \in CTAs |-> Nothing]
  /\ served = [p \in CTAs |-> Nothing]
  /\ dirty = FALSE /\ torn = FALSE

Plan ==
  \E n \in PlannedTiles :
    \/ PlanOneWave(n)
    \/ \E f \in Orders(MaxTasks, n) : PlanArmed(n, f) \/ PlanQueued(n, f)

Host ==
  \/ Skip \/ Plan \/ RaiseBeforePush \/ Push
  \/ \E g \in 1 .. MaxGrid : LaunchBatch(g)
  \/ EndBatch

Gpu == Start \/ (\E p \in CTAs : LoadEntry(p) \/ ServeTask(p)) \/ Finish

Next == Host \/ Gpu

Spec == Init /\ [][Next]_vars

-----------------------------------------------------------------------------
(* Properties. *)

LaunchRecord == [grid : 1 .. MaxGrid, copy : Copies]

(* Every variable ranges over the values its code counterpart can hold. *)
TypeOK ==
  /\ channel \in Channels
  /\ pc \in {"begin", "push", "launch", "end"}
  /\ clcR \in {0, EnvR, OccR}
  /\ orderN \in 0 .. MaxTasks
  /\ mirror \in 0 .. MaxTasks
  /\ stamp \in 0 .. MaxTasks
  /\ table \in [Tiles(MaxTasks) -> Tiles(MaxTasks)]
  /\ staged \in Copies
  /\ queue \in Seq(LaunchRecord)
  /\ run \in 0 .. MaxGrid
  /\ entry \in [CTAs -> Tiles(MaxTasks) \cup {Nothing}]
  /\ served \in [CTAs -> CTAs \cup {Nothing}]
  /\ dirty \in BOOLEAN
  /\ torn \in BOOLEAN

(* Whatever the hooks write, and whenever, no CTA is sent to a tile outside *)
(* its launch: the per-launch bound of emitRemap (the illegal-address fix). *)
FaultFree ==
  \A p \in Tiles(run) : served[p] \in Tiles(run) \cup {Nothing}

(* Only CTAs of the executing launch hold an entry or a task, and the task  *)
(* is a tile of that launch.                                                *)
CtasInv ==
  \A p \in CTAs :
    /\ entry[p] # Nothing => p < run /\ served[p] = Nothing
    /\ served[p] # Nothing => p < run /\ served[p] \in Tiles(run)

(* Two CTAs of the executing launch never serve the same tile. *)
NoTileTwice ==
  \A p, q \in Tiles(run) :
    served[p] # Nothing /\ served[p] = served[q] => p = q

(* A launch that overlaps no part of an install serves no tile twice, hence *)
(* all of its tiles: the stamp retires every order of another size.         *)
QuietLaunchesServeOnce == ~torn => NoTileTwice

(* Between installs the published stamp describes the table the next launch *)
(* reads, whatever mixture of installs, retirements and failures came first *)
(* (set_order leaves stale tails, retire writes whole tables).              *)
PlaneCoherent == Settled => Coherent(table, stamp)

(* The hook's note of a live order (order_n) is never lost while the plane  *)
(* still holds one: the next one-wave batch knows what it has to retire.    *)
LiveOrderRemembered ==
  Settled /\ orderN = 0 => stamp = 0 /\ table = Identity(MaxTasks)

(* Nothing the CTAs of an executing launch read changes while it executes.  *)
FrozenWhileExecuting ==
  [][run # 0 /\ run' = run => UNCHANGED <<table, stamp>>]_vars

(* The configurations in which every table write waits for an idle stream:  *)
(* no resident capacity is given or found (claiming off, or auto with an    *)
(* unreadable .so), so that each planned step is in the queued regime, and  *)
(* nothing raises between an install and its push.                          *)
Gated ==
  /\ EnvR = 0 /\ ~MayRaise
  /\ Clc = "off" \/ (Clc = "auto" /\ OccR = 0)

(* The table the next launch to be enqueued will read. *)
Upcoming ==
  LET head == IF queue = <<>> THEN NoCopy ELSE Head(queue).copy IN
    Overwrite(Overwrite(table, head.order, head.len), staged.order, staged.len)

(* Why gating works.  An install is in progress only while nothing is in    *)
(* flight; a copy can only precede the first launch after an idle stream;   *)
(* the upcoming table agrees with the mirror, hence, once published, with   *)
(* the stamp; and what a CTA of the executing launch has read so far is     *)
(* what any of its CTAs would read now.                                     *)
GatedInv ==
  /\ clcR = 0
  /\ dirty \/ staged.len # 0 => StreamIdle /\ pc \in {"push", "launch"}
  /\ dirty => pc = "push"
  /\ \A i \in 1 .. Len(queue) : queue[i].copy.len # 0 => i = 1 /\ run = 0
  /\ ~dirty => stamp = mirror
  /\ Coherent(Upcoming, mirror)
  /\ \A p \in CTAs :
       /\ entry[p] # Nothing => p < MaxTasks /\ entry[p] = table[p]
       /\ served[p] # Nothing => served[p] = Target(table, stamp, p, run)

(* The stream of launches, as the abstract specification sees it. *)
Once == INSTANCE ServeOnce WITH
          grid <- run,
          todo <- Tiles(run) \ {served[p] : p \in Tiles(run)}

(* Every launch serves each of its tiles exactly once. *)
ServesExactlyOnce == Once!Spec
=============================================================================
