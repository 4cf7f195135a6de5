------------------------------ MODULE WorkQueue ------------------------------
(***************************************************************************)
(* The persistent-worker driver of lib/SchedWorkQueue.cpp: the CTAs of a   *)
(* launch serve their own block id first and then claim further raw ids,   *)
(* from a global ticket counter or by cancelling blocks of the launch that *)
(* the hardware has not launched yet (CLC).  Every raw id goes through the *)
(* pi remap before the body runs.  A launch whose num_tasks is 0, whose    *)
(* slots are not armed or whose grid has more than one axis takes the      *)
(* stock path: one task per block.                                         *)
(*                                                                         *)
(* The host side is the API of runtime/sched_rt.h and python/sched_rt.py:  *)
(* install an order and fill the ctrl mirror, push the mirror, prime the   *)
(* counter, launch.  With Rearm it does not wait for the launch to         *)
(* complete before it prepares the next one, as the serving loop's         *)
(* un-gated pushes do.                                                     *)
(*                                                                         *)
(* A CTA is one actor: its threads meet at the barriers around each claim, *)
(* and the loads of one step are taken to return the same values to all of *)
(* them.                                                                   *)
(***************************************************************************)
EXTENDS Remap

CONSTANTS
  MaxTasks,  (* entries of the order table (SCHED_MAX_TASKS)                *)
  MaxGrid,   (* the largest grid launched; bounds the model                 *)
  Modes,     (* how raw ids are claimed: a subset of {"ticket", "clc"}      *)
  Channels,  (* where the host puts its orders: of "arena", the table that  *)
             (* the driver reads, and "device" (use_device_order)           *)
  Api,       (* who prepares launches: "runtime" (the C API as the fixtures *)
             (* use it) or "plane" (SchedPlane as the serving loop uses it) *)
  Rearm      (* may the host rewrite the plane while a launch executes?     *)

ASSUME QueueAssumption ==
  /\ MaxTasks \in Nat \ {0} /\ MaxGrid \in Nat \ {0}
  /\ Modes \subseteq {"ticket", "clc"}
  /\ Channels \subseteq {"arena", "device"}
  /\ Api \in {"runtime", "plane"} /\ Rearm \in BOOLEAN
  /\ Api = "runtime" => Channels = {"arena"}

VARIABLES
  mode,     (* UseCLC: fixed when the kernel is compiled                    *)
  channel,  (* the host's order channel: fixed before the kernel is woven   *)
  table,    (* the order table of the arena                                 *)
  unstamped, (* tiles the order was made for if it bears no stamp, else 0   *)
  mirror,   (* the host's copy of ctrl: order_size and num_tasks            *)
  ctrl,     (* the ctrl block the CTAs read                                 *)
  queue,    (* the ticket counter                                           *)
  grid,     (* blocks of the executing launch, 0 when there is none         *)
  dynamic,  (* is it armed and one-dimensional?                             *)
  tiles,    (* the tasks it is launched to serve                            *)
  state,    (* per block, where it is in the driver                         *)
  ntasks,   (* per block, its entry snapshot of num_tasks; 0 = stock path   *)
  raw,      (* per block, the raw id it holds (or Nothing)                  *)
  entry,    (* per block, the table entry it loaded for it (or Nothing)     *)
  hits      (* history: bodies run for each task in this launch, up to 2    *)

hostVars == <<table, unstamped, mirror, ctrl>>
launchVars == <<grid, dynamic, tiles>>
ctaVars == <<state, ntasks, raw, entry, hits>>
vars == <<mode, channel, hostVars, queue, launchVars, ctaVars>>

Nothing == -1

Blocks == Tiles(MaxGrid)
Tasks == Tiles(MaxGrid) \cup Tiles(MaxTasks)

CtrlBlock == [size : 0 .. MaxTasks, tasks : 0 .. MaxTasks]

(* What the launch site asks of a grid of g blocks. *)
TilesOf(g, d) == IF d /\ ctrl.tasks # 0 THEN ctrl.tasks ELSE g

Idle == grid = 0

-----------------------------------------------------------------------------
(* The host. *)

(* An order and the two ctrl words that go with it, not yet pushed. *)
Prepare(n, f, len, size, tasks) ==
  /\ Idle \/ Rearm
  /\ table' = Overwrite(table, f, len)
  /\ unstamped' = IF size = 0 THEN n ELSE 0
  /\ mirror' = [size |-> size, tasks |-> tasks]
  /\ UNCHANGED <<mode, channel, ctrl, queue, launchVars, ctaVars>>

(* The fixtures pass sched_rt_set_order a whole table and mostly leave the  *)
(* stamp 0; num_tasks is n to claim, 0 to disarm.                           *)
PrepareRuntime ==
  /\ Api = "runtime"
  /\ \E n \in 1 .. MaxTasks : \E f \in Orders(MaxTasks, n) :
       \E size \in {0, n}, tasks \in {0, n} : Prepare(n, f, MaxTasks, size, tasks)

(* set_order of n entries writes them to the arena, or to a device tensor   *)
(* of the plane: emitOrderRemap, which follows no pointer, never reads it.  *)
InArena(n) == IF channel = "device" THEN 0 ELSE n

(* install_order sets and stamps n entries; reset_order sets them all.      *)
PreparePlane ==
  /\ Api = "plane"
  /\ \/ \E n \in 1 .. MaxTasks : \E f \in Orders(MaxTasks, n) :
            \E tasks \in {0, n} : Prepare(n, f, InArena(n), n, tasks)
     \/ Prepare(0, Identity(MaxTasks), InArena(MaxTasks), 0, 0)

(* sched_rt_push_ctrl. *)
PushCtrl ==
  /\ Idle \/ Rearm
  /\ ctrl # mirror
  /\ ctrl' = mirror
  /\ UNCHANGED <<mode, channel, table, unstamped, mirror, queue, launchVars,
                 ctaVars>>

(* Mutant of Primed: the launch site does not reset the counter. *)
PrimedStale(g) == queue

(* sched_rt_queue_reset: workers own the ids below their number. *)
Primed(g) == IF mode = "ticket" THEN g ELSE queue

(* The launch site cooperates: it has pushed; an unstamped order is for     *)
(* this launch; a ticket launch has at most num_tasks workers and a counter *)
(* primed to them (sched_rt_queue_reset); any other has a block per task.   *)
Launch(g, d) ==
  /\ Idle
  /\ ctrl = mirror
  /\ unstamped \in {0, TilesOf(g, d)}
  /\ ctrl.tasks # 0 =>
       IF mode = "ticket" /\ d THEN g <= ctrl.tasks ELSE g >= ctrl.tasks
  /\ grid' = g /\ dynamic' = d /\ tiles' = TilesOf(g, d)
  /\ queue' = Primed(g)
  /\ state' = [b \in Blocks |-> IF b < g THEN "pending" ELSE "gone"]
  /\ hits' = [t \in Tasks |-> 0]
  /\ UNCHANGED <<mode, channel, hostVars, ntasks, raw, entry>>

-----------------------------------------------------------------------------
(* The driver. *)

(* The hardware launches a block that nobody has cancelled. *)
Enter(b) ==
  /\ state[b] = "pending"
  /\ state' = [state EXCEPT ![b] = "entered"]
  /\ UNCHANGED <<mode, channel, hostVars, queue, launchVars, ntasks, raw, entry,
                 hits>>

(* The driver's entry: stock path, surplus block of a padded launch, or a   *)
(* worker whose first raw id is its own.                                    *)
ReadTasks(b) ==
  LET nt == IF dynamic THEN ctrl.tasks ELSE 0 IN
    /\ state[b] = "entered"
    /\ \/ /\ nt # 0 /\ b >= nt
          /\ state' = [state EXCEPT ![b] = "gone"]
          /\ UNCHANGED <<ntasks, raw>>
       \/ /\ nt = 0 \/ b < nt
          /\ state' = [state EXCEPT ![b] = "mapping"]
          /\ ntasks' = [ntasks EXCEPT ![b] = nt]
          /\ raw' = [raw EXCEPT ![b] = b]
    /\ UNCHANGED <<mode, channel, hostVars, queue, launchVars, entry, hits>>

(* emitOrderRemap: the entry is loaded first. *)
LoadEntry(b) ==
  /\ state[b] = "mapping" /\ raw[b] < MaxTasks
  /\ entry' = [entry EXCEPT ![b] = table[raw[b]]]
  /\ state' = [state EXCEPT ![b] = "loaded"]
  /\ UNCHANGED <<mode, channel, hostVars, queue, launchVars, ntasks, raw, hits>>

(* ... then num_tasks, afresh, and order_size decide whether it counts. *)
TaskOf(b) ==
  IF entry[b] = Nothing THEN raw[b]
                        ELSE Guarded(entry[b], raw[b], ctrl.size, ctrl.tasks)

(* The body runs for the task; a stock block is then done. *)
Serve(b) ==
  /\ \/ state[b] = "loaded"
     \/ state[b] = "mapping" /\ raw[b] >= MaxTasks
  /\ hits' = [hits EXCEPT ![TaskOf(b)] = IF @ = 0 THEN 1 ELSE 2]
  /\ state' = [state EXCEPT ![b] = IF ntasks[b] = 0 THEN "gone" ELSE "claiming"]
  /\ raw' = [raw EXCEPT ![b] = Nothing]
  /\ entry' = [entry EXCEPT ![b] = Nothing]
  /\ UNCHANGED <<mode, channel, hostVars, queue, launchVars, ntasks>>

(* Mutants of Done: the claimed id is compared one too far, one too near. *)
DoneLate(b, next) == next > ntasks[b]
DoneEarly(b, next) == next + 1 >= ntasks[b]

(* A claimed raw id at or past the snapshot ends the worker. *)
Done(b, next) == next >= ntasks[b]

(* A claimed raw id is served next, or ends the worker.  cancelled is the   *)
(* set of blocks the claim took from the launch.                            *)
Continue(b, next, cancelled) ==
  LET last == Done(b, next) IN
    /\ raw' = [raw EXCEPT ![b] = IF last THEN Nothing ELSE next]
    /\ state' = [c \in Blocks |->
                   IF c \in cancelled THEN "gone"
                   ELSE IF c # b THEN state[c]
                   ELSE IF last THEN "gone" ELSE "mapping"]
    /\ UNCHANGED <<mode, channel, hostVars, launchVars, ntasks, entry, hits>>

(* emitClaimTicket: thread 0 takes the next ticket for the CTA. *)
ClaimTicket(b) ==
  /\ mode = "ticket" /\ state[b] = "claiming"
  /\ queue' = queue + 1
  /\ Continue(b, queue, {})

(* Mutant of Fallback: num_tasks is loaded afresh. *)
FallbackReload(b) == ctrl.tasks

(* What try_cancel hands a worker when it gets no block: its own snapshot. *)
Fallback(b) == ntasks[b]

(* emitClaimCLC: take the id of a block the hardware has not launched, or,  *)
(* when there is none (or the request is declined), the fallback.           *)
ClaimCLC(b) ==
  /\ mode = "clc" /\ state[b] = "claiming"
  /\ \/ \E c \in Blocks : state[c] = "pending" /\ Continue(b, c, {c})
     \/ Continue(b, Fallback(b), {})
  /\ UNCHANGED queue

(* Every block has run or been cancelled. *)
Finish ==
  /\ ~Idle
  /\ \A b \in Blocks : state[b] = "gone"
  /\ grid' = 0 /\ tiles' = 0
  /\ hits' = [t \in Tasks |-> 0]
  /\ UNCHANGED <<mode, channel, hostVars, queue, dynamic, state, ntasks, raw,
                 entry>>

-----------------------------------------------------------------------------
(* The table starts as the identity.  use_device_order has then written the *)
(* address of its tensor over the first two entries: any two words (one     *)
(* past the table is like the identity: the clamp to num_tasks rejects it). *)
FirstTables ==
  {f \in [Tiles(MaxTasks) -> Tiles(MaxTasks)] :
     \A i \in Tiles(MaxTasks) : channel = "arena" \/ i > 1 => f[i] = i}

Init ==
  /\ mode \in Modes /\ channel \in Channels
  /\ table \in FirstTables
  /\ unstamped = 0
  /\ mirror = [size |-> 0, tasks |-> 0] /\ ctrl = mirror
  /\ queue = 0
  /\ grid = 0 /\ dynamic = FALSE /\ tiles = 0
  /\ state = [b \in Blocks |-> "gone"]
  /\ ntasks = [b \in Blocks |-> 0]
  /\ raw = [b \in Blocks |-> Nothing]
  /\ entry = [b \in Blocks |-> Nothing]
  /\ hits = [t \in Tasks |-> 0]

Host ==
  \/ PrepareRuntime \/ PreparePlane \/ PushCtrl
  \/ \E g \in 1 .. MaxGrid, d \in BOOLEAN : Launch(g, d)

Worker(b) ==
  \/ Enter(b) \/ ReadTasks(b) \/ LoadEntry(b) \/ Serve(b)
  \/ ClaimTicket(b) \/ ClaimCLC(b)

Next == Host \/ (\E b \in Blocks : Worker(b)) \/ Finish

Spec == Init /\ [][Next]_vars

(* A resident block keeps executing, a pending one is launched when a       *)
(* resident one ends, and a finished launch retires.  Nothing is assumed of *)
(* the host.                                                                *)
Fairness == (\A b \in Blocks : WF_vars(Worker(b))) /\ WF_vars(Finish)

FairSpec == Spec /\ Fairness

-----------------------------------------------------------------------------
(* Properties. *)

States == {"gone", "pending", "entered", "mapping", "loaded", "claiming"}

(* Every variable ranges over the values its code counterpart can hold. *)
TypeOK ==
  /\ mode \in Modes /\ channel \in Channels
  /\ table \in [Tiles(MaxTasks) -> Tiles(MaxTasks)]
  /\ unstamped \in 0 .. MaxTasks
  /\ mirror \in CtrlBlock /\ ctrl \in CtrlBlock
  /\ queue \in Nat
  /\ grid \in 0 .. MaxGrid /\ dynamic \in BOOLEAN
  /\ tiles \in Nat
  /\ state \in [Blocks -> States]
  /\ ntasks \in [Blocks -> 0 .. MaxTasks]
  /\ raw \in [Blocks -> Tasks \cup {Nothing}]
  /\ entry \in [Blocks -> Tiles(MaxTasks) \cup {Nothing}]
  /\ hits \in [Tasks -> 0 .. 2]

(* No body runs for a task outside its launch. *)
FaultFree == \A t \in Tasks : hits[t] # 0 => t < tiles

(* No body runs twice for one task of a launch. *)
NoTaskTwice == \A t \in Tasks : hits[t] <= 1

(* A block holds a raw id from the moment it is mapping one until it has    *)
(* served it.                                                               *)
HoldsRaw ==
  \A b \in Blocks : raw[b] # Nothing <=> state[b] \in {"mapping", "loaded"}

(* Ticket uniqueness, and cancel-or-launch exclusivity: whatever the host   *)
(* rewrites meanwhile, no raw id is ever held by two workers, nor held      *)
(* while its own block may still launch or the counter may still issue it.  *)
RawOwnedOnce ==
  \A b \in Blocks : raw[b] # Nothing =>
    /\ \A c \in Blocks \ {b} :
         /\ raw[c] # raw[b]
         /\ c = raw[b] => state[c] \notin {"pending", "entered"}
    /\ mode = "ticket" => raw[b] < queue

(* What keeps RawOwnedOnce inductive: between launches no block is left     *)
(* over, and the counter is past the id of every block of the launch.       *)
QueueInv ==
  /\ HoldsRaw
  /\ RawOwnedOnce
  /\ Idle => \A b \in Blocks : state[b] = "gone"
  /\ mode = "ticket" => \A b \in Blocks : state[b] # "gone" => b < queue

(* The stream of launches, as the abstract specification sees it. *)
Once == INSTANCE ServeOnce WITH
          grid <- tiles,
          todo <- {t \in Tiles(tiles) : hits[t] = 0}

(* Every launch serves each of its tasks, and none of them is left out. *)
ServesAll == Once!Spec

(* Every launch completes: no worker waits or claims for ever. *)
LaunchesComplete == ~Idle ~> Idle

(* With dynamic claiming off, ordering stays live on the stock path: an     *)
(* admissible entry is the task that is served.                             *)
StockHonoursOrder ==
  \A b \in Blocks :
    /\ state[b] = "loaded" /\ ntasks[b] = 0
    /\ SizeOK(ctrl.size, grid) /\ entry[b] < grid
    => TaskOf(b) = entry[b]
=============================================================================
