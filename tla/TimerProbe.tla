------------------------------ MODULE TimerProbe ------------------------------
(***************************************************************************)
(* The observation half of the serving loop: one step in TimerEvery is a   *)
(* probe.  Its begin-hook turns the woven timer on and clears the rows,    *)
(* its end-hook turns the timer off again and notes a completion event,    *)
(* and a later begin-hook that finds the event fired folds the rows into   *)
(* the estimator under the binding the probe left                          *)
(* (python/sched_sglang_plugin.py).  A CTA latches the timer gate when it  *)
(* enters and adds its cycles to its row when it returns                   *)
(* (lib/SchedWeave.cpp).                                                   *)
(*                                                                         *)
(* On the "device" channel (SCHED_TIMER_DEVICE, the default) the rows are  *)
(* cleared by an operation of the stream, ahead of the step's launch; on   *)
(* the "arena" channel the hook clears them itself, at once.  The gate is  *)
(* a word of the host-mapped ctrl block on both.                           *)
(*                                                                         *)
(* A step is one launch here, of Grid CTAs that each have a row.  Cycles   *)
(* are abstracted to the step they were spent in.  Steps are numbered      *)
(* modulo the period of the cadence, and named by elements of Names; a     *)
(* name is used again when no variable of the hooks and no launch refers   *)
(* to it, and what the rows hold of it becomes cycles of a forgotten step. *)
(***************************************************************************)
EXTENDS Integers, Sequences, FiniteSets

CONSTANTS
  TimerEvery,  (* steps between probes (timer_every)                        *)
  PlanEvery,   (* steps between re-plans (SCHED_PLAN_EVERY)                 *)
  Depth,       (* launches that may be in flight after a run_batch          *)
  Grid,        (* CTAs, hence rows, of a launch; bounds the model           *)
  Names,       (* names of steps: positive numbers                          *)
  MayRaise,    (* may a begin-hook raise?                                   *)
  Channels     (* the timer channels to consider, of "arena" and "device"   *)

ASSUME ProbeAssumption ==
  /\ TimerEvery \in Nat \ {0} /\ PlanEvery \in Nat \ {0}
  /\ Depth \in Nat \ {0} /\ Grid \in Nat \ {0}
  /\ Names \subseteq Nat \ {0}
  /\ MayRaise \in BOOLEAN
  /\ Channels \subseteq {"arena", "device"}

VARIABLES
  channel,   (* the channel use_device_timer did or did not select          *)
  pc,        (* where the scheduler thread is in its step                   *)
  step,      (* _STATE["step"], modulo the period                           *)
  cur,       (* the name of the step being executed                         *)
  armed,     (* _STATE["timer_armed"]                                       *)
  binding,   (* _STATE["binding"]: the step that left it, or None           *)
  pendEvent, (* _STATE["pending"][0]: the step it completes with, or None   *)
  pendBind,  (* _STATE["pending"][1]                                        *)
  mirrorOff, (* TIMER_OFF in the host's copy of ctrl                        *)
  ctrlOff,   (* TIMER_OFF in the published ctrl block                       *)
  zeroing,   (* the clear this step enqueued ahead of its launch            *)
  queue,     (* launches enqueued and not started, oldest first             *)
  run,       (* the step whose launch executes, or None                     *)
  cta,       (* per CTA: it is not in yet, has latched on or off, has left  *)
  rows,      (* per row, the steps whose cycles it holds                    *)
  folded     (* history: the rows have been read under this binding         *)

hookVars == <<pc, step, cur, armed, binding, pendEvent, pendBind,
              mirrorOff, zeroing, folded>>
gpuVars == <<run, cta>>
vars == <<channel, hookVars, ctrlOff, queue, gpuVars, rows>>

None == 0
Period == TimerEvery * PlanEvery
Rows == 0 .. (Grid - 1)
Zeroed == [r \in Rows |-> {}]

InFlight == {queue[i].step : i \in 1 .. Len(queue)} \cup ({run} \ {None})

(* ev.query(): the step's launch, and all before it, have completed. *)
Fired(s) == s \notin InFlight

(* The steps that a hook or a launch still refers to. *)
InUse == {cur, binding, pendEvent, pendBind} \cup InFlight

(* Cycles of any other step are cycles of None. *)
Forget(S) == {IF s \in InUse THEN s ELSE None : s \in S}

-----------------------------------------------------------------------------
(* The begin-hook. *)

(* Mutant of ProbeDue: a new probe starts while the last one is unread. *)
ProbeDueAnyway == step % TimerEvery = 0

ProbeDue == step % TimerEvery = 0 /\ pendEvent = None

Replans == step % PlanEvery = 0 \/ ProbeDue

(* The step is counted. *)
BeginStep ==
  /\ pc = "begin"
  /\ Names \ InUse # {}
  /\ step' = (step + 1) % Period
  /\ cur' = CHOOSE s \in Names \ InUse : TRUE
  /\ rows' = [r \in Rows |-> Forget(rows[r])]
  /\ UNCHANGED <<channel, binding, ctrlOff, zeroing, queue, gpuVars>>

(* Off the cadence nothing is read or written; the end-hook is told so. *)
OffCadence ==
  /\ BeginStep /\ ~Replans
  /\ armed' = FALSE
  /\ pc' = "launch"
  /\ UNCHANGED <<pendEvent, pendBind, mirrorOff, folded>>

(* _consume_probe: read and fold the rows once the probe has completed. *)
Consume ==
  IF pendEvent # None /\ Fired(pendEvent)
  THEN /\ pendEvent' = None /\ pendBind' = None
       /\ folded' = (folded \/ pendBind = binding)
  ELSE UNCHANGED <<pendEvent, pendBind, folded>>

(* Mutant of NoSlots: the last probe is consumed before the early return. *)
NoSlotsConsumes ==
  /\ BeginStep /\ Replans
  /\ Consume
  /\ pc' = "launch"
  /\ UNCHANGED <<armed, mirrorOff>>

(* The batch has no slot indices, or more tiles than the plane holds.       *)
(* (The latter raises, but leaves exactly what the former leaves.)          *)
NoSlots ==
  /\ BeginStep /\ Replans
  /\ pc' = "launch"
  /\ UNCHANGED <<armed, pendEvent, pendBind, mirrorOff, folded>>

(* Mutant of Plan: a probe arms the timer, nothing disarms it. *)
PlanStaysArmed ==
  /\ BeginStep /\ Replans
  /\ Consume
  /\ armed' = (armed \/ ProbeDue)
  /\ mirrorOff' = ~ProbeDue
  /\ pc' = "push"

(* The last probe is consumed, and this step armed as a probe or not. *)
Plan ==
  /\ BeginStep /\ Replans
  /\ Consume
  /\ armed' = ProbeDue
  /\ mirrorOff' = ~ProbeDue
  /\ pc' = "push"

(* The hook raises between consuming the last probe and arming this one. *)
RaiseBeforeArming ==
  /\ MayRaise
  /\ BeginStep /\ Replans
  /\ Consume
  /\ pc' = "launch"
  /\ UNCHANGED <<armed, mirrorOff>>

(* The hook raises between arming and its push. *)
RaiseBeforePush ==
  /\ MayRaise /\ pc = "push"
  /\ pc' = "launch"
  /\ UNCHANGED <<channel, step, cur, armed, binding, pendEvent,
                 pendBind, mirrorOff, ctrlOff, zeroing, queue, gpuVars, rows,
                 folded>>

(* push(). *)
Push ==
  /\ pc = "push"
  /\ ctrlOff' = mirrorOff
  /\ pc' = "bind"
  /\ UNCHANGED <<channel, step, cur, armed, binding, pendEvent,
                 pendBind, mirrorOff, zeroing, queue, gpuVars, rows, folded>>

(* Mutant of ClearTimer: the rows are left as they are. *)
ClearTimerNot == UNCHANGED <<zeroing, rows>>

(* clear_timer(). *)
ClearTimer ==
  IF channel = "device" THEN zeroing' = TRUE /\ UNCHANGED rows
                        ELSE rows' = Zeroed /\ UNCHANGED zeroing

(* The rows are cleared for a probe (armed, here, is the hook's probe), and *)
(* the step's binding is noted.                                             *)
Bind ==
  /\ pc = "bind"
  /\ IF armed THEN ClearTimer ELSE UNCHANGED <<zeroing, rows>>
  /\ binding' = cur
  /\ folded' = FALSE
  /\ pc' = "launch"
  /\ UNCHANGED <<channel, step, cur, armed, pendEvent, pendBind, mirrorOff,
                 ctrlOff, queue, gpuVars>>

-----------------------------------------------------------------------------
(* run_batch and the end-hook. *)

LaunchBatch ==
  /\ pc = "launch"
  /\ Cardinality(InFlight) < Depth
  /\ queue' = Append(queue, [step |-> cur, zero |-> zeroing])
  /\ zeroing' = FALSE
  /\ pc' = "end"
  /\ UNCHANGED <<channel, step, cur, armed, binding, pendEvent,
                 pendBind, mirrorOff, ctrlOff, gpuVars, rows, folded>>

(* Mutant of TimerOff: the gate stays as the probe set it. *)
TimerOffNot == UNCHANGED <<mirrorOff, ctrlOff>>

(* set_timer_enabled(False) and push(). *)
TimerOff == mirrorOff' = TRUE /\ ctrlOff' = TRUE

(* After a probe: its event is pending, and the timer is turned off. *)
EndBatch ==
  /\ pc = "end"
  /\ IF armed
     THEN pendEvent' = cur /\ pendBind' = binding /\ TimerOff
     ELSE UNCHANGED <<pendEvent, pendBind, mirrorOff, ctrlOff>>
  /\ pc' = "begin"
  /\ cur' = None
  /\ UNCHANGED <<channel, step, armed, binding, zeroing, queue,
                 gpuVars, rows, folded>>

-----------------------------------------------------------------------------
(* The GPU. *)

(* The oldest launch starts, after the clear enqueued ahead of it. *)
Start ==
  /\ run = None /\ queue # <<>>
  /\ run' = Head(queue).step
  /\ rows' = IF Head(queue).zero THEN Zeroed ELSE rows
  /\ queue' = Tail(queue)
  /\ UNCHANGED <<channel, hookVars, ctrlOff, cta>>

(* readTimerOff: the gate's value at entry decides. *)
Enter(p) ==
  /\ run # None /\ cta[p] = "out"
  /\ cta' = [cta EXCEPT ![p] = IF ctrlOff THEN "off" ELSE "on"]
  /\ UNCHANGED <<channel, hookVars, ctrlOff, queue, run, rows>>

(* emitTimer: at each return, an atomic add if the gate was on at entry. *)
Return(p) ==
  /\ cta[p] \in {"on", "off"}
  /\ rows' = IF cta[p] = "on" THEN [rows EXCEPT ![p] = @ \cup {run}] ELSE rows
  /\ cta' = [cta EXCEPT ![p] = "done"]
  /\ UNCHANGED <<channel, hookVars, ctrlOff, queue, run>>

(* Every CTA has left: the launch completes. *)
Finish ==
  /\ run # None
  /\ \A p \in Rows : cta[p] = "done"
  /\ run' = None
  /\ cta' = [p \in Rows |-> "out"]
  /\ UNCHANGED <<channel, hookVars, ctrlOff, queue, rows>>

-----------------------------------------------------------------------------
(* The zeroed ctrl block of a new plane has the timer on. *)
Init ==
  /\ channel \in Channels
  /\ pc = "begin" /\ step = 0 /\ cur = None
  /\ armed = FALSE
  /\ binding = None /\ pendEvent = None /\ pendBind = None
  /\ mirrorOff = FALSE /\ ctrlOff = FALSE
  /\ zeroing = FALSE
  /\ queue = <<>>
  /\ run = None /\ cta = [p \in Rows |-> "out"]
  /\ rows = Zeroed
  /\ folded = FALSE

Host ==
  \/ OffCadence \/ NoSlots \/ Plan \/ RaiseBeforeArming \/ RaiseBeforePush
  \/ Push \/ Bind \/ LaunchBatch \/ EndBatch

Gpu == Start \/ (\E p \in Rows : Enter(p) \/ Return(p)) \/ Finish

Next == Host \/ Gpu

Spec == Init /\ [][Next]_vars

(* The scheduler thread and the GPU keep going, and batches with slot       *)
(* indices whose hooks do not raise keep coming.                            *)
Fairness == WF_vars(Host) /\ WF_vars(Gpu) /\ SF_vars(Plan)

FairSpec == Spec /\ Fairness

-----------------------------------------------------------------------------
(* Properties. *)

StepOrNone == Names \cup {None}

(* Every variable ranges over the values its code counterpart can hold. *)
TypeOK ==
  /\ channel \in Channels
  /\ pc \in {"begin", "push", "bind", "launch", "end"}
  /\ step \in 0 .. (Period - 1)
  /\ cur \in StepOrNone /\ (pc # "begin" => cur # None)
  /\ binding \in StepOrNone
  /\ pendEvent \in StepOrNone /\ pendBind \in StepOrNone
  /\ run \in StepOrNone
  /\ armed \in BOOLEAN /\ folded \in BOOLEAN /\ zeroing \in BOOLEAN
  /\ mirrorOff \in BOOLEAN /\ ctrlOff \in BOOLEAN
  /\ queue \in Seq([step : Names, zero : BOOLEAN])
  /\ cta \in [Rows -> {"out", "on", "off", "done"}]
  /\ rows \in [Rows -> SUBSET StepOrNone]

(* The pending probe is read in this step. *)
Read == pendEvent # None /\ pendEvent' = None

(* Rows are only folded when they hold cycles of no step but the one whose  *)
(* binding they are folded under (rows read without a binding are dropped). *)
(* The device channel promises this; on the arena channel the launch before *)
(* the probe may add cycles after the hook's clear.                         *)
OnlyItsStep ==
  [][Read /\ pendBind # None /\ channel = "device" =>
       \A r \in Rows : rows[r] \subseteq {pendBind}]_vars

(* No probe has its rows folded into the estimator twice. *)
FoldedOnce ==
  [][Read /\ pendBind # None => ~(folded /\ pendBind = binding)]_vars

(* From the moment the pending event has fired until the rows are read,     *)
(* neither a later launch nor a clear can touch them.                       *)
StableUntilRead ==
  pendEvent # None /\ Fired(pendEvent) =>
    /\ \A p \in Rows : cta[p] # "on"
    /\ ctrlOff
    /\ ~zeroing /\ \A i \in 1 .. Len(queue) : ~queue[i].zero

(* The clear for step s is still ahead of its launch in the stream; the     *)
(* rows, and the CTAs that will add to them, are of s alone.                *)
ClearQueued(s) ==
  \E i \in 1 .. Len(queue) : queue[i].step = s /\ queue[i].zero
Own(s) ==
  /\ \A r \in Rows : rows[r] \subseteq {s}
  /\ \A p \in Rows : cta[p] = "on" => run = s

(* Why the rows are stable: an unread probe keeps the gate shut, the only   *)
(* CTAs that time and the only clears that are queued belong to launches up *)
(* to the event, and a step's launch is the stream's last until it ends.    *)
QuietInv ==
  /\ pendEvent # None => ctrlOff /\ mirrorOff
  /\ armed /\ pc \in {"push", "bind"} => pendEvent = None
  /\ zeroing => pc = "launch" /\ pendEvent = None
  /\ \A p \in Rows : cta[p] = "on" =>
       run # None /\ (pendEvent # None => ~Fired(pendEvent))
  /\ pendEvent # None => \A i \in 1 .. Len(queue) : queue[i].zero =>
       \E j \in i .. Len(queue) : queue[j].step = pendEvent
  /\ pc = "end" => IF queue = <<>> THEN run \in {None, cur}
                                  ELSE queue[Len(queue)].step = cur
  /\ run = None => \A p \in Rows : cta[p] = "out"

(* Why a binding is used once, if no hook raises: while the timer is armed  *)
(* the binding is the probe's own, and has not been folded under.           *)
ArmedInv ==
  /\ armed /\ pendEvent # None => pendBind = binding
  /\ armed /\ pendEvent = None =>
       pc # "begin" /\ (pc \in {"launch", "end"} => binding = cur /\ ~folded)
  /\ folded => pendEvent = None \/ pendBind # binding

(* Why the rows are of one step, if no hook raises: the clear of an armed   *)
(* step is enqueued ahead of its launch, and from then on they are its own. *)
OwnInv ==
  channel = "device" =>
    /\ pendEvent # None => ClearQueued(pendBind) \/ Own(pendBind)
    /\ armed /\ pendEvent = None =>
         /\ pc = "launch" => zeroing
         /\ pc = "end" => IF queue = <<>> THEN Own(cur)
                                         ELSE queue[Len(queue)].zero

(* Every probe is read in the end. *)
ProbeIsRead == pendEvent # None ~> pendEvent = None
=============================================================================
