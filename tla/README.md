# sched-pass: a verification development

sched-pass weaves scheduling levers into compiled CUDA kernels and steers them
at run time by writing data. This directory holds TLA+ models of the parts that
decide *which work is done by whom and on what evidence*, and of the experiments
that ground them in what the hardware does, the TLC runs that check
them on small instances, and the theorems that TLAPS proves about them for every
instance. Paths below are relative to the repository; abbreviations:

| | |
|---|---|
| plugin | `python/sched_sglang_plugin.py` |
| rt | `python/sched_rt.py` |
| weave | `lib/SchedWeave.cpp` |
| driver | `lib/SchedWorkQueue.cpp` |
| C runtime | `runtime/sched_rt.h` |
| controller | `python/sched_controller.py` |
| shim | `python/nvcc_clang_shim.py` |
| moe | `python/sched_moe_hook.py` |
| clc | `experiments/clc/` |

## 1. Inventory

**Serving control loop** (plugin). State: `_STATE` (step counter, `clc_r`,
`order_n`, `inflight`, `timer_armed`, `pending`, `binding`, the estimator) and
the one `SchedPlane`. Operations: `on_batch_begin`, `on_batch_end`,
`_consume_probe`, `_resolve_r`, and the exception barrier `register` puts around
the hooks. It runs on the scheduler thread, before and after a `run_batch` that
only *enqueues* kernels, so everything it writes races with launches that are
still queued or executing. Correct if: no launch serves a tile twice or outside
its grid; a live order is retired when it must be; cycles are credited to the
step they were spent in.

**Control-plane data** (rt, `SchedPlane`/`SchedArena`). State: a private mirror of
the ctrl block, the published block, the order table (host-mapped, or a device
buffer written by stream-ordered copies), the timer rows (likewise). Operations:
`set_order`, `set_order_size`, `reset_order`, `set_num_tasks`,
`set_timer_enabled`, `clear_timer`, `read_timer`, `push`. Correct if: the
published stamp describes the table that is read.

**pi remap and timer weave** (weave, `emitRemap`, `readTimerOff`, `emitTimer`).
Each CTA loads its table entry and then the stamp, at its own time, clamps to the
launch, falls back to its own id, and adds its cycles to a row when it returns if
the gate was on at its entry. Correct if: reordering is a bijection of the launch.

**Persistent-worker driver** (driver). CTAs serve their own id and then claim raw
ids, by tickets or by cancelling blocks not yet launched (CLC); each raw id is
remapped. State: the ticket counter, `num_tasks`, per block a snapshot and a raw
id. Correct if: each task is served once, every worker stops, no id has two owners.

**C runtime** (`sched_rt_*`). Arms and disarms slots, writes the tables, primes the
counter for fixtures and host applications.

**Estimator and policy** (controller; `region_order`, `_grouped_lpt` in rt). State:
the fit, the residuals, `_last_order`. Correct if: what it writes is an order of
the batch, of the promised shape, and damping keeps only orders that are nearly
as good as the one it withholds.

**Bake environment and JIT cache** (rt `compute_bake_env`, `arm_process_env`;
plugin `pre_arm_env`, `_plane`, the init hook; shim; `sitecustomize.py`;
`patch_flashinfer.py`). State: the bake variables in each process's environment,
the address and channels of its plane, the directory its FlashInfer was imported
with, and the directories on disk, which outlive processes. Correct if: whoever
compiled a kernel, it is loaded only by processes whose plane it was woven for.

**MoE expert cap** (moe). State: the class method `FusedMoE.forward` (a chain of
wrappers), `_ORIG`, `_STATS`, and the plugin's `moe_armed`. Operations:
`register_moe_cap`, the wrapper, `moe_expert_cap`. Correct if: an expert keeps the
earliest arrivals up to its capacity, and what the observer reports is what was
dropped, however often the method was wrapped.

**CLC characterisation sweeps** (clc: the probes `clc_*_probe.cu`, the sweeps
`run_*.py`, the analyses `analyze_*.py`, `run_all_sweeps.sh`). They are the
evidence for what the driver assumes of Cluster Launch Control. State: of a
launch, the clusters that are pending, resident or cancelled, and the counters of
each worker; of a sweep, the rows so far; of the script, the reports on disk and
the exit status. Operations: the claim loop, the probe's check of its own row, the
sweep's validator, the summary per configuration, the exit. Correct if: a raw id
is served once whatever the hardware does, and "valid", and in the end status
0, say what the launches did.

**Everything else**: the cache-policy, shed, prefetch and PDL weaves rewrite
instructions of one function at compile time; the exploratory CLC probes (graph,
memory-bound, noise, pipeline) time the same claim loop and validate nothing;
pass registration, manifest, sample kernel and load generator keep no
scheduling state. `PROJECT.json` lists each with its status.

How they interact: the plugin calls the controller and rt; rt and the C runtime
share memory with the woven kernels, without locks; the plugin learns about
kernels through CUDA events only. The MoE cap is armed by the plugin's first batch
and otherwise apart. The sweeps share no code with the rest: they test, on the
device, the behaviour that `ClaimCLC` of the driver's model rests on.

What is hard here: two words read at different times by many CTAs while the host
rewrites them; a stream-ordered channel next to an immediate one; hooks that raise
half-way; launches that overtake host writes and the reverse; cadences that must
not starve one another; claims that race with the hardware's own block launches;
stored orders used under later predictions; kernels on disk used by later processes;
a method wrapped more than once; verdicts drawn from a few counters, or from two
runs of a probe taken for one; a failure that stops one script of a chain and not
another. The hazards in `PROJECT.json` give the
line where each bites and the properties that watch it.

## 2. Modules

```
ServeOnce            what a launch promises (THEORY.md, class E1)
Remap                table, stamp and guards shared by both remaps
 +- OverlapLoop      the serving loop and the woven kernels    => ServeOnce
 +- WorkQueue        the persistent-worker driver and its host => ServeOnce
TimerProbe           the probe half of the serving loop
OrderPolicy          where orders come from
BakeCache            the processes, their planes and the kernels they share
ClcGrid              one launch of a CLC probe, and the row it prints
 +- ClcSweep         the sweeps, their verdicts, reports and exit status
MoeCap               the expert cap and the chain of its wrappers
MCMoeCap             the settings MoeCap is run with
Lemmas               facts about Remap, sums, division and small sets
*_proofs             the theorems of each; those of Remap are in Lemmas, those of
                     ClcGrid in ClcSweep_proofs; ServeOnce is what they implement
```

`OverlapLoop` and `TimerProbe` split one pair of hooks by the state they touch:
the first keeps the order and its stamp, the second the timer gate, the rows and
the probe bookkeeping. The steps of the two halves are the same calls, in the
order of the code; no branch of one half reads state of the other.
`OrderPolicy` supplies what `Remap!Orders` assumes of `region_order`: an
arrangement of exactly the tiles of the batch.

### ServeOnce and Remap

`ServeOnce` has the grid of the current launch and its tiles still to do; a step
launches, serves one outstanding tile, or completes with none left. `Remap` has
`Overwrite` (`set_order`: the first n entries, stale tail kept), `SizeOK` and
`Guarded` (the stamp and the clamp of `emitRemap`/`emitOrderRemap`), `Target` (what
a CTA decides if both words are read at once) and `Coherent` (table against stamp).

### OverlapLoop

| action | code |
|---|---|
| `Skip` | cadence gate, no slots, refused batch (plugin 153-172) |
| `PlanArmed`, `PlanOneWave`, `PlanQueued` | the three branches of `on_batch_begin` (215-283), each with `_resolve_r` and its table writes |
| `RaiseBeforePush` | a hook that raises after its install (the barrier, 645-669) |
| `Push` | `p.push()` and the rest of the hook |
| `LaunchBatch`, `EndBatch` | `run_batch`; `on_batch_end`, which may push too |
| `Start`, `Finish` | the stream: the copy enqueued before a launch, then the launch |
| `LoadEntry(p)`, `ServeTask(p)` | the two loads and the decision of `emitRemap`, per CTA |

Abstractions. The writes of one install (`set_order`, `set_order_size`,
`order_n`) are one step; `push` is another. Costs, imbalance and uncertainty are
arbitrary, so an order is any arrangement and arming is decided either way. The
grid launched need not be the planned tile count (the plan reader is fail-soft).
The observe-only mode installs nothing and is contained. Copies, clears and
kernels share one stream, as the plugin's own comment at 328-330 takes for granted; a
separate forward stream is not modelled. The comment at plugin 263 speaks of a second
condition, "the tile count is unchanged", which the code does not test; the model
follows the code.

### WorkQueue

| action | code |
|---|---|
| `PrepareRuntime`, `PreparePlane`, `PushCtrl`, `Primed` | the host: C runtime 205-265 as `test/hetero_batch.cu` uses it, or rt 366-443 |
| `Launch` | the launch site, with the contract it has to keep |
| `Enter` | the hardware starts a block nobody has cancelled |
| `ReadTasks`, `LoadEntry`, `Serve`, `Continue` | `buildDriver`: entry, remap, body, loop |
| `ClaimTicket`, `ClaimCLC`, `Fallback` | the claims; CLC may be declined and then snapshots decide |

A CTA is one actor: the loads of its threads in one step return the same values.
The remap loads `num_tasks` and the stamp in one step. `hits` counts bodies per
task and stops at 2. `channel` is where the host puts its orders, fixed before the
kernel is woven: under `"device"` (`use_device_order`, rt 333-347 and 373-376) they
go to a tensor that `emitOrderRemap` (driver 318-320) never follows, and the table
that the driver reads is the arena's, with the tensor's address in its first two
entries (`FirstTables`).

### TimerProbe

| action | code |
|---|---|
| `OffCadence`, `NoSlots` | early returns of `on_batch_begin` (plugin 162-172); the first clears `timer_armed`, the second does not |
| `Plan` | `_consume_probe`, `set_timer_enabled(probe)`, `timer_armed` (174-213) |
| `RaiseBeforeArming`, `RaiseBeforePush` | the two places where a raise leaves different state behind |
| `Push`, `Bind` | `push`; then `clear_timer` and `binding` (301-304) |
| `EndBatch` | `on_batch_end`: the pending event, OFF and its push (331-341) |
| `Start`, `Enter`, `Return`, `Finish` | clear in stream order; `readTimerOff`; `emitTimer` |

A step is one launch (its layers add into the same rows). Cycles are abstracted to
the name of the step they were spent in; a row is the set of steps it holds. Step
names are recycled when nothing refers to them, and the step counter is kept modulo
the period of the two cadences, so the state space is finite while behaviours are not cut off.
A refused batch (`_plane` raising) leaves what `NoSlots` leaves. Reading the rows is one step
with the test of the event: nothing can touch them between, which is what
`StableUntilRead` shows.

### OrderPolicy

`Predict` brings a batch with arbitrary predicted costs; `OrderStep` is
`order()` and `step()` under `lpt`, `srpt` or `edf`; `RegionStep` is
`region_order`, which the plugin calls with the same predictions. Python's `sorted` is
stable and `SortedBy` is: the one arrangement that is `Before`-ascending, ties by
position. `torch.argsort` is not stable, and `Heaviest` is a set. `_grouped_lpt` is written as
the code computes it: rows of the padded table (`BlockRows`), their masked cost
(`BlockCosts`), the rows in descending cost laid end to end, the padding dropped (`Unpadded`).
Costs are integers and the dead-band is 1/50.

### BakeCache

| action | code |
|---|---|
| `Start`, `Exit` | a process with a clean environment, one with stray bake variables, or that of a live process of its configuration; its end, at any point |
| `ArmFixture` | `SchedPlane`, the channel switches, `arm_process_env` (`test/py/test_fixed_va.py` 52-60) |
| `Register` | `register` and its `pre_arm_env`, from the predicted address |
| `InitPlane`, `InitFails` | `before_init` (plugin 627-640): the plane and its arming, or the removal of `BAKE_KEYS` |
| `RetryPlane` | `_plane` at a later batch, after a failed init hook |
| `Import` | FlashInfer fixes its directory |
| `LoadCached`, `CompileKernel` | the first use of a kernel: from disk, or compiled by the shim |

A kernel is abstracted to what was woven into it: base address, the two channel
flags, and `mode`, one value for the rest of the key (work queue, disabled
levers, capacity, tag of the pass), which a process never changes. It is one that
`SCHED_WEAVE_ONLY` names; two processes never compile the same file half-way
each (FlashInfer's build lock). `NewPlane` gives the arena any address: the
predicted one or, if that is taken, another. `SCHED_NO_INIT_HOOK`, a debugging
switch, is off, and registration does not fail.

### ClcGrid and ClcSweep

`ClcGrid` is one launch, `ClcSweep` the scripts around it.

| action | code |
|---|---|
| `Launch`, `Admit` | the grid; the hardware gives free slots to clusters nobody cancelled |
| `Serve`, `Claim`, `Fail` | the loop of every probe kernel (`clc_probe.cu`, `clc_cluster_probe.cu`, `clc_participation_probe.cu`) |
| `StartProbe`, `ProbeFails` | `subprocess.run(check=True)` of a probe, and its raise |
| `Predict`, `Capture`, `Validate` | what a sweep does with a launch: `predict_r`, the event file, the row and its validator |
| `Report` | the end of a suite: `summarize`, the files written, the exit status, the next script |

`Row` is what a probe prints, from what the host reads back; the `Structural*`
operators are the probes' own checks (their exit status), the `Valid*` operators
the validators of the sweeps. They overlap but differ: the cluster probe
prints no duplicate claims, the participation probe accepts holes, and the runtime
validator measures the spread over the SMs that got a worker only, so an idle SM
does not make a row unbalanced. The pressure validator decides by a timing as well: it
rejects a row if the grid and the pressure kernel ran side by side for more than 1 us
(`run_pressure_sweep.py` 207-208), whatever the grid launched. `overlap` is that
comparison's outcome. Three validators ask that no worker was found on
another SM (`smid_changes`, here `moved`): those of the pressure and of the runtime
suite, and, through the probe's own check, the one of the mapping suite.

Abstractions. A cluster acts as one, since its CTAs meet at a barrier before their
leader claims. The hardware (`Behaviours`) does what `FINDINGS.md` reports; or
declines a claim while clusters are pending; or admits the first wave only while
CTAs already claim; or finds a worker on another SM; or shares the device with the pressure
kernel. Late admission is left out for the mapping suite, a named bound. Beside
the pressure kernel (`Shared`) any number of SMs, up to one per pressure block, have a slot taken
when the grid is launched, and independently of that the two kernels overlap for longer
than the tolerance or not; a block of it that gets its first slot only after the first wave takes
none from the grid, another bound. A pressure block counts itself when it starts and
the host reads the count after both kernels, so `pressure_started` is the number of blocks. Grids are scaled to the number of SMs: what counts is on which side of R a
grid lies, and by how much. All other timings, seeds and payloads are data;
the warm-up launch of a probe, whose outcome nobody reads, is left out. A mapping of
one block per SM is always called contiguous and so rejected; none is configured, here or
in `run_mapping_sweep.py`. `LongRepeats` are the `WORKLOAD_REPEATS` and `DECODE_REPEATS`
of the script, `Repeats` those of the other suites. The graph replays and the ISA dump at the end of the
script are not modelled: by then the reports stand.

### MoeCap

| action | code |
|---|---|
| `ArmOnFirstBatch` | the before hook of the plugin: `moe_armed`, then `register_moe_cap`, which may come to nothing |
| `RegisterAgain` | another call of `register_moe_cap`, under any settings |
| `Forward`, `Wrapper`, `Return` | a call of `FusedMoE.forward`, one wrapper of the chain at a time, then the stock method |

`moe_expert_cap` is written as the code computes it: stable sort, counts, shifted
cumulated sum, rank scattered back. A weight is zero or not; a slot's weight may be zero
from the start. A forward is capped by each wrapper in turn, outermost first. The
stock forward is external.

## 3. Runs

| run | question | bounds | result |
|---|---|---|---|
| `overlap_full` | both channels, arming, retirement, raising hooks | table 3, grid 3, depth 2 | no CTA leaves its launch; launches that overlap no part of an install serve once; stamp and table agree between installs; a live order is remembered |
| `overlap_gated` | every write waits for the stream | table 3, grid 4, depth 2 | the loop implements `ServeOnce`; `GatedInv` is the proofs' invariant |
| `overlap_default` | the default configuration | grid 3 | **violated**: a tile is served twice |
| `wq_static` | plane rewritten between launches only | table 3, grid 4, both claims | each task once, driver implements `ServeOnce` |
| `wq_in_flight` | plane rewritten under a launch | table 2, grid 2, both order channels | ids have one owner; every launch completes |
| `wq_stock_order` | order with `num_tasks` = 0 | table 3, grid 3 | **violated**: the order is dead |
| `timer_probe` | probes, both channels, no raise | cadences 2 and 3, 2 CTAs, depth 2 | rows stable, folded once, on the device channel of one step |
| `timer_live` | raising hooks, fairness | 1 CTA, device channel | gate shut while unread; every probe is read |
| `order_policy` | all policies and region orders | up to 4 tiles, 3 costs, regions 0..4, blocks 0..3 | orders of the batch, of the promised shape; damping costs at most the dead-band under srpt, and under lpt keeps the first order of each size |
| `bake_cache` | lives of processes over one cache | 2 processes, 2 addresses, 1 mode, both order channels, import after arming | kernels match the plane that runs them; directories hold what their name says |
| `clc_sweep` | the whole of `run_all_sweeps.sh`, launch by launch | 2 SMs, 5 clusters, 0 to 2 pressure blocks, 2 long repeats, 1 other | raw ids served once under every behaviour; verdicts say what the launches did; status 0 means valid; the script ends |
| `moe_cap` | the cap, wrapped once or twice, observed or not, captured or not | 3 tokens, 2 of 3 experts, 4 settings, 2 forwards | the latest arrivals are dropped, each counted once |

Why the bounds suffice. The remap relates at most a table, a stamp and two CTAs,
so three entries allow a smaller, an equal and a larger order than the launch,
including stale tails; grid 4 over table 3 has a CTA past the table. Depth 2 is
what overlap scheduling has: one launch executes while the next is prepared; it allows a copy
behind a launch and a stamp ahead of it. Two workers over four ids
race for tickets, cancel each other's blocks and run dry. Cadences 2 and 3 are
coprime, so re-plans and probes meet and miss in every phase; six names are one more
than the references hooks and stream can hold. Costs 0, 50 and 51 give ties,
differences inside the dead-band and outside it, and a zero span; four tiles give
a region with a suffix after both an odd and an even prefix, and a padded last block.
Two processes are a compiler and a later user of a directory, in either order and
any number of times, as processes restart; two addresses are a hit and a miss.
Two SMs and five clusters allow grids below, at and above R with one, two and three
clusters to claim, a device of one, two and three clusters per SM, and every
interleaving of claims, refusals and late admissions; no, one and two pressure blocks leave the first
wave whole, uneven and evenly smaller; the state of a sweep does not depend on the
launches before it but for its rows, so one repeat and two cover what
grouping does with them. Three tokens of two distinct experts each give an expert that three slots choose
against capacities 1, 2 and one that never binds.
The type invariants of `OverlapLoop`, `WorkQueue` and `BakeCache` are theorems
(section 5) and not repeated in the runs.

Each property of a passing run has a mutant: an operator that changes one definition
the way a plausible slip in the code would (a counter not primed, a clear
forgotten, a stamp ignored, a gain subtracted the wrong way round), under which
the run's own configuration finds the property violated. They stand before
the definition they vary, marked "Mutant of".

### What the violated runs mean

- `overlap_default`: the armed and the one-wave branch rewrite the plane without
  looking at `inflight`. The stamp makes each *CTA's* decision safe, not the
  launch's: CTAs before and after the rewrite decide differently.
  The clamp still holds (`FaultFree`), so results repeat a tile but never fault.
- `wq_stock_order`: `emitOrderRemap` clamps to `num_tasks`, which is 0 on the
  stock path; the fixture tests bit-exactness, which identity satisfies too.

More limits of the code appear as conditions of properties rather than as runs.
A probe need not sample its whole step: the latch protects CTAs that have entered, but
the OFF push in `on_batch_end` follows an asynchronous launch, and nothing makes it
wait; what holds is that the rows contain no other step.
If FlashInfer is imported between `register` and the init hook (`EarlyImport`)
and the arena misses its address, the shim's check of the environment variable and
the directory FlashInfer writes to differ. With the default channels `pre_arm_env`
leaves out `-oi` as well, so then even a hit puts kernels of one layout under the
key of another. `sitecustomize.py` registers ahead of the import; a host that
imports FlashInfer together with its scheduler module would meet this.
`register_moe_cap` calls itself idempotent and its test asks for "no double-wrap"
(`test/py/test_moe_hook.py` 71-72), but the test of line 103 looks for the current
forward among the originals, where a wrapper never is: a second call wraps again.
What survives is the outcome (`CapKeepsEarliest`: the tightest capacity decides, and each
drop is counted once); `calls` and `routed` count every wrapper. The plugin's
`moe_armed` calls it once, sets the flag before it tries and never retries. An
observer that syncs while a CUDA graph is captured raises inside the wrapper's own
`try`, and the captured graph has no cap.
The driver's clamp reloads `num_tasks` (driver 326), so it follows the host's rewrite
and not the launch: with `Rearm`, `FaultFree` of `WorkQueue` fails, and the
module claims it for hosts that wait. The clamp tests the table entry, not the id it was
loaded for: if a host of the plane API (rt) states fewer tasks than a stock launch has blocks, a
block past the last task loads an entry of the stale tail, which may be a task, and serves it a
second time (`Api = "plane"`, `~Rearm`, `NoTaskTwice`). Hence `Api = "runtime"` in the theorems
about such hosts. A plane that orders through the device channel does not reach the driver at
all: the order it installs is dead, and entries 0 and 1 of the table the driver reads are the two halves
of an address, harmless as long as both are at or past `num_tasks`. `QueueInv` and
`LaunchesComplete` hold for that channel too (`wq_in_flight`); the theorems about hosts that
wait are about the C runtime, which has no such channel. Under `lpt` the gain of `order()`
(controller 142) is never positive, since a longest-first order maximises the sum
of completion times that is compared. The docstring of `_span` (controller 149-159) says that
the controller, once "silently frozen", now fires on a real change of ranking; under `lpt`,
the default of the class, it is as frozen as before for batches of one size, and `LptNeverReorders`
is the property that says so. `SrptNearBest` is claimed for `srpt` only; under `edf` an order is
compared by a sum that has nothing to do with deadlines, and nothing is claimed of what
damping costs. The serving loop does not call
`order()`; users of the class do.
A hook that raises between `timer_armed` (plugin 213) and the binding (304) makes
`on_batch_end` pair the event with an older binding: with `MayRaise` and one CTA
`OnlyItsStep` fails, so it, `ArmedInv` and `OwnInv` are claimed for hooks that do
not raise. On the arena channel the hook clears the rows at once and an earlier launch
whose CTAs entered after the gate opened still adds to them, so `OnlyItsStep` is claimed for the
device channel.

## 4. Fairness

Liveness is checked where the scheduling justifies it. `WorkQueue`: weak fairness
of each block (resident blocks execute; a pending one is launched when a
resident one ends, or is cancelled) and of `Finish`; nothing of the host, which
may rewrite the plane for ever. `TimerProbe`: weak fairness of the scheduler
thread as a whole and of the GPU as a whole, and strong fairness of
`Plan`: among the steps that re-plan, infinitely many have slot indices and a
hook that does not raise. Without the last, a loop whose every batch is refused
never reads its probe, and rightly so. `ClcSweep`: weak fairness of `Next`:
resident blocks make progress, a probe that is done is collected, and the
scripts have no other thing to wait for. The other modules state no liveness: `OverlapLoop` shares
the loop and the stream of `TimerProbe`, `OrderPolicy` is a sequence of calls, and
nothing obliges a process of `BakeCache` to use its kernel or a model of `MoeCap` to be called.

## 5. Proofs

All theorems hold for every value of the constants that satisfies the module's
named assumption (`LoopAssumption`, `QueueAssumption`, `ProbeAssumption`,
`OrderAssumption`, `CacheAssumption`, `MoeAssumption`: positive sizes, known modes; for
`ClcSweep` `BoundsAssumption`, `FitsAssumption` and `RepeatsAssumption`: a device and
grids that the configurations fit), unless an extra assumption is stated. Every safety
and action property of a passing run is stated by a theorem, and so are the two
refinements of `ServeOnce`.

- `Lemmas`. *Remap*: an install over any table, stale tail included, is coherent
  with its stamp; the guarded task is a tile of the launch; over a coherent table the
  remap of a launch of any size is injective, hence covers it. *Sums*: `SumFunction` is
  recursive in the library; its definition gives some function that adds up subset by
  subset, and the lemmas say that there is one, that any two agree, and so
  that a sum splits, moves with its terms and is bounded by them. Each of these is an
  induction, done by a smallest counterexample (`LeastNat`, `SmallestSet`), which needs
  well-foundedness and no induction theorem. *Division*: quotient and remainder
  are the only two with that property.

**Serving loop** (`OverlapLoop_proofs`)

- `TypeCorrect`; `NeverFaults` from `CtasInv` (only CTAs of the executing launch hold
  anything, and their tasks are tiles of it), in *every* configuration.
- `LoopCorrect`, also in every configuration, and from it `SettledPlaneCoherent`,
  `RetirementNeverMissed` and `QuietServesOnce`. `PlaneCoherent` speaks of moments when
  nothing is under way, so it says nothing of how one gets there. `LoopInv` has what the
  words say meanwhile: `order_n` is the stamp of the mirror, the published stamp differs
  from it only before a push, the *last* write still on the stream (staged or behind a
  launch) is the one the mirror describes and, if there is none, the table is; and what a CTA
  of a quiet launch has read it would read again. TLC checks `LoopInv` on
  `overlap_full`'s 2.6 million states.
- For the gated configurations (`Gated`: no capacity known, no raise):
  `GatedCorrect`, `GatedNoTileTwice`, `GatedFrozen` and the refinement
  `GatedServesExactlyOnce`. `NoTileTwice` is not inductive: one has to know that
  an install is in progress only while nothing is in flight, that a copy can stand only before
  the first launch after an idle stream, that the table *as the next launch will
  see it* agrees with the mirror, and that what a CTA has read is what it would
  read now. That is `GatedInv`, itself an invariant of `overlap_gated`.

**Persistent-worker driver** (`WorkQueue_proofs`)

- `QueueTypeCorrect`, `QueueInvariant` and `RawIdsOwnedOnce`, from `QueueInv`
  (no block is left over between launches, the counter is past every block of a ticket
  launch), for any grid, either claim, and hosts that rewrite the plane under the launch.
- For a host that waits for its launches and arms through the C runtime
  (`Waits == ~Rearm /\ Api = "runtime"`, the setting of `wq_static`): `WaitingServesOnce`,
  `WaitingFaultFree`, and the refinement `WaitingServesAll`. `NoTaskTwice` counts bodies, and
  says nothing of ids still under way, so the invariant is `StaticInv`
  (`RawIdsAccounted`): the plane says what its table is for (`Described`), the words a
  launch reads are the ones it was made for (`LaunchKept`), a block holds the entry and the
  bound of that launch (`BlocksKept`), and a task has had as many bodies as the one raw id that is
  mapped to it has been served (`Counted`). That the remap is a bijection of the launch
  (`Permuted`) then carries "each raw id once" over to "each task once". TLC checks `StaticInv`
  on the 371,613 states of `wq_static`. The hypothesis on the host is needed:
  section 3 gives what happens without either half.

**Timer probe** (`TimerProbe_proofs`)

- `ProbeTypeCorrect`, `ProbeQuiet` and `RowsStable` with or
  without raising hooks: `QuietInv` says the gate is shut while a probe is unread, and that
  every timing CTA and every queued clear is at or before the probe in the stream.
  Without raises, `ArmedCorrect` (an armed end-hook finds the probe's own
  binding, not yet folded) gives `ProbeFoldedOnce`, and `OwnCorrect` (the clear is
  ahead of the launch, and afterwards the rows are its own) gives
  `ProbeOnlyItsStep`.

**Ordering policy** (`OrderPolicy_proofs`), for batches of any size, any costs, regions,
blocks and dead-band

- `EveryOrderIsOne`: every order written, kept or fresh, is one of exactly its batch.
  Sorting is a `CHOOSE`; that there is something to choose is shown by putting each
  tile at its rank, the number of tiles that do not come after it.
- `KeptIsNearBest` and `LptFrozen`. The first compares with *all* orders of a batch: among
  those with a lesser sum of completion times take one with the fewest tiles out of place;
  exchanging two tiles makes the sum no greater and puts one more in place. The second is the same
  fact for the opposite costs: the longest-first order has the greatest sum, so it never gains. The
  invariant `ControlInv` keeps that the stored order is an arrangement of *some* batch: damping
  compares it with a fresh one only after its length, and an order of another size is replaced.
- `ExtremesFirst`: the proof gives the place of the ranking each entry is taken from
  (`Source`), and shows that no two places share one. `NeighboursTogether`: a position
  of the flattened table is a row and a place in it, and dropping the padding keeps neighbours.

**Bake environment and cache** (`BakeCache_proofs`)

- `CacheTypeCorrect`; and, if FlashInfer is imported after
  arming (`~EarlyImport`), `KernelsAlwaysMatch` and `CacheNeverLies` for any
  number of processes, addresses and modes. `KernelsMatchPlane` is not inductive: a
  process loads what others left on disk. The invariant adds `DirsHoldTheirKey`
  (a directory holds its own layout only) and `AgreeInv` (a ready process's
  plane, environment and directory are of one layout; an unready one has no flags but
  its own channels'); `LayoutsAgree` and `ArmedGetsWoven` state two of its parts.

**MoE cap** (`MoeCap_proofs`), for any batch, routing, chain of wrappers and settings

- `OverflowIsLate`: what the tensors compute (a stable sort, shifted cumulated counts, a
  scatter) is that a slot is dropped if `cap` or more earlier slots chose its expert. The
  place of a slot in the sort, less the start of its group, counts the earlier slots of
  its expert; both are cardinalities of sets of slots.
- `MoeCorrect` (`MoeInv`) and from it `EarliestKept` and `ReportExact`. `DropsCountedOnce`
  is about the report between forwards; during one the counter is ahead of it by the slots that
  have lost their weight so far, and a weight once lost is zero, so no later wrapper counts it.

**CLC sweeps** (`ClcSweep_proofs`), for any number of SMs, any grid bound and any number of repeats

- `LaunchBookkeeping` (`GridInv`) and `ClaimsServeOnce` (`ExactlyOnce`). That no id is served
  twice is not inductive: the proof needs that a cluster is cancelled exactly if some
  claim names it, that what a worker holds has not been served and nobody else
  holds it, and that the counters tell how far each worker is, which is `GridInv`. `SweepInv`
  adds what the scripts keep: the plan holds launches that fit, a probe runs only for
  a planned launch, and a running script has a suite.
- `VerdictsSound`: a verdict is drawn from sums, a minimum, a maximum and sizes;
  the theorem says they suffice, and what they say: the clusters launched, for the
  runtime and pressure suites also that no worker moved, and for the pressure suite that the kernels
  overlapped for 1 us at most. A launch of exactly `[0, R)` beside a pressure kernel is therefore
  *invalid* if the two ran side by side for longer; it is not the launch that FINDINGS.md
  describes, whose overlap is 0. It needs what the sums add up to (`CountInv`) and
  that the probe runs what the plan says (`PlanInv`: each suite launches only
  configurations of its own shape, and a capture stands before its row). `DocumentedSound` adds
  `WaveInv`: on an idle device the first wave is `[0, R)` and keeps all slots while
  anything is pending. TLC checks the three on the 471,772 states of `clc_sweep`.
- `StitchedSound` and `MappingSound`, from `KeptInv` (the captured events fit the
  configuration of the row that is run next). `MappingSound` shows that the five tests
  of `analyze_mapping` (chunks, residues, intervals) say together no more and no less
  than that each wave uses every SM once, in the order of the first.
- `ReportsSound`, from `ReportInv`: what is left of a plan is a suffix of it, and the rows
  so far of a configuration are as many as the part that is done plans. `ZeroMeansValid`: if
  the script ends with 0, no report has an invalid row; the
  argument (`ZeroInv`) is that only the report of the pressure suite ends the script so,
  and that suite, unlike the tuple suite, exits 1 if any report has one.

Only model-checked: liveness under fairness (`LaunchesComplete`, `ProbeIsRead`,
`RunAllEnds`), which is out of the prover's reach. The two violated properties are
refuted by their runs; for `overlap_default` the proved part is what remains true of it
(`NeverFaults`, `QuietServesOnce`). The properties claimed under a condition (no raise, import
after arming, a host that waits) are proved under that condition only.

## 6. Plan

Done, in this order: `Remap`/`ServeOnce`, `OverlapLoop`, `WorkQueue`, `TimerProbe`,
`OrderPolicy`, `BakeCache`, each with its proofs; `ClcGrid` and `ClcSweep` with
theirs; `MoeCap`. Next, by importance:

1. `RtArm`: arming, disarming and failed initialisation of `sched_rt_init`
   (C runtime 121-203): a call after a failed one jumps to the arm step with
   tables that were never allocated; an order slot armed without ctrl is read by the
   stock path. Invariant: an armed slot points to an allocated table; abstract
   specification: armed or unarmed, nothing between.
2. `ClaimBroadcast`: the threads of one block around the barrier of a claim
   (driver 295-343, 410-449), refining the one-actor block of `WorkQueue`.
3. Proofs: the driver under a host that writes through the plane and launches
   no more blocks than it has tasks; the timer theorems under raises of one kind only,
   as far as they hold.
4. One configuration for both timer runs (a history variable for raised hooks), and
   runs for the two limits of section 3 that have none.

## 7. Not modelled

Instruction-level weaving (straight-line rewriting at compile time, covered by the
IR tests), floating-point estimation, memory ordering below the granularity of a
published word (the generation word that orders `push` for a reader has no
reader in the woven code), fatbin and occupancy parsing (its outcome is `OccupancyRead`: a capacity or 0),
the plan readers (their outcome is `PlannedTiles`), the compilation itself, the
timings of the CLC probes (but for the one that decides a verdict) and the figures the sweeps derive from them, the probes
that only time, the graph replays and the ISA dump behind the sweeps, and
the external review items that concern alignment or tensor views.
