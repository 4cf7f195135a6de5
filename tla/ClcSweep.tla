------------------------------ MODULE ClcSweep -----------------------------
(***************************************************************************)
(* The characterisation sweeps (experiments/clc/run_*.py), in the order in *)
(* which run_all_sweeps.sh runs them: each suite runs a probe for each     *)
(* configuration and repeat, validates the row that the probe prints, and  *)
(* writes its report at the end.  A probe that exits nonzero raises        *)
(* CalledProcessError in the sweep; `set -e` stops the script at the first *)
(* sweep that does not exit 0.                                             *)
(***************************************************************************)
EXTENDS ClcGrid

CONSTANTS
  LongRepeats,  \* WORKLOAD_REPEATS and DECODE_REPEATS
  Repeats       \* the --repeats of the other suites

ASSUME RepeatsAssumption == LongRepeats \in Nat \ {0} /\ Repeats \in Nat \ {0}

(* The device and the grids are large enough for the configurations below. *)
ASSUME FitsAssumption ==
  /\ SMs >= 2 /\ MaxUnits >= SMs + 3
  /\ MaxUnits >= 2 * SMs + 1 /\ MaxUnits >= 3 * SMs - 2

VARIABLES
  todo,     \* the suites still to run, the current one first
  plan,     \* the launches the current suite has still to make
  probing,  \* a probe is running
  kept,     \* the events of a capture, for the analysis of the next run
  rows,     \* the rows validated so far, [conf, valid]
  files,    \* the reports written: suite -> its summary
  exit      \* "running", "ok" (0), "invalid" (1), or "died"

harness == <<todo, plan, probing, kept, rows, files, exit>>
vars == <<device, harness>>

-----------------------------------------------------------------------------
(* The checks of a probe on its own row, and the status it exits with. *)

(* Mutant of Expected: a grid below R is expected to fill the device. *)
ExpectedR(row) == row.r

Expected(row) == Min({row.tasks, row.r})

Clean(row) ==
  row.missed = 0 /\ row.duplicates = 0 /\ row.dupClaims = 0 /\ row.holes = 0

(* The prefix [0, k) was launched and the suffix [k, tasks) was claimed. *)
SuffixClaimed(row, k) ==
  IF row.tasks <= k
  THEN row.successes = 0 /\ row.unique = 0
  ELSE row.unique = row.tasks - k /\ row.cmin = k /\ row.cmax = row.tasks - 1

(* Mutant of Structural: which clusters were claimed is not looked at. *)
StructuralAnySuffix(row) == Clean(row) /\ row.active = Expected(row)

Structural(row) ==
  Clean(row) /\ row.active = Expected(row) /\ SuffixClaimed(row, row.r)

StructuralCluster(row) ==
  /\ Structural(row)
  /\ row.tasks > row.r =>
       /\ row.bases = (row.tasks - row.r) \div row.x
       /\ row.bmax = row.tasks - row.x

Tallied(row) == row.attempts = row.processed /\ row.failures = row.active

StructuralRuntime(row) == Structural(row) /\ Tallied(row)

StructuralMapping(row) == StructuralRuntime(row) /\ ~row.moved

StructuralPressure(row) ==
  /\ Clean(row) /\ Tallied(row) /\ row.processed = row.tasks /\ ~row.moved
  /\ SuffixClaimed(row, row.active)
  /\ row.tasks > row.active => row.successes = row.tasks - row.active

ExactlyOnceRow(row) ==
  row.missed = 0 /\ row.duplicates = 0 /\ row.dupClaims = 0

ExitsZero(suite, row) ==
  CASE suite \in {"2d", "tuple", "trace"} -> Structural(row)
    [] suite = "cluster" -> StructuralCluster(row)
    [] suite = "runtime" -> StructuralRuntime(row)
    [] suite = "mapping" -> StructuralMapping(row)
    [] suite = "pressure" -> StructuralPressure(row)
    [] suite = "participation" -> ExactlyOnceRow(row)
    [] OTHER -> row.missed = 0 /\ row.duplicates = 0

-----------------------------------------------------------------------------
(* The validators of the sweeps. *)

ValidSweep(row) ==
  Clean(row) /\ row.active = Expected(row) /\ SuffixClaimed(row, row.r)
  /\ Structural(row)

ValidDecode(row) ==
  Clean(row) /\ row.active = Expected(row) /\ SuffixClaimed(row, row.r)
  /\ Structural(row)

Coord(i, gx) == <<i % gx, i \div gx>>

Valid2d(row) ==
  /\ Clean(row) /\ row.active = Expected(row) /\ SuffixClaimed(row, row.r)
  /\ row.tasks > row.r => Coord(row.cmin, row.gx) = Coord(row.r, row.gx)
  /\ Structural(row)

ValidTuple(row) ==
  Clean(row) /\ row.active = Expected(row) /\ SuffixClaimed(row, row.r)
  /\ Structural(row)

(* It does not look at dupClaims, which the probe does not print. *)
ValidCluster(row) ==
  /\ row.missed = 0 /\ row.duplicates = 0 /\ row.holes = 0
  /\ row.active = Expected(row)
  /\ IF row.tasks <= row.r
     THEN row.successes = 0 /\ row.unique = 0 /\ row.bases = 0
     ELSE /\ row.cmin = row.r /\ row.cmax = row.tasks - 1
          /\ row.bmax = row.tasks - row.x
          /\ row.bases = (row.tasks - row.r) \div row.x
  /\ StructuralCluster(row)

(* It counts the SMs that got a worker only. *)
ValidRuntime(row) ==
  /\ Clean(row) /\ ~row.moved
  /\ row.processed = row.tasks /\ row.attempts = row.tasks
  /\ row.active = Expected(row)
  /\ row.successes = row.tasks - Expected(row)
  /\ row.failures = Expected(row)
  /\ IF row.tasks <= row.r THEN row.unique = 0 /\ row.cmin = 0
                           ELSE SuffixClaimed(row, row.r)
  /\ StructuralRuntime(row) /\ row.spread <= 1

(* The two kernels are to have run one after the other. *)
ValidPressure(row) ==
  /\ Clean(row) /\ ~row.moved /\ StructuralPressure(row)
  /\ row.processed = row.tasks /\ row.attempts = row.tasks
  /\ row.successes = row.tasks - row.active /\ row.failures = row.active
  /\ row.pressure > 0 =>
       row.started = row.pressure /\ ~row.overlap
  /\ row.active = Expected(row)

(* Mutant of ValidPart: the holes of a stride are not asked for. *)
ValidPartNoHoles(row) ==
  /\ row.processed = row.tasks /\ ExactlyOnceRow(row)
  /\ IF row.stride = 1
     THEN /\ row.active = row.r /\ row.holes = 0
          /\ row.cmin = row.r /\ row.cmax = row.tasks - 1
     ELSE row.active > row.r

ValidPart(row) ==
  /\ row.processed = row.tasks /\ ExactlyOnceRow(row)
  /\ IF row.stride = 1
     THEN /\ row.active = row.r /\ row.holes = 0
          /\ row.cmin = row.r /\ row.cmax = row.tasks - 1
     ELSE row.holes # 0 /\ row.active > row.r

-----------------------------------------------------------------------------
(* The analyses of a capture: the events of one run, the row of the next.  *)

Server(u) ==
  IF u \in Claimed
  THEN claims[CHOOSE i \in DOMAIN claims : claims[i].unit = u].worker
  ELSE u

MappingEvents == [u \in Grid |-> [worker |-> Server(u), sm |-> sm[Server(u)]]]

(* Mutant of ValidMapping: the residues are not asked for. *)
ValidMappingAnyResidue(a, row) ==
  /\ StructuralMapping(row)
  /\ a.unique /\ ~a.contiguous
  /\ row.tasks > row.r => a.byPrefix

AnalyzeMapping(ev, row) ==
  LET prefix == 0 .. (Min({row.active, row.tasks}) - 1)
      suffix == row.r .. (row.tasks - 1)
      waves == Cardinality(prefix) \div SMs
      chunk(k) == [i \in 0 .. (SMs - 1) |-> ev[k * SMs + i].sm]
      onSm(s) == {u \in prefix : ev[u].sm = s}
  IN [unique |-> \A k \in 0 .. (waves - 1) :
                   Cardinality({chunk(k)[i] : i \in 0 .. (SMs - 1)}) = SMs,
      repeating |-> \A k \in 0 .. (waves - 1) : chunk(k) = chunk(0),
      contiguous |-> \A u, v \in prefix : ev[u].sm = ev[v].sm /\ u < v =>
                       \A w \in u .. v : ev[w].sm = ev[u].sm,
      residue |-> \A s \in 0 .. (SMs - 1) :
                    Cardinality({u % SMs : u \in onSm(s)}) <= 1,
      byPrefix |-> \A u \in suffix : ev[u].worker < row.active]

ValidMapping(a, row) ==
  /\ StructuralMapping(row)
  /\ a.unique /\ a.repeating /\ ~a.contiguous
  /\ row.tasks >= row.r => a.residue
  /\ row.tasks > row.r => a.byPrefix

(* A claim's wave is the number of tasks its worker had served. *)
Wave(ev, i) ==
  1 + Cardinality({j \in 1 .. (i - 1) : ev[j].worker = ev[i].worker})

Inversions(ev) ==
  LET Backsteps == {i \in 2 .. Len(ev) : ev[i].unit < ev[i - 1].unit}
  IN [adjacent |-> Cardinality(Backsteps),
      total |-> Cardinality({p \in (DOMAIN ev) \X (DOMAIN ev) :
                               p[1] < p[2] /\ ev[p[1]].unit > ev[p[2]].unit}),
      backstep |-> Max({0} \cup {ev[i - 1].unit - ev[i].unit : i \in Backsteps})]

Summarize(ev, row) ==
  LET claimed == {ev[i].unit : i \in DOMAIN ev}
  IN [events |-> Len(ev), inversions |-> Inversions(ev),
      holes |-> IF claimed = {} THEN 0
                ELSE Max(claimed) - Min(claimed) + 1 - Cardinality(claimed),
      waves |-> [k \in {Wave(ev, i) : i \in DOMAIN ev} |->
                   Cardinality({i \in DOMAIN ev : Wave(ev, i) = k})],
      terminal |-> row.attempts - row.successes = row.active]

(* analyze_trace.py has no verdict of its own. *)
Valid(suite, row) ==
  CASE suite = "2d" -> Valid2d(row)
    [] suite = "tuple" -> ValidTuple(row)
    [] suite = "cluster" -> ValidCluster(row)
    [] suite = "runtime" -> ValidRuntime(row)
    [] suite = "pressure" -> ValidPressure(row)
    [] suite = "participation" -> ValidPart(row)
    [] suite = "mapping" -> ValidMapping(AnalyzeMapping(kept, row), row)
    [] suite = "trace" -> TRUE
    [] suite = "decode" -> ValidDecode(row)
    [] OTHER -> ValidSweep(row)

-----------------------------------------------------------------------------
(* The configurations of the suites, scaled to a device of SMs SMs: what   *)
(* matters is on which side of R a grid lies, and by how much.             *)

Cfg(units, occ) == [units |-> units, x |-> 1, gx |-> units, occ |-> occ,
                    stride |-> 1, pressure |-> 0]
About(occ, k) == Cfg(occ * SMs + k, occ)

Shot(kind, c) == [kind |-> kind, conf |-> c]
Repeated(cs, n) ==
  [i \in 1 .. (Len(cs) * n) |-> Shot("row", cs[((i - 1) \div n) + 1])]

ThresholdConfigs == <<About(1, -1), About(1, 0), About(1, 1)>>

(* predict_r launches a probe of its own to learn R, before the first row. *)
OccupancyConfigs == <<About(2, -1), About(2, 0), About(2, 1)>>

ClaimOrderConfigs == <<About(1, 2), About(1, 3)>>

(* The two loops of workload_configs both yield one of the configurations. *)
WorkloadConfigs == <<About(1, 1), About(1, 2), About(1, 1)>>

DecodeConfigs == <<About(1, -1), About(1, 0), About(1, 2)>>

Configs2d ==
  <<[About(1, 2) EXCEPT !.gx = 2], [About(1, 0) EXCEPT !.gx = 1],
    [Cfg(3, 1) EXCEPT !.gx = 3]>>

ClusterConfigs ==
  <<[About(1, 0) EXCEPT !.x = 2], [About(1, 1) EXCEPT !.x = 2], About(1, 2)>>

TupleConfigs == <<About(1, 2)>>

PartConfigs ==
  <<About(1, 3), [About(1, 3) EXCEPT !.stride = 2]>>

RuntimeConfigs == <<About(1, -1), About(1, 1), About(3, -2)>>

(* No pressure, one block, and one for every SM. *)
PressureConfigs ==
  <<About(1, 2), [About(1, 2) EXCEPT !.pressure = 1],
    [About(1, 2) EXCEPT !.pressure = SMs]>>

MappingConfigs == <<About(2, 1), About(2, -1)>>

(* run_probe twice, once for the events and once for the summary. *)
Captures(cs) ==
  [i \in 1 .. (2 * Len(cs)) |->
     Shot(IF i % 2 = 1 THEN "events" ELSE "row", cs[((i - 1) \div 2) + 1])]

Plan(suite) ==
  CASE suite = "threshold" -> Repeated(ThresholdConfigs, Repeats)
    [] suite = "occupancy" ->
         <<Shot("predict", About(2, 1))>> \o Repeated(OccupancyConfigs, Repeats)
    [] suite = "claim-order" -> Repeated(ClaimOrderConfigs, Repeats)
    [] suite = "workload" -> Repeated(WorkloadConfigs, LongRepeats)
    [] suite = "decode" -> Repeated(DecodeConfigs, LongRepeats)
    [] suite = "2d" -> Repeated(Configs2d, Repeats)
    [] suite = "cluster" ->
         <<Shot("predict", [About(1, 2) EXCEPT !.x = 2])>>
           \o Repeated(ClusterConfigs, Repeats)
    [] suite = "tuple" -> Repeated(TupleConfigs, Repeats)
    [] suite = "participation" -> Repeated(PartConfigs, Repeats)
    [] suite = "runtime" -> Repeated(RuntimeConfigs, Repeats)
    [] suite = "pressure" -> Repeated(PressureConfigs, Repeats)
    [] suite = "mapping" -> Captures(MappingConfigs)
    [] suite = "trace" -> Captures(<<About(1, 2)>>)

RunAll ==
  <<"threshold", "occupancy", "claim-order", "workload", "decode", "2d",
    "cluster", "trace", "tuple", "participation", "runtime", "mapping",
    "pressure">>

(* run_adversarial_sweep.py runs two suites before it exits. *)
EndsScript(suite) == suite # "tuple"

-----------------------------------------------------------------------------

Observed == [eager |-> TRUE, declines |-> FALSE, taken |-> 0,
             overlap |-> FALSE, moved |-> FALSE]

(* Beside a pressure kernel: blocks of it that hold a slot when the grid is *)
(* launched make the first wave smaller, and even when they hold none the   *)
(* two may run side by side.  A block that gets its first slot only later   *)
(* takes none from the grid; this is a bound.                               *)
Shared(c) ==
  {[Observed EXCEPT !.taken = t, !.overlap = o] :
     t \in 0 .. Min({c.pressure, SMs}), o \in BOOLEAN}

(* What the hardware may do: what FINDINGS.md observes; claims that fail    *)
(* for another reason; a wave that fills up only while CTAs already claim,  *)
(* for the mapping suite left out as a bound; a worker that moves, where    *)
(* the probe looks for it; and sharing the device with a pressure kernel.   *)
Behaviours(suite, c) ==
  {Observed, [Observed EXCEPT !.declines = TRUE]}
  \cup (IF suite = "mapping" THEN {} ELSE {[Observed EXCEPT !.eager = FALSE]})
  \cup (IF suite \in {"runtime", "mapping", "pressure"}
        THEN {[Observed EXCEPT !.moved = TRUE]} ELSE {})
  \cup (IF c.pressure > 0 THEN Shared(c) ELSE {})

Suite == Head(todo)

StartProbe ==
  /\ exit = "running" /\ ~probing /\ plan # <<>>
  /\ LET c == Head(plan).conf IN
       \E g \in Behaviours(Suite, c) : \E p \in Placements(c, g) : Launch(c, g, p)
  /\ probing' = TRUE
  /\ UNCHANGED <<todo, plan, kept, rows, files, exit>>

(* subprocess.run(check=True) *)
ProbeFails ==
  /\ exit = "running" /\ probing /\ Done /\ ~ExitsZero(Suite, Row)
  /\ probing' = FALSE /\ exit' = "died"
  /\ UNCHANGED <<device, todo, plan, kept, rows, files>>

Collected ==
  /\ exit = "running" /\ probing /\ Done /\ ExitsZero(Suite, Row)
  /\ probing' = FALSE /\ plan' = Tail(plan)
  /\ UNCHANGED <<device, todo, files, exit>>

(* Mutant of Predict: the plan stays, and R is asked for again. *)
PredictAgain ==
  /\ exit = "running" /\ probing /\ Done /\ ExitsZero(Suite, Row)
  /\ Head(plan).kind = "predict" /\ probing' = FALSE
  /\ UNCHANGED <<device, todo, plan, kept, rows, files, exit>>

Predict == Collected /\ Head(plan).kind = "predict" /\ UNCHANGED <<kept, rows>>

Capture ==
  /\ Collected /\ Head(plan).kind = "events"
  /\ kept' = IF Suite = "trace" THEN claims ELSE MappingEvents
  /\ UNCHANGED rows

Validate ==
  /\ Collected /\ Head(plan).kind = "row"
  /\ rows' = Append(rows, [conf |-> conf, valid |-> Valid(Suite, Row)])
  /\ kept' = <<>>

-----------------------------------------------------------------------------

(* Mutant of Group: the key of a group leaves the stride out. *)
GroupAnyStride(c) == {i \in DOMAIN rows : [rows[i].conf EXCEPT !.stride = c.stride] = c}

Group(c) == {i \in DOMAIN rows : rows[i].conf = c}

(* One line per distinct configuration. *)
Aggregate ==
  [c \in {rows[i].conf : i \in DOMAIN rows} |->
     [repeats |-> Cardinality(Group(c)),
      valid |-> Quantify(Group(c), LAMBDA i : rows[i].valid)]]

AllOk(summary) ==
  \A c \in DOMAIN summary : summary[c].valid = summary[c].repeats

(* Both CSVs are written, whatever the verdicts; then the script exits with *)
(* 1 if a row of a suite of its own failed, and `set -e` stops the others.  *)
Report ==
  /\ exit = "running" /\ ~probing /\ plan = <<>>
  /\ files' = [s \in DOMAIN files \cup {Suite} |->
                 IF s = Suite THEN Aggregate ELSE files[s]]
  /\ rows' = <<>>
  /\ LET failed == \E s \in DOMAIN files' : ~AllOk(files'[s])
         stop == EndsScript(Suite) /\ failed
     IN /\ exit' = IF stop THEN "invalid"
                     ELSE IF Tail(todo) = <<>> THEN "ok" ELSE exit
        /\ todo' = Tail(todo)
        /\ plan' = IF exit' = "running" THEN Plan(Head(Tail(todo))) ELSE <<>>
  /\ UNCHANGED <<device, probing, kept>>

(* Before the first probe there is no grid. *)
Init ==
  /\ conf = Cfg(0, 1) /\ regime = Observed
  /\ status = [u \in Units |-> "out"]
  /\ holds = [u \in Units |-> Nothing] /\ sm = [u \in Units |-> Nothing]
  /\ visits = [u \in Units |-> 0] /\ claims = <<>>
  /\ stats = [u \in Units |-> Fresh]
  /\ todo = RunAll /\ plan = Plan(Head(RunAll))
  /\ probing = FALSE /\ kept = <<>> /\ rows = <<>>
  /\ files = <<>> /\ exit = "running"

Next ==
  \/ StartProbe \/ (probing /\ Gpu /\ UNCHANGED harness)
  \/ ProbeFails \/ Predict \/ Capture \/ Validate \/ Report

Spec == Init /\ [][Next]_vars

(* Blocks that are resident make progress, a probe that ended is collected, *)
(* and the scripts go on; every step leads closer to the end.               *)
FairSpec == Spec /\ WF_vars(Next)

-----------------------------------------------------------------------------
(* Properties *)

Launched == {u \in Grid : sm[u] # Nothing}
Held(u) == \E w \in Units : holds[w] = u

(* The bookkeeping of a launch: each cluster of the grid is launched,       *)
(* cancelled or still pending and only that; a raw id is served or held     *)
(* once, by its own cluster or by the one whose claim cancelled it, and     *)
(* never before it was launched or cancelled; and the counters of a worker  *)
(* tell how far it is (the loop of clc_probe.cu).                           *)
GridInv ==
  /\ \A u \in Units :
       /\ status[u] \in {"out", "pending", "resident", "claiming", "left",
                          "cancelled"}
       /\ holds[u] # Nothing <=> status[u] = "resident"
       /\ sm[u] # Nothing <=> status[u] \in {"resident", "claiming", "left"}
       /\ status[u] = "out" <=> u \notin Grid
       /\ status[u] = "cancelled" <=> u \in Claimed
       /\ visits[u] = IF status[u] \in {"out", "pending"} \/ Held(u) THEN 0 ELSE 1
       /\ Held(u) => status[u] \notin {"out", "pending"}
  /\ \A v, w \in Units : holds[v] = holds[w] /\ holds[v] # Nothing => v = w
  /\ \A i, j \in DOMAIN claims : claims[i].unit = claims[j].unit => i = j
  /\ \A w \in Units :
       /\ status[w] = "claiming" => Participates(w)
       /\ stats[w].attempts = stats[w].successes
            + (IF status[w] = "left" /\ Participates(w) THEN 1 ELSE 0)
       /\ stats[w].processed = stats[w].successes
            + (IF status[w] \in {"claiming", "left"} THEN 1 ELSE 0)

(* No raw id is ever served twice, and once every CTA has returned each one *)
(* of the grid has been served: whatever wave the hardware launches,        *)
(* whichever claims it declines, whichever CTAs take part in claiming.      *)
ExactlyOnce ==
  /\ \A u \in Units : visits[u] <= 1
  /\ Done => \A u \in Grid : visits[u] = 1

(* On the behaviour FINDINGS.md documents no probe exits nonzero, so        *)
(* check=True costs no sweep its rows; the suites that do not look at the   *)
(* placement accept every row, participation with a stride excepted.        *)
DocumentedPasses ==
  probing /\ Done /\ regime = Observed =>
    /\ ExitsZero(Suite, Row)
    /\ Head(plan).kind = "row" /\ conf.stride = 1
         /\ Suite \notin {"runtime", "mapping"} => Valid(Suite, Row)

Validating ==
  probing /\ Done /\ ExitsZero(Suite, Row) /\ Head(plan).kind = "row"

FirstR == {u \in Grid : u < PredictedR(conf)}
Even == \A s, t \in Busy : WorkersOn(s) <= WorkersOn(t) + 1

(* A row is valid exactly when the launch did what FINDINGS.md says: the    *)
(* hardware launched [0, R) and no other cluster, so the rest was claimed;  *)
(* for the runtime suite, evenly over the SMs it used and with no worker    *)
(* moved; for the pressure suite, also no worker moved and the two kernels  *)
(* side by side for 1 us at most (a launch of exactly [0, R) that shared    *)
(* the device for longer is rejected); for a stride, that a claim skipped a *)
(* cluster and more than R CTAs ran.  The row has counters only: a minimum, *)
(* a maximum and sizes.                                                     *)
VerdictsTrue ==
  Validating /\ Suite \notin {"trace", "mapping"} =>
    (Valid(Suite, Row) <=>
       IF conf.stride = 1
       THEN /\ Launched = FirstR
            /\ Suite = "runtime" => Even
            /\ Suite \in {"runtime", "pressure"} => ~regime.moved
            /\ Suite = "pressure" => ~regime.overlap
       ELSE /\ \E u, v \in Claimed, w \in Launched : u < w /\ w < v
            /\ Cardinality(Launched) > PredictedR(conf))

(* The events of a capture come from one run and the row from another:      *)
(* because both exited 0, they agree on which clusters were launched and    *)
(* which were claimed, and the analysis of the trace finds no hole, as many *)
(* events in its waves as claims in the row, and one failure a worker.      *)
StitchedRunsAgree ==
  /\ Validating /\ Suite = "mapping" =>
       /\ DOMAIN kept = Grid
       /\ \A u \in Grid : IF u \in Launched THEN kept[u].worker = u
                                             ELSE kept[u].worker \in Launched
  /\ Validating /\ Suite = "trace" =>
       LET a == Summarize(kept, Row)
       IN /\ {kept[i].unit : i \in DOMAIN kept} = Claimed
          /\ a.events = Row.successes /\ a.holes = 0 /\ a.terminal
          /\ SumFunction(a.waves) = a.events
          /\ a.inversions.adjacent = 0 <=> a.inversions.total = 0

(* With at least R tasks a mapping is accepted exactly when the SMs were     *)
(* filled in turn: the first wave used each once, and worker w ran on the    *)
(* SM of worker w mod SMs.                                                   *)
MappingVerdict ==
  Validating /\ Suite = "mapping" /\ Row.tasks >= Row.r =>
    (Valid(Suite, Row) <=>
       /\ {kept[u].sm : u \in 0 .. (SMs - 1)} = 0 .. (SMs - 1)
       /\ \A w \in FirstR : kept[w].sm = kept[w % SMs].sm)

Configs(s) == {Plan(s)[i].conf : i \in DOMAIN Plan(s)}
RowsPlanned(s, c) ==
  Cardinality({i \in DOMAIN Plan(s) : Plan(s)[i] = Shot("row", c)})

(* What the status of the scripts vouches for: a suite has a report exactly *)
(* when it ran to its end, with a line for every configuration and in it    *)
(* every run that was planned (a configuration that two loops yield has the *)
(* runs of both); all rows of all suites are valid if the script ends with  *)
(* 0, and a suite with an invalid row stops it within its own Python script. *)
ReportVouches ==
  ~probing =>
    /\ DOMAIN files = {RunAll[i] : i \in 1 .. (Len(RunAll) - Len(todo))}
    /\ \A s \in DOMAIN files :
         /\ DOMAIN files[s] = {c \in Configs(s) : RowsPlanned(s, c) > 0}
         /\ \A c \in DOMAIN files[s] : files[s][c].repeats = RowsPlanned(s, c)
    /\ exit = "ok" => todo = <<>>
    /\ exit \in {"running", "ok", "died"} =>
         \A s \in DOMAIN files :
           ~AllOk(files[s]) => s = "tuple" /\ Suite = "participation"
    /\ exit = "invalid" => \E s \in DOMAIN files : ~AllOk(files[s])

(* Every probe drains its grid and the scripts come to an end: with a       *)
(* status, or at the first probe that failed.                               *)
RunAllEnds == <>(exit # "running")
=============================================================================
