------------------------------ MODULE BakeCache ------------------------------
(***************************************************************************)
(* The JIT cache that the processes of a machine share, and the compile    *)
(* environment that decides what goes into it.                             *)
(*                                                                         *)
(* A woven kernel carries the addresses of its process's control plane and *)
(* the shape of its channels as constants.  FlashInfer keeps it in a       *)
(* directory that it fixes when it is imported; later processes with the   *)
(* same directory load it without compiling.  So the directory's name has  *)
(* to say everything that was baked (compute_bake_env), and the plane that *)
(* a process creates has to be the one the name speaks of.                 *)
(*                                                                         *)
(* Three kinds of processes share the cache.  A "fixture" creates its      *)
(* plane, arms its environment and then imports FlashInfer                 *)
(* (test/py/test_fixed_va.py and the evaluations).  A "plugin" process is  *)
(* an SGLang scheduler: it arms from the predicted base address when it    *)
(* registers, creates its plane in the before-hook of Scheduler.__init__   *)
(* and arms again (python/sched_sglang_plugin.py).  A "stock" process      *)
(* imports FlashInfer and nothing else.                                    *)
(*                                                                         *)
(* The kernel is one that SCHED_WEAVE_ONLY names.  "mode" stands for the   *)
(* rest of the key, which a process never changes: the work-queue driver,  *)
(* the disabled levers, the plane's capacity, and the tag of the pass.     *)
(***************************************************************************)
EXTENDS FiniteSets

CONSTANTS
  Procs,        (* processes that may be alive at a time                    *)
  Bases,        (* addresses the arena may be mapped at                     *)
  Canonical,    (* predicted_base(): the address the arena asks for         *)
  Modes,        (* the rest of the cache key                                *)
  Timers,       (* values of SCHED_TIMER_DEVICE # "0", or use_device_timer  *)
  Orders,       (* values of SCHED_ORDER_DEVICE # "0", or use_device_order  *)
  EarlyImport,  (* may SGLang import FlashInfer before its init hook runs?  *)
  Stock,        (* the stock cache directory, and a kernel that is not woven*)
  None

Layouts == [base : Bases, ti : BOOLEAN, oi : BOOLEAN, mode : Modes]
Dirs == Layouts \cup {Stock}
Planes == [base : Bases, ti : BOOLEAN, oi : BOOLEAN]
Kinds == {"fixture", "plugin", "stock"}
Configs == [kind : Kinds, ti : Timers, oi : Orders, mode : Modes]

AnyConfig == CHOOSE c \in Configs : TRUE

ASSUME CacheAssumption ==
  /\ Canonical \in Bases
  /\ Timers \subseteq BOOLEAN /\ Orders \subseteq BOOLEAN
  /\ Timers # {} /\ Orders # {} /\ Modes # {}
  /\ EarlyImport \in BOOLEAN
  /\ Stock \notin Layouts
  /\ None \notin Dirs \cup Bases \cup Planes

VARIABLES
  cache,     (* per directory, the kernel it holds, or None                 *)
  pc,        (* how far the process is                                      *)
  conf,      (* its configuration                                           *)
  env,       (* its os.environ, as far as compilations see it               *)
  plane,     (* its control plane (base and channels), or None              *)
  frozen,    (* the directory its FlashInfer is fixed to, or None           *)
  loaded     (* the kernel it has loaded, or None                           *)

vars == <<cache, pc, conf, env, plane, frozen, loaded>>

-----------------------------------------------------------------------------
(* The compile environment. *)

(* An environment without any of BAKE_KEYS. *)
Popped == [plugin |-> FALSE, bake |-> None, ti |-> FALSE, oi |-> FALSE,
           ws |-> Stock]

(* Mutant of BakeEnv: the key does not say whether the order is indirect. *)
BakeEnvNoOrder(e, base, ti, oi, mode) ==
  [plugin |-> TRUE, bake |-> base, ti |-> ti \/ e.ti, oi |-> oi \/ e.oi,
   ws |-> [base |-> base, ti |-> ti \/ e.ti, oi |-> FALSE, mode |-> mode]]

(* compute_bake_env.  It starts from a copy of e: a channel flag that e has *)
(* stays set, and is in the key.                                            *)
BakeEnv(e, base, ti, oi, mode) ==
  LET t == ti \/ e.ti
      o == oi \/ e.oi
  IN  [plugin |-> TRUE, bake |-> base, ti |-> t, oi |-> o,
       ws |-> [base |-> base, ti |-> t, oi |-> o, mode |-> mode]]

(* pre_arm_env: the predicted base, and no word of the order channel. *)
PreArmEnv(e, c) ==
  IF e.plugin THEN BakeEnv(e, Canonical, c.ti, FALSE, c.mode) ELSE e

(* Mutant of ArmEnv: the workspace of the pre-armed environment is kept. *)
ArmEnvKeepsWorkspace(e, pl, mode) ==
  IF e.plugin /\ e.ws = Stock THEN BakeEnv(e, pl.base, pl.ti, pl.oi, mode)
  ELSE [BakeEnv(e, pl.base, pl.ti, pl.oi, mode) EXCEPT !.ws = e.ws]

(* arm_process_env: the live plane's base and channels. *)
ArmEnv(e, pl, mode) ==
  IF e.plugin THEN BakeEnv(e, pl.base, pl.ti, pl.oi, mode) ELSE e

-----------------------------------------------------------------------------
(* The compiler. *)

(* Mutant of KeyedBy: any workspace will do. *)
KeyedByAny(ws, base) == base # None

(* The shim's check: the workspace's name has the baked base in it. *)
KeyedBy(ws, base) == base # None /\ ws # Stock /\ ws.base = base

(* The kernel that a compilation in environment e makes: with the bake      *)
(* variables in place, and a plugin to read them, a woven one.              *)
Compiled(e, mode) ==
  IF e.plugin /\ KeyedBy(e.ws, e.bake)
  THEN [base |-> e.bake, ti |-> e.ti, oi |-> e.oi, mode |-> mode]
  ELSE Stock

-----------------------------------------------------------------------------
(* The control plane. *)

(* The arena is at the canonical address, or where mmap puts it if that is  *)
(* taken; the channels are switched to the device as configured.            *)
NewPlane(c) == [base : Bases, ti : {c.ti}, oi : {c.oi}]

(* What _plane leaves behind when it raises: nothing, or a plane that has   *)
(* not got all of its channels.                                             *)
PartialPlane(c) ==
  {None} \cup [base : Bases, ti : {FALSE}, oi : {FALSE}]
         \cup [base : Bases, ti : {c.ti}, oi : {FALSE}]

-----------------------------------------------------------------------------
(* Processes.  A new one has a clean environment, one with stray bake       *)
(* variables, or that of a live process of its configuration, its parent.   *)

Clean == [Popped EXCEPT !.plugin = TRUE]
Stray == [b \in Bases |-> [Clean EXCEPT !.bake = b]]

Start(p) ==
  /\ pc[p] = "dead"
  /\ \E c \in Configs :
       /\ conf' = [conf EXCEPT ![p] = c]
       /\ \E e \in {Popped, Clean} \cup {Stray[b] : b \in Bases}
                   \cup {env[q] : q \in {r \in Procs : pc[r] # "dead" /\
                                                       conf[r] = c}} :
            /\ c.kind = "fixture" => e.plugin
            /\ env' = [env EXCEPT ![p] = e]
  /\ pc' = [pc EXCEPT ![p] = IF conf'[p].kind = "stock" THEN "ready"
                                                        ELSE "start"]
  /\ UNCHANGED <<cache, plane, frozen, loaded>>

(* A fixture: SchedPlane, use_device_*, arm_process_env. *)
ArmFixture(p) ==
  /\ pc[p] = "start" /\ conf[p].kind = "fixture"
  /\ \E pl \in NewPlane(conf[p]) :
       /\ plane' = [plane EXCEPT ![p] = pl]
       /\ env' = [env EXCEPT ![p] = ArmEnv(env[p], pl, conf[p].mode)]
  /\ pc' = [pc EXCEPT ![p] = "ready"]
  /\ UNCHANGED <<cache, conf, frozen, loaded>>

(* register(): the environment is armed ahead of the plane. *)
Register(p) ==
  /\ pc[p] = "start" /\ conf[p].kind = "plugin"
  /\ env' = [env EXCEPT ![p] = PreArmEnv(env[p], conf[p])]
  /\ pc' = [pc EXCEPT ![p] = "registered"]
  /\ UNCHANGED <<cache, conf, plane, frozen, loaded>>

(* before_init: _plane(1) creates the plane and arms again. *)
InitPlane(p) ==
  /\ pc[p] = "registered"
  /\ \E pl \in NewPlane(conf[p]) :
       /\ plane' = [plane EXCEPT ![p] = pl]
       /\ env' = [env EXCEPT ![p] = ArmEnv(env[p], pl, conf[p].mode)]
  /\ pc' = [pc EXCEPT ![p] = "ready"]
  /\ UNCHANGED <<cache, conf, frozen, loaded>>

(* Mutant of PoppedEnv: the workspace is not among the keys removed. *)
PoppedEnvButWorkspace(e) == [Popped EXCEPT !.ws = e.ws]

(* The failed hook removes every one of BAKE_KEYS. *)
PoppedEnv(e) == Popped

(* before_init, when _plane raises: compilations are disarmed. *)
InitFails(p) ==
  /\ pc[p] = "registered"
  /\ \E pl \in PartialPlane(conf[p]) : plane' = [plane EXCEPT ![p] = pl]
  /\ env' = [env EXCEPT ![p] = PoppedEnv(env[p])]
  /\ pc' = [pc EXCEPT ![p] = "ready"]
  /\ UNCHANGED <<cache, conf, frozen, loaded>>

(* A later batch finds no plane and tries again; it may fail again. *)
RetryPlane(p) ==
  /\ pc[p] = "ready" /\ conf[p].kind = "plugin" /\ plane[p] = None
  /\ \/ \E pl \in NewPlane(conf[p]) :
          /\ plane' = [plane EXCEPT ![p] = pl]
          /\ env' = [env EXCEPT ![p] = ArmEnv(env[p], pl, conf[p].mode)]
     \/ /\ \E pl \in PartialPlane(conf[p]) : plane' = [plane EXCEPT ![p] = pl]
        /\ UNCHANGED env
  /\ UNCHANGED <<cache, pc, conf, frozen, loaded>>

(* A stock or fixture process imports FlashInfer when it is done arming; so *)
(* does SGLang (it constructs its ModelRunner in Scheduler.__init__), unless*)
(* some earlier import of it reaches FlashInfer.                            *)
MayImport == IF EarlyImport THEN {"registered", "ready"} ELSE {"ready"}

(* import flashinfer: the workspace of the moment is its directory for good.*)
Import(p) ==
  /\ frozen[p] = None
  /\ pc[p] \in MayImport
  /\ frozen' = [frozen EXCEPT ![p] = env[p].ws]
  /\ UNCHANGED <<cache, pc, conf, env, plane, loaded>>

(* The first use of the kernel: from the cache if it is there, ... *)
LoadCached(p) ==
  /\ pc[p] = "ready" /\ frozen[p] # None /\ loaded[p] = None
  /\ cache[frozen[p]] # None
  /\ loaded' = [loaded EXCEPT ![p] = cache[frozen[p]]]
  /\ UNCHANGED <<cache, pc, conf, env, plane, frozen>>

(* ... else compiled into it. *)
CompileKernel(p) ==
  /\ pc[p] = "ready" /\ frozen[p] # None /\ loaded[p] = None
  /\ cache[frozen[p]] = None
  /\ LET k == Compiled(env[p], conf[p].mode)
     IN  /\ cache' = [cache EXCEPT ![frozen[p]] = k]
         /\ loaded' = [loaded EXCEPT ![p] = k]
  /\ UNCHANGED <<pc, conf, env, plane, frozen>>

(* The process ends, at any point; the arena is unmapped, the cache stays. *)
(* What the process was configured as is forgotten.                         *)
Exit(p) ==
  /\ pc[p] # "dead"
  /\ pc' = [pc EXCEPT ![p] = "dead"]
  /\ env' = [env EXCEPT ![p] = Popped]
  /\ plane' = [plane EXCEPT ![p] = None]
  /\ frozen' = [frozen EXCEPT ![p] = None]
  /\ loaded' = [loaded EXCEPT ![p] = None]
  /\ conf' = [conf EXCEPT ![p] = AnyConfig]
  /\ UNCHANGED cache

Init ==
  /\ cache = [d \in Dirs |-> None]
  /\ pc = [p \in Procs |-> "dead"]
  /\ conf = [p \in Procs |-> AnyConfig]
  /\ env = [p \in Procs |-> Popped]
  /\ plane = [p \in Procs |-> None]
  /\ frozen = [p \in Procs |-> None]
  /\ loaded = [p \in Procs |-> None]

Step(p) ==
  \/ Start(p) \/ ArmFixture(p) \/ Register(p) \/ InitPlane(p)
  \/ InitFails(p) \/ RetryPlane(p) \/ Import(p) \/ LoadCached(p)
  \/ CompileKernel(p) \/ Exit(p)

Next == \E p \in Procs : Step(p)

Spec == Init /\ [][Next]_vars

-----------------------------------------------------------------------------
(* Properties. *)

Envs == [plugin : BOOLEAN, bake : Bases \cup {None}, ti : BOOLEAN,
         oi : BOOLEAN, ws : Dirs]

(* Every variable ranges over the values its code counterpart can hold. *)
TypeOK ==
  /\ cache \in [Dirs -> Dirs \cup {None}]
  /\ pc \in [Procs -> {"dead", "start", "registered", "ready"}]
  /\ conf \in [Procs -> Configs]
  /\ env \in [Procs -> Envs]
  /\ plane \in [Procs -> Planes \cup {None}]
  /\ frozen \in [Procs -> Dirs \cup {None}]
  /\ loaded \in [Procs -> Dirs \cup {None}]

Woven(k) == k \in Layouts

(* Kernel k is woven for process p's plane: the addresses it dereferences   *)
(* are mapped, and its two channels have the shape that the plane gives     *)
(* them (a host table read as a pointer, or a pointer as a table, is wrong).*)
Matches(k, p) ==
  /\ plane[p] # None
  /\ k.base = plane[p].base /\ k.ti = plane[p].ti /\ k.oi = plane[p].oi
  /\ k.mode = conf[p].mode

(* "cached kernels and baked addresses can never disagree": whoever made a  *)
(* woven kernel that a process loads, it is one for that process's plane.   *)
KernelsMatchPlane ==
  \A p \in Procs : Woven(loaded[p]) => Matches(loaded[p], p)

(* An armed process does get woven kernels: no unwoven one, made while      *)
(* compilations were disarmed or stripped, waits in its directory.          *)
ArmedIsWoven ==
  \A p \in Procs :
    frozen[p] \in Layouts /\ loaded[p] # None => Woven(loaded[p])

(* A directory holds kernels of exactly the layout in its name; the stock   *)
(* directory holds none that is woven.                                      *)
DirsHoldTheirKey == \A d \in Dirs : cache[d] \in {d, None}

(* The shim's invariant: a baked address is only ever compiled into a cache *)
(* keyed by that address.                                                   *)
BakedUnderOwnBase ==
  \A d \in Dirs : Woven(cache[d]) => d # Stock /\ d.base = cache[d].base

(* Why they agree, if FlashInfer is imported after the plane is armed: from *)
(* then on plane, environment and directory are of one layout, and before   *)
(* it the environment has the flags of the process's own channels at most.  *)
LayoutOf(p) == [base |-> plane[p].base, ti |-> plane[p].ti,
                oi |-> plane[p].oi, mode |-> conf[p].mode]

Agree(p) ==
  /\ env[p].ti => conf[p].ti
  /\ env[p].oi => conf[p].oi
  /\ conf[p].kind = "stock" \/ ~env[p].plugin => env[p].ws = Stock
  /\ pc[p] \in {"start", "registered"} => conf[p].kind # "stock"
  /\ pc[p] # "ready" => frozen[p] = None
  /\ pc[p] = "ready" /\ conf[p].kind = "plugin" /\ plane[p] = None =>
       ~env[p].plugin
  /\ pc[p] = "ready" /\ env[p].ws # Stock =>
       /\ plane[p] # None
       /\ env[p].ws = LayoutOf(p) /\ env[p].bake = plane[p].base
       /\ env[p].ti = plane[p].ti /\ env[p].oi = plane[p].oi
  /\ frozen[p] = None => loaded[p] = None
  /\ frozen[p] # None =>
       frozen[p] = env[p].ws /\ loaded[p] \in {frozen[p], None}

AgreeInv == \A p \in Procs : Agree(p)
=============================================================================
