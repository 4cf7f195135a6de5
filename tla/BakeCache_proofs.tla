--------------------------- MODULE BakeCache_proofs ---------------------------
(***************************************************************************)
(* For any number of processes, addresses and keys: if FlashInfer is only  *)
(* imported after the plane has been armed, directories hold what their    *)
(* names say, and every woven kernel a process loads fits its plane.       *)
(***************************************************************************)
EXTENDS BakeCache, TLAPS

(* There is a configuration, and AnyConfig is one. *)
LEMMA SomeConfig == AnyConfig \in Configs
  <1>1. \E c \in Configs : TRUE
    <2>1. PICK t \in Timers, o \in Orders, m \in Modes : TRUE
      BY CacheAssumption
    <2>2. [kind |-> "stock", ti |-> t, oi |-> o, mode |-> m] \in Configs
      BY <2>1 DEF Configs, Kinds
    <2> QED BY <2>2
  <1> QED BY <1>1 DEF AnyConfig

(* The compile environments are environments. *)
LEMMA EnvTypes ==
  /\ Popped \in Envs /\ Clean \in Envs
  /\ \A b \in Bases : Stray[b] \in Envs
  /\ \A e \in Envs, b \in Bases, ti \in BOOLEAN, oi \in BOOLEAN, m \in Modes :
       BakeEnv(e, b, ti, oi, m) \in Envs
  /\ \A e \in Envs, pl \in Planes, m \in Modes : ArmEnv(e, pl, m) \in Envs
  /\ \A e \in Envs, c \in Configs : PreArmEnv(e, c) \in Envs
  <1> USE CacheAssumption DEF Envs, Dirs, Layouts, Planes, Configs
  <1>1. Popped \in Envs /\ Clean \in Envs
    BY DEF Popped, Clean
  <1>2. \A b \in Bases : Stray[b] \in Envs
    BY DEF Popped, Clean, Stray
  <1>3. \A e \in Envs, b \in Bases, ti \in BOOLEAN, oi \in BOOLEAN, m \in Modes :
          BakeEnv(e, b, ti, oi, m) \in Envs
    BY DEF BakeEnv
  <1>4. \A e \in Envs, pl \in Planes, m \in Modes : ArmEnv(e, pl, m) \in Envs
    BY <1>3 DEF ArmEnv
  <1>5. \A e \in Envs, c \in Configs : PreArmEnv(e, c) \in Envs
    <2> SUFFICES ASSUME NEW e \in Envs, NEW c \in Configs
                 PROVE  PreArmEnv(e, c) \in Envs
      OBVIOUS
    <2>1. Canonical \in Bases /\ c.ti \in BOOLEAN /\ c.mode \in Modes
      BY CacheAssumption DEF CacheAssumption
    <2> HIDE DEF Envs, Dirs, Layouts, Planes, Configs
    <2>2. BakeEnv(e, Canonical, c.ti, FALSE, c.mode) \in Envs
      BY <1>3, <2>1
    <2> QED BY <2>2 DEF PreArmEnv
  <1> QED BY <1>1, <1>2, <1>3, <1>4, <1>5

(* The planes a process creates are planes. *)
LEMMA PlaneTypes ==
  ASSUME NEW c \in Configs
  PROVE  NewPlane(c) \subseteq Planes
         /\ PartialPlane(c) \subseteq Planes \cup {None}
  BY CacheAssumption DEF NewPlane, PartialPlane, Planes, Configs

(* A compilation makes a kernel. *)
LEMMA CompiledType ==
  ASSUME NEW e \in Envs, NEW m \in Modes
  PROVE  Compiled(e, m) \in Dirs
  <1>1. CASE e.plugin /\ KeyedBy(e.ws, e.bake)
    <2>1. e.bake \in Bases /\ e.ti \in BOOLEAN /\ e.oi \in BOOLEAN
      BY <1>1 DEF KeyedBy, Envs
    <2> QED BY <1>1, <2>1 DEF Compiled, Dirs, Layouts
  <1>2. CASE ~(e.plugin /\ KeyedBy(e.ws, e.bake))
    BY <1>2 DEF Compiled, Dirs
  <1> QED BY <1>1, <1>2

(* TypeOK is inductive. *)
LEMMA TypeStep ==
  ASSUME TypeOK, [Next]_vars
  PROVE  TypeOK'
  <1> USE DEF TypeOK
  <1>1. CASE UNCHANGED vars
    BY <1>1 DEF vars
  <1>2. ASSUME NEW p \in Procs, Start(p)
        PROVE  TypeOK'
    <2>1. env' \in [Procs -> Envs]
      BY <1>2, EnvTypes DEF Start
    <2> QED BY <1>2, <2>1 DEF Start
  <1>3. ASSUME NEW p \in Procs,
               ArmFixture(p) \/ InitPlane(p)
        PROVE  TypeOK'
    <2>1. PICK pl \in NewPlane(conf[p]) :
            /\ plane' = [plane EXCEPT ![p] = pl]
            /\ env' = [env EXCEPT ![p] = ArmEnv(env[p], pl, conf[p].mode)]
      BY <1>3 DEF ArmFixture, InitPlane
    <2>2. pl \in Planes /\ conf[p].mode \in Modes
      BY PlaneTypes DEF Configs
    <2>3. ArmEnv(env[p], pl, conf[p].mode) \in Envs
      BY <2>2, EnvTypes
    <2> QED BY <1>3, <2>1, <2>2, <2>3 DEF ArmFixture, InitPlane
  <1>4. ASSUME NEW p \in Procs, Register(p)
        PROVE  TypeOK'
    BY <1>4, EnvTypes DEF Register
  <1>5. ASSUME NEW p \in Procs, InitFails(p)
        PROVE  TypeOK'
    BY <1>5, EnvTypes, PlaneTypes DEF InitFails, PoppedEnv
  <1>6. ASSUME NEW p \in Procs, RetryPlane(p)
        PROVE  TypeOK'
    <2>1. ASSUME NEW pl \in NewPlane(conf[p])
          PROVE  pl \in Planes /\ ArmEnv(env[p], pl, conf[p].mode) \in Envs
      <3>1. pl \in Planes /\ conf[p].mode \in Modes
        BY PlaneTypes DEF Configs
      <3> QED BY <3>1, EnvTypes
    <2>2. PartialPlane(conf[p]) \subseteq Planes \cup {None}
      BY PlaneTypes
    <2>3. plane' \in [Procs -> Planes \cup {None}] /\ env' \in [Procs -> Envs]
      BY <1>6, <2>1, <2>2 DEF RetryPlane
    <2> QED BY <1>6, <2>3 DEF RetryPlane
  <1>7. ASSUME NEW p \in Procs, Import(p)
        PROVE  TypeOK'
    BY <1>7 DEF Import, Envs
  <1>8. ASSUME NEW p \in Procs, LoadCached(p)
        PROVE  TypeOK'
    BY <1>8 DEF LoadCached
  <1>9. ASSUME NEW p \in Procs, CompileKernel(p)
        PROVE  TypeOK'
    <2>1. Compiled(env[p], conf[p].mode) \in Dirs
      BY CompiledType DEF Configs
    <2> QED BY <1>9, <2>1 DEF CompileKernel
  <1>10. ASSUME NEW p \in Procs, Exit(p)
         PROVE  TypeOK'
    BY <1>10, EnvTypes, SomeConfig DEF Exit
  <1> QED BY <1>1, <1>2, <1>3, <1>4, <1>5, <1>6, <1>7, <1>8, <1>9, <1>10
          DEF Next, Step

(* Every variable keeps its type. *)
THEOREM CacheTypeCorrect == Spec => []TypeOK
  <1>1. Init => TypeOK
    BY EnvTypes, SomeConfig DEF Init, TypeOK
  <1>2. TypeOK /\ [Next]_vars => TypeOK'
    BY TypeStep
  <1> QED BY <1>1, <1>2, PTL DEF Spec
-----------------------------------------------------------------------------
(* A process of which nothing changes agrees as it did. *)
LEMMA OthersAgree ==
  ASSUME NEW q \in Procs, Agree(q),
         pc'[q] = pc[q], conf'[q] = conf[q], env'[q] = env[q],
         plane'[q] = plane[q], frozen'[q] = frozen[q], loaded'[q] = loaded[q]
  PROVE  Agree(q)'
  BY DEF Agree, LayoutOf

(* Arming puts the live plane's layout in every place that must agree. *)
LEMMA ArmAgrees ==
  ASSUME NEW e \in Envs, NEW c \in Configs, NEW pl \in NewPlane(c),
         e.ti => c.ti, e.oi => c.oi, e.plugin
  PROVE  LET a == ArmEnv(e, pl, c.mode)
         IN  /\ a.plugin /\ a.bake = pl.base
             /\ a.ti = pl.ti /\ a.oi = pl.oi /\ a.ti = c.ti /\ a.oi = c.oi
             /\ a.ws = [base |-> pl.base, ti |-> pl.ti, oi |-> pl.oi,
                        mode |-> c.mode]
  <1>1. /\ pl.ti = c.ti /\ pl.oi = c.oi
        /\ c.ti \in BOOLEAN /\ c.oi \in BOOLEAN
        /\ e.ti \in BOOLEAN /\ e.oi \in BOOLEAN
    BY CacheAssumption DEF NewPlane, Configs, CacheAssumption, Envs
  <1>2. (c.ti \/ e.ti) = c.ti /\ (c.oi \/ e.oi) = c.oi
    BY <1>1
  <1>3. ArmEnv(e, pl, c.mode) =
          [plugin |-> TRUE, bake |-> pl.base, ti |-> c.ti, oi |-> c.oi,
           ws |-> [base |-> pl.base, ti |-> c.ti, oi |-> c.oi,
                   mode |-> c.mode]]
    BY <1>1, <1>2 DEF ArmEnv, BakeEnv
  <1> QED BY <1>1, <1>3

(* What a ready process compiles is what its directory is named after. *)
LEMMA CompiledAgrees ==
  ASSUME TypeOK, NEW p \in Procs, Agree(p), pc[p] = "ready"
  PROVE  Compiled(env[p], conf[p].mode) = env[p].ws
  <1>1. CASE env[p].ws = Stock
    BY <1>1 DEF Compiled, KeyedBy
  <1>2. CASE env[p].ws # Stock
    <2>1. /\ env[p].plugin /\ plane[p] # None
          /\ env[p].ws = LayoutOf(p) /\ env[p].bake = plane[p].base
          /\ env[p].ti = plane[p].ti /\ env[p].oi = plane[p].oi
      BY <1>2 DEF Agree
    <2>2. plane[p].base \in Bases
      BY <2>1 DEF TypeOK, Planes
    <2>3. KeyedBy(env[p].ws, env[p].bake)
      BY <1>2, <2>1, <2>2, CacheAssumption DEF KeyedBy, LayoutOf, CacheAssumption
    <2> QED BY <2>1, <2>3 DEF Compiled, LayoutOf
  <1> QED BY <1>1, <1>2

(* Agreement and the contents of directories are inductive together. *)
CacheInv == TypeOK /\ AgreeInv /\ DirsHoldTheirKey

(* Whatever one process does, it stays in agreement with itself and spoils no
   directory. *)
LEMMA ActorAgrees ==
  ASSUME ~EarlyImport, CacheInv, NEW p \in Procs, Step(p)
  PROVE  Agree(p)' /\ DirsHoldTheirKey'
  <1> USE DEF CacheInv
  <1>a. Agree(p)
    BY DEF AgreeInv
  <1>c. cache' = cache => DirsHoldTheirKey'
    BY DEF DirsHoldTheirKey
  <1>e. env[p] \in Envs /\ conf[p] \in Configs /\ plane[p] \in Planes \cup {None}
    BY DEF TypeOK
  <1>2. CASE Start(p)
    <2>1. PICK c \in Configs :
            /\ conf' = [conf EXCEPT ![p] = c]
            /\ \E e \in {Popped, Clean} \cup {Stray[b] : b \in Bases}
                        \cup {env[q] : q \in {r \in Procs : pc[r] # "dead" /\
                                                            conf[r] = c}} :
                 /\ c.kind = "fixture" => e.plugin
                 /\ env' = [env EXCEPT ![p] = e]
      BY <1>2 DEF Start
    <2>2. PICK e \in {Popped, Clean} \cup {Stray[b] : b \in Bases}
                     \cup {env[q] : q \in {r \in Procs : pc[r] # "dead" /\
                                                         conf[r] = c}} :
            env' = [env EXCEPT ![p] = e]
      BY <2>1
    <2>3. /\ e.ti => c.ti
          /\ e.oi => c.oi
          /\ c.kind = "stock" \/ ~e.plugin => e.ws = Stock
      <3>1. CASE e \in {Popped, Clean}
        BY <3>1 DEF Popped, Clean
      <3>2. CASE e \in {Stray[b] : b \in Bases}
        <4>1. PICK b \in Bases : e = Stray[b]
          BY <3>2
        <4>2. e = [Clean EXCEPT !.bake = b]
          BY <4>1 DEF Stray
        <4>3. e.ti = FALSE /\ e.oi = FALSE /\ e.ws = Stock
          BY <4>2 DEF Clean, Popped
        <4> QED BY <4>3
      <3>3. CASE \E q \in Procs : e = env[q] /\ conf[q] = c
        BY <3>3 DEF AgreeInv, Agree
      <3> QED BY <2>2, <3>1, <3>2, <3>3
    <2>4. /\ conf'[p] = c /\ env'[p] = e /\ plane'[p] = plane[p]
          /\ frozen'[p] = frozen[p] /\ loaded'[p] = loaded[p]
          /\ pc'[p] = IF c.kind = "stock" THEN "ready" ELSE "start"
      BY <1>2, <2>1, <2>2 DEF Start, TypeOK
    <2>5. frozen[p] = None /\ loaded[p] = None
      BY <1>2, <1>a DEF Start, Agree
    <2>6. Agree(p)'
      BY <2>3, <2>4, <2>5 DEF Agree
    <2> QED BY <1>2, <1>c, <2>6 DEF Start
  <1>p. ASSUME NEW pl \in NewPlane(conf[p])
        PROVE  pl \in Planes /\ pl # None
    BY PlaneTypes, <1>e, CacheAssumption DEF CacheAssumption
  <1>3. CASE ArmFixture(p) \/ InitPlane(p)
    <2>1. PICK pl \in NewPlane(conf[p]) :
            /\ plane' = [plane EXCEPT ![p] = pl]
            /\ env' = [env EXCEPT ![p] = ArmEnv(env[p], pl, conf[p].mode)]
      BY <1>3 DEF ArmFixture, InitPlane
    <2>2. /\ plane'[p] = pl /\ env'[p] = ArmEnv(env[p], pl, conf[p].mode)
          /\ pc'[p] = "ready" /\ conf'[p] = conf[p]
          /\ frozen'[p] = None /\ loaded'[p] = None
      BY <1>3, <1>a, <2>1 DEF ArmFixture, InitPlane, TypeOK, Agree
    <2>3. pl # None /\ conf[p].kind # "stock"
      BY <1>3, <1>a, <1>p DEF ArmFixture, InitPlane, Agree
    <2>6. Agree(p)'
      <3>1. CASE env[p].plugin
        BY <1>e, <1>a, <2>2, <2>3, <3>1, ArmAgrees DEF Agree, LayoutOf
      <3>2. CASE ~env[p].plugin
        BY <1>a, <2>2, <2>3, <3>2 DEF Agree, ArmEnv
      <3> QED BY <3>1, <3>2
    <2> QED BY <1>3, <1>c, <2>6 DEF ArmFixture, InitPlane
  <1>4. CASE Register(p)
    <2>1. /\ env'[p] = PreArmEnv(env[p], conf[p]) /\ conf'[p] = conf[p]
          /\ pc'[p] = "registered" /\ plane'[p] = plane[p]
          /\ frozen'[p] = None /\ loaded'[p] = None
          /\ conf[p].kind # "stock"
      BY <1>4, <1>a DEF Register, TypeOK, Agree
    <2>2. /\ env'[p].ti => conf[p].ti
          /\ env'[p].oi => conf[p].oi
          /\ ~env'[p].plugin => env'[p].ws = Stock
      <3>1. CASE env[p].plugin
        <4>1. /\ env'[p].ti = (conf[p].ti \/ env[p].ti)
              /\ env'[p].oi = (FALSE \/ env[p].oi)
              /\ env'[p].plugin
          BY <2>1, <3>1 DEF PreArmEnv, BakeEnv
        <4> QED BY <1>a, <1>e, <4>1 DEF Agree
      <3>2. CASE ~env[p].plugin
        BY <1>a, <2>1, <3>2 DEF PreArmEnv, Agree
      <3> QED BY <3>1, <3>2
    <2> QED BY <1>4, <1>c, <2>1, <2>2 DEF Agree, Register
  <1>5. CASE InitFails(p)
    <2>1. /\ env'[p] = Popped /\ conf'[p] = conf[p] /\ pc'[p] = "ready"
          /\ frozen'[p] = None /\ loaded'[p] = None
      BY <1>5, <1>a DEF InitFails, PoppedEnv, TypeOK, Agree
    <2> QED BY <1>5, <1>c, <2>1 DEF Agree, Popped, InitFails
  <1>6. CASE RetryPlane(p)
    <2>1. ~env[p].plugin /\ env[p].ws = Stock
      BY <1>6, <1>a DEF RetryPlane, Agree
    <2>2. env'[p] = env[p]
      BY <1>6, <2>1 DEF RetryPlane, ArmEnv, TypeOK
    <2>3. /\ conf'[p] = conf[p] /\ pc'[p] = pc[p]
          /\ frozen'[p] = frozen[p] /\ loaded'[p] = loaded[p]
      BY <1>6 DEF RetryPlane
    <2> QED BY <1>6, <1>a, <1>c, <2>1, <2>2, <2>3 DEF Agree, RetryPlane
  <1>7. CASE Import(p)
    <2>1. /\ frozen'[p] = env[p].ws /\ loaded'[p] = None /\ pc[p] = "ready"
          /\ env'[p] = env[p] /\ conf'[p] = conf[p] /\ pc'[p] = pc[p]
          /\ plane'[p] = plane[p]
      BY <1>7, <1>a DEF Import, MayImport, TypeOK, Agree
    <2>2. env[p].ws # None
      BY <1>e, CacheAssumption DEF Envs, CacheAssumption
    <2> QED BY <1>7, <1>a, <1>c, <2>1, <2>2 DEF Agree, LayoutOf, Import
  <1>8. CASE LoadCached(p)
    <2>1. cache[frozen[p]] = frozen[p]
      BY <1>8 DEF LoadCached, DirsHoldTheirKey, TypeOK
    <2>2. /\ loaded'[p] = frozen[p] /\ frozen'[p] = frozen[p]
          /\ env'[p] = env[p] /\ conf'[p] = conf[p] /\ pc'[p] = pc[p]
          /\ plane'[p] = plane[p] /\ frozen[p] # None
      BY <1>8, <2>1 DEF LoadCached, TypeOK
    <2> QED BY <1>8, <1>a, <1>c, <2>2 DEF Agree, LayoutOf, LoadCached
  <1>9. CASE CompileKernel(p)
    <2>1. Compiled(env[p], conf[p].mode) = frozen[p]
      BY <1>9, <1>a, CompiledAgrees DEF CompileKernel, Agree
    <2>2. /\ cache' = [cache EXCEPT ![frozen[p]] = frozen[p]]
          /\ loaded'[p] = frozen[p] /\ frozen'[p] = frozen[p]
          /\ env'[p] = env[p] /\ conf'[p] = conf[p] /\ pc'[p] = pc[p]
          /\ plane'[p] = plane[p] /\ frozen[p] # None
      BY <1>9, <2>1 DEF CompileKernel, TypeOK
    <2>3. DirsHoldTheirKey'
      BY <2>2 DEF DirsHoldTheirKey, TypeOK
    <2>4. Agree(p)'
      BY <1>a, <2>2 DEF Agree, LayoutOf
    <2> QED BY <2>3, <2>4
  <1>10. CASE Exit(p)
    <2>1. /\ env'[p] = Popped /\ pc'[p] = "dead"
          /\ frozen'[p] = None /\ loaded'[p] = None
      BY <1>10 DEF Exit, TypeOK
    <2>2. /\ ~env'[p].ti /\ ~env'[p].oi /\ env'[p].ws = Stock
      BY <2>1 DEF Popped
    <2>3. Agree(p)'
      BY <2>1, <2>2 DEF Agree
    <2> QED BY <1>10, <1>c, <2>3 DEF Exit
  <1> QED BY <1>2, <1>3, <1>4, <1>5, <1>6, <1>7, <1>8, <1>9, <1>10 DEF Step

(* A step of any process preserves the invariant. *)
LEMMA CacheStep ==
  ASSUME ~EarlyImport, CacheInv, [Next]_vars
  PROVE  CacheInv'
  <1>1. TypeOK'
    BY TypeStep DEF CacheInv
  <1>2. CASE UNCHANGED vars
    BY <1>1, <1>2 DEF CacheInv, vars, AgreeInv, Agree, LayoutOf,
                      DirsHoldTheirKey
  <1>3. ASSUME NEW p \in Procs, Step(p)
        PROVE  AgreeInv' /\ DirsHoldTheirKey'
    <2>1. Agree(p)' /\ DirsHoldTheirKey'
      BY <1>3, ActorAgrees
    <2>2. ASSUME NEW q \in Procs, q # p
          PROVE  Agree(q)'
      <3>1. /\ pc'[q] = pc[q] /\ conf'[q] = conf[q] /\ env'[q] = env[q]
            /\ plane'[q] = plane[q] /\ frozen'[q] = frozen[q]
            /\ loaded'[q] = loaded[q]
        BY <1>3, <2>2 DEF CacheInv, TypeOK, Step, Start, ArmFixture, Register,
                    InitPlane, InitFails, RetryPlane, Import, LoadCached,
                    CompileKernel, Exit
      <3>2. Agree(q)
        BY DEF CacheInv, AgreeInv
      <3> QED BY <3>1, <3>2, OthersAgree
    <2> QED BY <2>1, <2>2 DEF AgreeInv
  <1> QED BY <1>1, <1>2, <1>3 DEF CacheInv, Next

(* The invariant holds if FlashInfer is never imported early. *)
LEMMA CacheInvariant == ~EarlyImport => (Spec => []CacheInv)
  <1>1. Init => CacheInv
    <2>1. Init => TypeOK
      BY EnvTypes, SomeConfig DEF Init, TypeOK
    <2>2. Init => AgreeInv /\ DirsHoldTheirKey
      BY DEF Init, AgreeInv, Agree, Popped, DirsHoldTheirKey
    <2> QED BY <2>1, <2>2 DEF CacheInv
  <1>2. ~EarlyImport /\ CacheInv /\ [Next]_vars => CacheInv'
    BY CacheStep
  <1>3. CASE ~EarlyImport
    <2>1. CacheInv /\ [Next]_vars => CacheInv'
      BY <1>2, <1>3
    <2> QED BY <1>1, <2>1, PTL DEF Spec
  <1>4. CASE EarlyImport
    BY <1>4
  <1> QED BY <1>3, <1>4

(* No process loads a woven kernel that is not one for its plane, whoever   *)
(* compiled it and whatever address the arena was given.                    *)
THEOREM KernelsAlwaysMatch == ~EarlyImport => (Spec => []KernelsMatchPlane)
  <1>1. CacheInv => KernelsMatchPlane
    <2> SUFFICES ASSUME CacheInv, NEW p \in Procs, Woven(loaded[p])
                 PROVE  Matches(loaded[p], p)
      BY DEF KernelsMatchPlane
    <2>1. Agree(p)
      BY DEF CacheInv, AgreeInv
    <2>2. loaded[p] # None /\ loaded[p] # Stock
      BY CacheAssumption DEF Woven, CacheAssumption, Dirs
    <2>3. loaded[p] = env[p].ws /\ pc[p] = "ready"
      BY <2>1, <2>2 DEF Agree
    <2>4. plane[p] # None /\ loaded[p] = LayoutOf(p)
      BY <2>1, <2>2, <2>3 DEF Agree
    <2> QED BY <2>4 DEF Matches, LayoutOf
  <1> QED BY <1>1, CacheInvariant, PTL

(* Plane, environment and directory of a process are of one layout from the *)
(* arming on, init hooks that fail and retries included.                    *)
THEOREM LayoutsAgree == ~EarlyImport => (Spec => []AgreeInv)
  <1>1. CacheInv => AgreeInv
    BY DEF CacheInv
  <1> QED BY <1>1, CacheInvariant, PTL

(* No unwoven kernel waits in the directory of an armed process.            *)
THEOREM ArmedGetsWoven == ~EarlyImport => (Spec => []ArmedIsWoven)
  <1>1. CacheInv => ArmedIsWoven
    BY DEF CacheInv, AgreeInv, Agree, ArmedIsWoven, Woven
  <1> QED BY <1>1, CacheInvariant, PTL

(* An armed process's kernels are woven, and no directory lies: what is     *)
(* baked is only ever compiled into the cache keyed by it.                  *)
THEOREM CacheNeverLies ==
  ~EarlyImport =>
    (Spec => [](ArmedIsWoven /\ DirsHoldTheirKey /\ BakedUnderOwnBase))
  <1>1. CacheInv => ArmedIsWoven
    BY DEF CacheInv, AgreeInv, Agree, ArmedIsWoven, Woven
  <1>2. CacheInv => DirsHoldTheirKey /\ BakedUnderOwnBase
    <2>1. ASSUME CacheInv, NEW d \in Dirs, Woven(cache[d])
          PROVE  d # Stock /\ d.base = cache[d].base
      <3>1. cache[d] # None /\ cache[d] # Stock
        BY <2>1, CacheAssumption DEF Woven, CacheAssumption, Dirs
      <3>2. cache[d] = d
        BY <2>1, <3>1 DEF CacheInv, DirsHoldTheirKey
      <3> QED BY <3>1, <3>2
    <2> QED BY <2>1 DEF BakedUnderOwnBase, CacheInv
  <1>3. CacheInv => ArmedIsWoven /\ DirsHoldTheirKey /\ BakedUnderOwnBase
    BY <1>1, <1>2
  <1> QED BY <1>3, CacheInvariant, PTL
=============================================================================
