--------------------------- MODULE WorkQueue_proofs ---------------------------
(***************************************************************************)
(* What holds of the claim loop for every grid, table size, claim mode and *)
(* behaviour of the host, rewrites of the plane mid-launch included.       *)
(***************************************************************************)
EXTENDS WorkQueue, Lemmas

USE QueueAssumption DEF QueueAssumption

(* Counting one more service keeps the counters in their range.             *)
LEMMA HitType ==
  ASSUME NEW S, NEW h \in [S -> 0 .. 2], NEW t
  PROVE  [h EXCEPT ![t] = IF @ = 0 THEN 1 ELSE 2] \in [S -> 0 .. 2]
  <1> DEFINE k == [h EXCEPT ![t] = IF @ = 0 THEN 1 ELSE 2]
  <1>1. \A s \in S : k[s] \in 0 .. 2
    <2> TAKE s \in S
    <2>1. CASE s = t
      BY <2>1
    <2>2. CASE s # t
      BY <2>2
    <2> QED BY <2>1, <2>2
  <1>2. DOMAIN k = S /\ k = [s \in S |-> k[s]]
    OBVIOUS
  <1> HIDE DEF k
  <1>3. k \in [S -> 0 .. 2]
    BY <1>1, <1>2
  <1> QED BY <1>3 DEF k

(* What the host writes, through either interface, is a well-typed plane.   *)
LEMMA PlaneType ==
  ASSUME TypeOK, PrepareRuntime \/ PreparePlane
  PROVE  /\ table' \in [Tiles(MaxTasks) -> Tiles(MaxTasks)]
         /\ unstamped' \in 0 .. MaxTasks
         /\ mirror' \in CtrlBlock
  <1>1. ASSUME NEW n \in 0 .. MaxTasks,
               NEW f \in [Tiles(MaxTasks) -> Tiles(MaxTasks)],
               NEW len \in 0 .. MaxTasks, NEW size \in 0 .. MaxTasks,
               NEW tasks \in 0 .. MaxTasks, Prepare(n, f, len, size, tasks)
        PROVE  /\ table' \in [Tiles(MaxTasks) -> Tiles(MaxTasks)]
               /\ unstamped' \in 0 .. MaxTasks
               /\ mirror' \in CtrlBlock
    <2>1. table' \in [Tiles(MaxTasks) -> Tiles(MaxTasks)]
      BY <1>1, OverwriteType DEF Prepare, TypeOK
    <2>2. unstamped' \in 0 .. MaxTasks /\ mirror' \in CtrlBlock
      BY <1>1 DEF Prepare, CtrlBlock
    <2> QED BY <2>1, <2>2
  <1>2. CASE PrepareRuntime
    <2> PICK n \in 1 .. MaxTasks : \E f \in Orders(MaxTasks, n) :
               \E size \in {0, n}, tasks \in {0, n} :
                 Prepare(n, f, MaxTasks, size, tasks)
      BY <1>2 DEF PrepareRuntime
    <2> PICK f \in Orders(MaxTasks, n) :
               \E size \in {0, n}, tasks \in {0, n} :
                 Prepare(n, f, MaxTasks, size, tasks)
      OBVIOUS
    <2> PICK size \in {0, n}, tasks \in {0, n} :
               Prepare(n, f, MaxTasks, size, tasks)
      OBVIOUS
    <2>1. f \in [Tiles(MaxTasks) -> Tiles(MaxTasks)]
      BY DEF Orders
    <2> QED BY <1>1, <2>1
  <1>3. CASE PreparePlane
    <2>0. \A n \in 0 .. MaxTasks : InArena(n) \in 0 .. MaxTasks
      BY DEF InArena
    <2>1. CASE Prepare(0, Identity(MaxTasks), InArena(MaxTasks), 0, 0)
      <3>1. Identity(MaxTasks) \in [Tiles(MaxTasks) -> Tiles(MaxTasks)]
        BY DEF Identity
      <3> QED BY <1>1, <2>0, <2>1, <3>1
    <2>2. CASE \E n \in 1 .. MaxTasks : \E f \in Orders(MaxTasks, n) :
                 \E tasks \in {0, n} : Prepare(n, f, InArena(n), n, tasks)
      <3> PICK n \in 1 .. MaxTasks : \E f \in Orders(MaxTasks, n) :
                 \E tasks \in {0, n} : Prepare(n, f, InArena(n), n, tasks)
        BY <2>2
      <3> PICK f \in Orders(MaxTasks, n) :
                 \E tasks \in {0, n} : Prepare(n, f, InArena(n), n, tasks)
        OBVIOUS
      <3> PICK tasks \in {0, n} : Prepare(n, f, InArena(n), n, tasks)
        OBVIOUS
      <3>1. f \in [Tiles(MaxTasks) -> Tiles(MaxTasks)]
        BY DEF Orders
      <3>2. InArena(n) \in 0 .. MaxTasks
        BY <2>0
      <3> QED BY <1>1, <3>1, <3>2
    <2> QED BY <1>3, <2>1, <2>2 DEF PreparePlane
  <1> QED BY <1>2, <1>3

(* Preparing a step touches no block, no counter and nothing published.     *)
LEMMA PrepareFrame ==
  ASSUME PrepareRuntime \/ PreparePlane
  PROVE  UNCHANGED <<mode, channel, ctrl, queue, grid, dynamic, tiles, state,
                     ntasks, raw, entry, hits>>
  BY DEF PrepareRuntime, PreparePlane, Prepare, launchVars, ctaVars

(* TypeOK is inductive, given which blocks hold a raw id. *)
LEMMA TypeStep == TypeOK /\ HoldsRaw /\ [Next]_vars => TypeOK'
  <1> SUFFICES ASSUME TypeOK, HoldsRaw, [Next]_vars PROVE TypeOK'
    OBVIOUS
  <1> USE DEF Blocks, Tasks
  <1>1. CASE PrepareRuntime \/ PreparePlane
    BY <1>1, PlaneType, PrepareFrame DEF TypeOK
  <1>2. CASE PushCtrl
    BY <1>2 DEF TypeOK, PushCtrl, launchVars, ctaVars
  <1>3. CASE \E g \in 1 .. MaxGrid, d \in BOOLEAN : Launch(g, d)
    <2> PICK g \in 1 .. MaxGrid, d \in BOOLEAN : Launch(g, d)
      BY <1>3
    <2>1. tiles' \in Nat /\ queue' \in Nat
      BY DEF Launch, Primed, TilesOf, TypeOK, CtrlBlock
    <2>2. state' \in [Blocks -> States]
      BY DEF Launch, States
    <2> QED BY <2>1, <2>2 DEF TypeOK, Launch, hostVars
  <1>4. CASE \E b \in Blocks : Enter(b)
    BY <1>4 DEF TypeOK, Enter, hostVars, launchVars, States
  <1>5. CASE \E b \in Blocks : ReadTasks(b)
    <2> PICK b \in Blocks : ReadTasks(b)
      BY <1>5
    <2>1. ntasks' \in [Blocks -> 0 .. MaxTasks]
      BY DEF ReadTasks, TypeOK, CtrlBlock
    <2>2. state' \in [Blocks -> States]
      BY DEF ReadTasks, TypeOK, States
    <2>3. raw' \in [Blocks -> Tasks \cup {Nothing}]
      BY DEF ReadTasks, TypeOK
    <2> QED BY <2>1, <2>2, <2>3 DEF TypeOK, ReadTasks, hostVars, launchVars
  <1>6. CASE \E b \in Blocks : LoadEntry(b)
    <2> PICK b \in Blocks : LoadEntry(b)
      BY <1>6
    <2>1. raw[b] \in Tiles(MaxTasks)
      BY DEF LoadEntry, HoldsRaw, TypeOK, Tiles
    <2>2. entry' \in [Blocks -> Tiles(MaxTasks) \cup {Nothing}]
      BY <2>1 DEF LoadEntry, TypeOK
    <2> QED BY <2>2 DEF TypeOK, LoadEntry, hostVars, launchVars, States
  <1>7. CASE \E b \in Blocks : Serve(b)
    <2> PICK b \in Blocks : Serve(b)
      BY <1>7
    <2>1. hits' \in [Tasks -> 0 .. 2]
      BY HitType DEF Serve, TypeOK
    <2>2. state' \in [Blocks -> States]
      BY DEF Serve, TypeOK, States
    <2>3. /\ raw' \in [Blocks -> Tasks \cup {Nothing}]
          /\ entry' \in [Blocks -> Tiles(MaxTasks) \cup {Nothing}]
      BY DEF Serve, TypeOK
    <2> QED BY <2>1, <2>2, <2>3 DEF TypeOK, Serve, hostVars, launchVars
  <1>8. CASE \E b \in Blocks : ClaimTicket(b)
    <2> PICK b \in Blocks : ClaimTicket(b)
      BY <1>8
    <2>1. raw' \in [Blocks -> Tasks \cup {Nothing}]
      BY DEF ClaimTicket, Continue, Done, TypeOK, Tiles
    <2>2. state' \in [Blocks -> States]
      BY DEF ClaimTicket, Continue, Done, TypeOK, States
    <2> QED BY <2>1, <2>2 DEF TypeOK, ClaimTicket, Continue, hostVars, launchVars
  <1>9. CASE \E b \in Blocks : ClaimCLC(b)
    <2> PICK b \in Blocks : ClaimCLC(b)
      BY <1>9
    <2>1. raw' \in [Blocks -> Tasks \cup {Nothing}]
      <3>1. CASE \E c \in Blocks : Continue(b, c, {c})
        BY <3>1 DEF Continue, Done, TypeOK
      <3>2. CASE Continue(b, Fallback(b), {})
        <4>1. Fallback(b) >= ntasks[b]
          BY DEF Fallback, TypeOK
        <4> QED BY <3>2, <4>1 DEF Continue, Done, TypeOK
      <3> QED BY <3>1, <3>2 DEF ClaimCLC
    <2>2. state' \in [Blocks -> States]
      BY DEF ClaimCLC, Continue, Done, TypeOK, States
    <2> QED BY <2>1, <2>2 DEF TypeOK, ClaimCLC, Continue, hostVars, launchVars
  <1>10. CASE Finish
    BY <1>10 DEF TypeOK, Finish, hostVars
  <1>11. CASE UNCHANGED vars
    BY <1>11 DEF TypeOK, vars, hostVars, launchVars, ctaVars
  <1> QED BY <1>1, <1>2, <1>3, <1>4, <1>5, <1>6, <1>7, <1>8, <1>9, <1>10, <1>11
          DEF Next, Host, Worker

(* QueueInv is inductive, whatever the host does. *)
LEMMA QueueStep == TypeOK /\ QueueInv /\ [Next]_vars => QueueInv'
  <1> SUFFICES ASSUME TypeOK, QueueInv, [Next]_vars PROVE QueueInv'
    OBVIOUS
  <1> USE DEF QueueInv, HoldsRaw, RawOwnedOnce, Idle
  <1>1. CASE PrepareRuntime \/ PreparePlane \/ PushCtrl \/ UNCHANGED vars
    BY <1>1, PrepareFrame DEF PushCtrl, launchVars, ctaVars, vars
  <1>2. CASE \E g \in 1 .. MaxGrid, d \in BOOLEAN : Launch(g, d)
    <2> PICK g \in 1 .. MaxGrid, d \in BOOLEAN : Launch(g, d)
      BY <1>2
    <2>1. \A b \in Blocks : raw'[b] = Nothing /\ state'[b] \in {"pending", "gone"}
      BY DEF Launch
    <2>2. grid' # 0
      BY DEF Launch
    <2>3. mode' = "ticket" => \A b \in Blocks : state'[b] # "gone" => b < queue'
      BY DEF Launch, Primed
    <2> QED BY <2>1, <2>2, <2>3
  <1>3. CASE \E b \in Blocks : Enter(b)
    BY <1>3 DEF Enter, TypeOK, hostVars, launchVars
  <1>4. CASE \E b \in Blocks : ReadTasks(b)
    <2> PICK b \in Blocks : ReadTasks(b)
      BY <1>4
    <2>1. b # Nothing
      BY DEF Blocks, Tiles, Nothing
    <2>2. UNCHANGED <<mode, queue, grid>>
      BY DEF ReadTasks, launchVars
    <2>3. \A c \in Blocks \ {b} : raw'[c] = raw[c] /\ state'[c] = state[c]
      BY DEF ReadTasks, TypeOK
    <2>4. /\ state[b] = "entered"
          /\ \/ state'[b] = "gone" /\ raw'[b] = raw[b]
             \/ state'[b] = "mapping" /\ raw'[b] = b
      BY DEF ReadTasks, TypeOK
    <2> QED BY <2>1, <2>2, <2>3, <2>4
  <1>5. CASE \E b \in Blocks : LoadEntry(b)
    BY <1>5 DEF LoadEntry, TypeOK, launchVars
  <1>6. CASE \E b \in Blocks : Serve(b)
    BY <1>6 DEF Serve, TypeOK, launchVars
  <1>7. CASE \E b \in Blocks : ClaimTicket(b)
    <2> PICK b \in Blocks : ClaimTicket(b)
      BY <1>7
    <2>1. /\ mode = "ticket" /\ queue' = queue + 1 /\ queue \in Nat
          /\ state[b] = "claiming" /\ UNCHANGED <<mode, grid>>
      BY DEF ClaimTicket, Continue, Done, TypeOK, launchVars
    <2>2. \A c \in Blocks \ {b} : raw'[c] = raw[c] /\ state'[c] = state[c]
      BY DEF ClaimTicket, Continue, Done, TypeOK
    <2>3. \/ state'[b] = "gone" /\ raw'[b] = Nothing
          \/ state'[b] = "mapping" /\ raw'[b] = queue
      BY DEF ClaimTicket, Continue, Done, TypeOK
    <2>4. \A c \in Blocks : raw[c] # Nothing => raw[c] \in Nat /\ raw[c] < queue
      BY <2>1 DEF TypeOK, Tasks, Tiles
    <2>5. \A c \in Blocks : c \in Nat
      BY DEF Blocks, Tiles
    <2> QED BY <2>1, <2>2, <2>3, <2>4, <2>5 DEF Nothing
  <1>8. CASE \E b \in Blocks : ClaimCLC(b)
    <2> PICK b \in Blocks : ClaimCLC(b)
      BY <1>8
    <2>1. /\ mode = "clc" /\ state[b] = "claiming"
          /\ UNCHANGED <<mode, grid, queue>>
      BY DEF ClaimCLC, Continue, launchVars
    <2>2. CASE \E c \in Blocks : state[c] = "pending" /\ Continue(b, c, {c})
      <3> PICK c \in Blocks : state[c] = "pending" /\ Continue(b, c, {c})
        BY <2>2
      <3>1. /\ \A d \in Blocks \ {b} : raw'[d] = raw[d]
            /\ \A d \in Blocks \ {b, c} : state'[d] = state[d]
            /\ state'[c] = "gone"
        BY <2>1 DEF Continue, Done, TypeOK
      <3>2. \/ state'[b] = "gone" /\ raw'[b] = Nothing
            \/ state'[b] = "mapping" /\ raw'[b] = c
        BY <2>1 DEF Continue, Done, TypeOK
      <3>3. c # Nothing
        BY DEF Blocks, Tiles, Nothing
      <3> QED BY <2>1, <3>1, <3>2, <3>3
    <2>3. CASE Continue(b, Fallback(b), {})
      <3>1. Fallback(b) >= ntasks[b]
        BY DEF Fallback, TypeOK
      <3>2. /\ \A d \in Blocks \ {b} : raw'[d] = raw[d] /\ state'[d] = state[d]
            /\ state'[b] = "gone" /\ raw'[b] = Nothing
        BY <2>3, <3>1 DEF Continue, Done, TypeOK
      <3> QED BY <2>1, <3>2
    <2> QED BY <2>2, <2>3 DEF ClaimCLC
  <1>9. CASE Finish
    BY <1>9 DEF Finish
  <1> QED BY <1>1, <1>2, <1>3, <1>4, <1>5, <1>6, <1>7, <1>8, <1>9
          DEF Next, Host, Worker

(* Before the first launch no raw id is owned.                              *)
LEMMA QueueInit == Init => TypeOK /\ QueueInv
  <1> SUFFICES ASSUME Init PROVE TypeOK /\ QueueInv
    OBVIOUS
  <1>1. table \in [Tiles(MaxTasks) -> Tiles(MaxTasks)]
    BY DEF Init, FirstTables
  <1>2. mirror \in CtrlBlock /\ ctrl \in CtrlBlock
    BY DEF Init, CtrlBlock
  <1>3. hits \in [Tasks -> 0 .. 2] /\ ntasks \in [Blocks -> 0 .. MaxTasks]
    BY DEF Init
  <1>4. /\ entry \in [Blocks -> Tiles(MaxTasks) \cup {Nothing}]
        /\ raw \in [Blocks -> Tasks \cup {Nothing}]
    BY DEF Init
  <1>5. QueueInv
    BY DEF Init, QueueInv, HoldsRaw, RawOwnedOnce
  <1>6. state \in [Blocks -> States] /\ dynamic \in BOOLEAN
    BY DEF Init, States
  <1>7. unstamped \in 0 .. MaxTasks /\ grid \in 0 .. MaxGrid
    BY DEF Init
  <1>8. TypeOK
    BY <1>1, <1>2, <1>3, <1>4, <1>6, <1>7 DEF Init, TypeOK
  <1> QED BY <1>5, <1>8

(* Types and ownership are preserved together: a worker is typed because it *)
(* holds the raw id it maps.                                                *)
LEMMA QueueCorrect == Spec => [](TypeOK /\ QueueInv)
  <1>1. QueueInv => HoldsRaw
    BY DEF QueueInv
  <1> QED BY <1>1, QueueInit, TypeStep, QueueStep, PTL DEF Spec

(* The driver and its host are type correct in every configuration. *)
THEOREM QueueTypeCorrect == Spec => []TypeOK
  BY QueueCorrect, PTL

(* Holding, ownership and the counter stay as the claim loop needs them:    *)
(* between launches no block is left over, and the counter is past the id   *)
(* of every block of the launch.                                            *)
THEOREM QueueInvariant == Spec => []QueueInv
  BY QueueCorrect, PTL

(* Each raw id has at most one owner, in both claim modes, for every grid,  *)
(* and however the host rewrites the plane while the launch executes.       *)
THEOREM RawIdsOwnedOnce == Spec => []RawOwnedOnce
  <1>1. QueueInv => RawOwnedOnce
    BY DEF QueueInv
  <1> QED BY <1>1, QueueCorrect, PTL

-----------------------------------------------------------------------------
(***************************************************************************)
(* The host that waits (~Rearm) and goes through the C API: the plane is   *)
(* then fixed while a launch executes, and every raw id a launch still has *)
(* to serve is accounted for.                                              *)
(***************************************************************************)

(* The task a raw id of the executing launch stands for. *)
TaskFor(r) == Target(table, ctrl.size, r, ctrl.tasks)

(* The snapshot of num_tasks every block of the launch takes. *)
Bound == IF dynamic THEN ctrl.tasks ELSE 0

(* How many tasks the order in the table is for. *)
Prepared == IF mirror.size # 0 THEN mirror.size ELSE unstamped

(* The table is an order of as many tasks as the words beside it say. *)
Described ==
  /\ table \in Orders(MaxTasks, Prepared)
  /\ mirror.tasks \in {0, Prepared}

(* What the launch site established stays so while the launch executes; a   *)
(* counter that still has ids to issue has every worker of the launch left. *)
LaunchKept ==
  ~Idle =>
    /\ ctrl = mirror
    /\ tiles = TilesOf(grid, dynamic)
    /\ ctrl.tasks # 0 =>
         IF mode = "ticket" /\ dynamic THEN grid <= ctrl.tasks
                                       ELSE grid >= ctrl.tasks
    /\ mode = "ticket" => queue >= grid
    /\ mode = "ticket" /\ queue < tiles =>
         \A b \in Tiles(grid) : state[b] # "gone"

(* What each block carries agrees with the launch it belongs to. *)
BlocksKept ==
  \A b \in Blocks :
    /\ state[b] # "gone" => b < grid
    /\ state[b] \in {"mapping", "loaded", "claiming"} => ntasks[b] = Bound
    /\ state[b] = "claiming" => Bound # 0
    /\ raw[b] # Nothing => raw[b] < tiles
    /\ state[b] = "loaded" => raw[b] < MaxTasks /\ entry[b] = table[raw[b]]
    /\ state[b] # "loaded" => entry[b] = Nothing

(* A raw id not served yet: its block may still run it, a worker holds it,  *)
(* or the counter has yet to issue it.                                      *)
Undone(r) ==
  \/ r \in Blocks /\ state[r] \in {"pending", "entered"}
  \/ \E b \in Blocks : raw[b] = r
  \/ mode = "ticket" /\ r >= queue

(* The counters say which raw ids are done, and nothing else.               *)
Counted ==
  /\ \A r \in Tiles(tiles) : hits[TaskFor(r)] = IF Undone(r) THEN 0 ELSE 1
  /\ \A t \in Tasks : t >= tiles => hits[t] = 0
  /\ Idle => tiles = 0

StaticInv == Described /\ LaunchKept /\ BlocksKept /\ Counted

(* The host of these theorems waits for a launch before it prepares the     *)
(* next, and installs whole tables through the C API.                       *)
Waits == ~Rearm /\ Api = "runtime"

(* The remap is a bijection of the tasks of the executing launch.           *)
Permuted ==
  /\ tiles \in Nat \ {0} /\ Tiles(tiles) \subseteq Tasks
  /\ Bound # 0 => tiles = Bound
  /\ \A r \in Tiles(tiles) : TaskFor(r) \in Tiles(tiles)
  /\ \A r, q \in Tiles(tiles) : TaskFor(r) = TaskFor(q) => r = q
  /\ \A t \in Tiles(tiles) : \E r \in Tiles(tiles) : TaskFor(r) = t

(* A launch whose plane says what its table is for permutes its tasks.      *)
LEMMA TasksPermuted ==
  TypeOK /\ Described /\ LaunchKept /\ ~Idle => Permuted
  <1> SUFFICES ASSUME TypeOK, Described, LaunchKept, ~Idle
               PROVE  Permuted
    OBVIOUS
  <1>1. /\ tiles \in Nat \ {0} /\ ctrl.tasks <= tiles /\ ctrl.tasks \in Nat
        /\ Bound # 0 => tiles = Bound
    BY DEF LaunchKept, TilesOf, TypeOK, CtrlBlock, Idle, Bound
  <1>2. Tiles(tiles) \subseteq Tasks
    BY <1>1 DEF LaunchKept, TilesOf, TypeOK, CtrlBlock, Tasks, Tiles
  <1>3. /\ Prepared \in 0 .. MaxTasks
        /\ ctrl.size \in {0, Prepared} /\ ctrl.tasks \in {0, Prepared}
    BY DEF LaunchKept, Described, Prepared, TypeOK, CtrlBlock
  <1>4. table \in Orders(MaxTasks, Prepared)
    BY DEF Described
  <1>5. /\ \A r \in Tiles(tiles) : TaskFor(r) \in Tiles(tiles)
        /\ \A r, q \in Tiles(tiles) : TaskFor(r) = TaskFor(q) => r = q
    BY <1>1, <1>3, <1>4, OrderedTargetInjective DEF TaskFor
  <1> DEFINE T == [r \in Tiles(tiles) |-> TaskFor(r)]
  <1>6. T \in [Tiles(tiles) -> Tiles(tiles)] /\ InjectiveOn(T, Tiles(tiles))
    BY <1>5 DEF InjectiveOn
  <1> HIDE DEF T
  <1>7. {T[r] : r \in Tiles(tiles)} = Tiles(tiles)
    BY <1>1, <1>6, InjectiveCovers
  <1>8. \A t \in Tiles(tiles) : \E r \in Tiles(tiles) : TaskFor(r) = t
    BY <1>7 DEF T
  <1> QED BY <1>1, <1>2, <1>5, <1>8 DEF Permuted

(* While a launch executes and its plane stands, what must still be shown   *)
(* of a worker's step is that its ids stay accounted for.                   *)
LEMMA CountedKept ==
  ASSUME Counted, UNCHANGED <<table, ctrl, tiles, hits, grid>>,
         \A r \in Tiles(tiles) : Undone(r)' <=> Undone(r)
  PROVE  Counted'
  <1>1. \A r : TaskFor(r)' = TaskFor(r)
    BY DEF TaskFor
  <1> QED BY <1>1 DEF Counted, Idle

(* The host prepares and pushes between launches only.                      *)
LEMMA StaticHost ==
  ASSUME Waits, TypeOK, QueueInv, StaticInv,
         PrepareRuntime \/ PreparePlane \/ PushCtrl
  PROVE  StaticInv'
  <1>1. Idle /\ Idle' /\ tiles' = 0
    BY PrepareFrame DEF Waits, PrepareRuntime, PreparePlane, Prepare, PushCtrl,
       StaticInv, Counted, Idle, launchVars
  <1>2. Described'
    <2>1. CASE PushCtrl
      BY <2>1 DEF PushCtrl, StaticInv, Described, Prepared
    <2>2. CASE PrepareRuntime
      <3> PICK n \in 1 .. MaxTasks : \E f \in Orders(MaxTasks, n) :
                 \E size \in {0, n}, tasks \in {0, n} :
                   Prepare(n, f, MaxTasks, size, tasks)
        BY <2>2 DEF PrepareRuntime
      <3> PICK f \in Orders(MaxTasks, n) :
                 \E size \in {0, n}, tasks \in {0, n} :
                   Prepare(n, f, MaxTasks, size, tasks)
        OBVIOUS
      <3> PICK size \in {0, n}, tasks \in {0, n} :
                 Prepare(n, f, MaxTasks, size, tasks)
        OBVIOUS
      <3>1. Overwrite(table, f, MaxTasks) = f
        BY DEF Overwrite, Orders, TypeOK, Tiles
      <3>2. Prepared' = n /\ mirror'.tasks \in {0, n}
        BY DEF Prepare, Prepared
      <3> QED BY <3>1, <3>2 DEF Described, Prepare
    <2>3. CASE PreparePlane
      BY <2>3 DEF PreparePlane, Waits
    <2> QED BY <2>1, <2>2, <2>3
  <1>3. UNCHANGED <<mode, queue, grid, dynamic, tiles, state, ntasks, raw,
                    entry, hits>>
    BY PrepareFrame DEF PushCtrl, launchVars, ctaVars
  <1>4. \A b \in Blocks : state[b] = "gone" /\ raw[b] = Nothing
    BY <1>1 DEF QueueInv, HoldsRaw
  <1>5. BlocksKept'
    BY <1>3, <1>4 DEF BlocksKept, StaticInv
  <1>6. Counted'
    BY <1>1, <1>3 DEF Counted, StaticInv, Tiles
  <1> QED BY <1>1, <1>2, <1>5, <1>6 DEF StaticInv, LaunchKept

(* At the start of a launch every raw id it owes is undone: its block is    *)
(* pending, or it lies past the primed counter.                             *)
LEMMA StaticLaunch ==
  ASSUME TypeOK, QueueInv, StaticInv,
         NEW g \in 1 .. MaxGrid, NEW d \in BOOLEAN, Launch(g, d)
  PROVE  StaticInv'
  <1>1. /\ UNCHANGED <<mode, table, unstamped, mirror, ctrl, ntasks, raw, entry>>
        /\ grid' = g /\ dynamic' = d /\ tiles' = TilesOf(g, d)
        /\ ctrl = mirror
        /\ ctrl.tasks # 0 =>
             IF mode = "ticket" /\ d THEN g <= ctrl.tasks ELSE g >= ctrl.tasks
        /\ mode = "ticket" => queue' = g
        /\ state' = [b \in Blocks |-> IF b < g THEN "pending" ELSE "gone"]
        /\ hits' = [t \in Tasks |-> 0]
    BY DEF Launch, hostVars, Primed
  <1>2. Described'
    BY <1>1 DEF StaticInv, Described, Prepared
  <1>3. LaunchKept'
    <2>1. \A b \in Tiles(g) : b \in Blocks /\ b < g
      BY DEF Blocks, Tiles
    <2>2. \A b \in Tiles(g) : state'[b] # "gone"
      BY <1>1, <2>1
    <2> QED BY <1>1, <2>2 DEF LaunchKept, TilesOf
  <1>4. \A b \in Blocks : raw[b] = Nothing /\ entry[b] = Nothing
    BY DEF StaticInv, BlocksKept, QueueInv, HoldsRaw, Launch, Idle
  <1>5. BlocksKept'
    BY <1>1, <1>4 DEF BlocksKept
  <1>6. \A r \in Tiles(tiles') : Undone(r)'
    <2> TAKE r \in Tiles(tiles')
    <2>1. CASE r < g
      BY <1>1, <2>1 DEF Undone, Blocks, Tiles
    <2>2. CASE r >= g
      <3>1. mode = "ticket"
        BY <1>1, <2>2 DEF TilesOf, TypeOK, CtrlBlock, Tiles, QueueAssumption
      <3> QED BY <1>1, <2>2, <3>1 DEF Undone
    <2> QED BY <2>1, <2>2 DEF Tiles, TilesOf, TypeOK, CtrlBlock
  <1>7. Counted'
    <2>1. Described' /\ LaunchKept' /\ TypeOK' /\ ~Idle'
      BY <1>1, <1>2, <1>3, TypeStep DEF QueueInv, Next, Host, Idle
    <2>2. Permuted'
      BY <2>1, TasksPermuted, PTL
    <2>3. \A r \in Tiles(tiles') : TaskFor(r)' \in Tasks
      BY <2>2 DEF Permuted
    <2> QED BY <1>1, <1>6, <2>1, <2>3 DEF Counted
  <1> QED BY <1>2, <1>3, <1>5, <1>7 DEF StaticInv


(* Steps that leave the plane and the launch alone keep what they decide.   *)
LEMMA PlaneKept ==
  ASSUME UNCHANGED <<mode, hostVars, launchVars>>
  PROVE  /\ Described => Described'
         /\ Bound' = Bound /\ Idle' = Idle
         /\ \A r : TaskFor(r)' = TaskFor(r)
         /\ \A g, d : TilesOf(g, d)' = TilesOf(g, d)
  BY DEF hostVars, launchVars, Described, Prepared, Bound, TaskFor, TilesOf, Idle

(* A block that is not gone belongs to an executing launch.                 *)
LEMMA ResidentExecutes ==
  ASSUME TypeOK, StaticInv, NEW b \in Blocks, state[b] # "gone"
  PROVE  ~Idle /\ Permuted /\ b < grid
  <1>1. b < grid /\ ~Idle
    BY DEF StaticInv, BlocksKept, TypeOK, Blocks, Tiles, Idle
  <1> QED BY <1>1, TasksPermuted DEF StaticInv

(* Entering, taking the snapshot and loading an entry serve nothing and     *)
(* lose no raw id; a block the entry retires holds none the launch owes.    *)
LEMMA StaticMapping ==
  ASSUME TypeOK, QueueInv, StaticInv, NEW b \in Blocks,
         Enter(b) \/ ReadTasks(b) \/ LoadEntry(b)
  PROVE  StaticInv'
  <1>1. UNCHANGED <<mode, hostVars, launchVars, queue, hits>>
    BY DEF Enter, ReadTasks, LoadEntry
  <1>2. ~Idle /\ Permuted /\ b < grid
    BY ResidentExecutes DEF Enter, ReadTasks, LoadEntry
  <1>3. \A c \in Blocks \ {b} :
          /\ state'[c] = state[c] /\ raw'[c] = raw[c]
          /\ entry'[c] = entry[c] /\ ntasks'[c] = ntasks[c]
    BY DEF Enter, ReadTasks, LoadEntry, TypeOK
  <1>4. ReadTasks(b) => Bound = 0 \/ Bound \in Nat \ {0}
    BY DEF Bound, TypeOK, CtrlBlock
  <1>5. \/ /\ state[b] = "pending" /\ state'[b] = "entered"
           /\ raw'[b] = raw[b] /\ entry'[b] = entry[b]
        \/ /\ state[b] = "entered" /\ state'[b] = "gone"
           /\ raw'[b] = raw[b] /\ entry'[b] = entry[b]
           /\ Bound # 0 /\ b >= Bound
        \/ /\ state[b] = "entered" /\ state'[b] = "mapping"
           /\ raw'[b] = b /\ entry'[b] = entry[b] /\ ntasks'[b] = Bound
           /\ Bound = 0 \/ b < Bound
        \/ /\ state[b] = "mapping" /\ state'[b] = "loaded"
           /\ raw'[b] = raw[b] /\ raw[b] < MaxTasks
           /\ entry'[b] = table[raw[b]] /\ ntasks'[b] = ntasks[b]
    BY DEF Enter, ReadTasks, LoadEntry, TypeOK, Bound
  <1>6. \A r \in Tiles(tiles) : Undone(r)' <=> Undone(r)
    <2> TAKE r \in Tiles(tiles)
    <2>1. r \in Nat /\ r < tiles /\ (Bound # 0 => r < Bound)
      BY <1>2 DEF Permuted, Tiles
    <2>2. raw[b] = Nothing \/ raw'[b] = raw[b]
      BY <1>5 DEF QueueInv, HoldsRaw
    <2>3. r # Nothing /\ b \in Nat /\ Bound \in Nat
      BY <2>1 DEF Nothing, Blocks, Tiles, Bound, TypeOK, CtrlBlock
    <2> QED BY <1>1, <1>3, <1>5, <2>1, <2>2, <2>3 DEF Undone
  <1>7. Counted'
    BY <1>1, <1>6, CountedKept DEF StaticInv, hostVars, launchVars
  <1>8. BlocksKept'
    <2>1. b < tiles \/ Bound # 0
      BY <1>2 DEF StaticInv, LaunchKept, TilesOf, Bound, TypeOK, CtrlBlock
    <2>2. Bound \in Nat /\ b \in Nat /\ raw[b] \in Int
      BY DEF Bound, TypeOK, CtrlBlock, Blocks, Tasks, Tiles, Nothing
    <2>3. raw'[b] # Nothing => raw'[b] < tiles
      BY <1>2, <1>5, <2>1, <2>2 DEF StaticInv, BlocksKept, Permuted
    <2> QED BY <1>1, <1>2, <1>3, <1>5, <2>3, PlaneKept
            DEF StaticInv, BlocksKept, hostVars, launchVars
  <1>9. LaunchKept'
    <2>1. ASSUME mode = "ticket", queue < tiles PROVE state'[b] # "gone"
      <3>1. Bound # 0
        BY <1>2, <2>1 DEF StaticInv, LaunchKept, TilesOf, Bound, TypeOK, CtrlBlock
      <3>2. grid <= Bound /\ grid \in Nat /\ Bound \in Nat /\ b \in Nat
        BY <1>2, <2>1, <3>1 DEF StaticInv, LaunchKept, Bound, TypeOK, CtrlBlock,
           Blocks, Tiles
      <3> QED BY <1>2, <1>5, <3>1, <3>2
    <2>2. \A c \in Tiles(grid) : c \in Blocks
      BY DEF TypeOK, Blocks, Tiles
    <2> QED BY <1>1, <1>2, <1>3, <2>1, <2>2, PlaneKept
            DEF StaticInv, LaunchKept, hostVars, launchVars
  <1> QED BY <1>1, <1>7, <1>8, <1>9, PlaneKept DEF StaticInv

(* The block that serves held the last claim on its raw id: that id, and no *)
(* other, becomes done, and its task was not served before.                 *)
LEMMA ServeCounts ==
  ASSUME TypeOK, QueueInv, StaticInv, NEW b \in Blocks, Serve(b),
         NEW own, own = raw[b]
  PROVE  /\ own \in Tiles(tiles)
         /\ hits[TaskFor(own)] = 0
         /\ hits' = [hits EXCEPT ![TaskFor(own)] = 1]
         /\ ~Undone(own)'
         /\ \A r \in Tiles(tiles) \ {own} : Undone(r)' <=> Undone(r)
  <1>1. /\ state[b] \in {"mapping", "loaded"} /\ own # Nothing
        /\ raw' = [raw EXCEPT ![b] = Nothing] /\ queue' = queue /\ mode' = mode
    BY DEF Serve, QueueInv, HoldsRaw
  <1>2. own \in Tiles(tiles)
    BY <1>1 DEF StaticInv, BlocksKept, TypeOK, Tasks, Tiles, Nothing
  <1>3. TaskOf(b) = TaskFor(own)
    <2>1. CASE state[b] = "loaded"
      <3>1. raw[b] \in Tiles(MaxTasks) /\ entry[b] = table[raw[b]]
        BY <1>2, <2>1 DEF StaticInv, BlocksKept, Tiles
      <3>2. entry[b] # Nothing
        BY <3>1 DEF TypeOK, Tiles, Nothing
      <3> QED BY <3>1, <3>2 DEF TaskOf, TaskFor, Target, TypeOK
    <2>2. CASE state[b] = "mapping"
      <3>1. raw[b] >= MaxTasks /\ entry[b] = Nothing
        BY <2>2 DEF Serve, StaticInv, BlocksKept
      <3>2. raw[b] \notin DOMAIN table
        BY <3>1 DEF TypeOK, Tiles
      <3> QED BY <3>1, <3>2 DEF TaskOf, TaskFor, Target
    <2> QED BY <1>1, <2>1, <2>2
  <1>4. Undone(own)
    BY DEF Undone
  <1>5. hits[TaskFor(own)] = 0
    BY <1>2, <1>4 DEF StaticInv, Counted
  <1>6. hits' = [hits EXCEPT ![TaskFor(own)] = 1]
    BY <1>3, <1>5 DEF Serve
  <1>7. ~Undone(own)'
    <2>1. /\ own \in Blocks => state'[own] \notin {"pending", "entered"}
          /\ \A c \in Blocks : raw'[c] # own
      BY <1>1 DEF QueueInv, RawOwnedOnce, Serve, TypeOK
    <2>2. mode = "ticket" => own < queue
      BY <1>1 DEF QueueInv, RawOwnedOnce
    <2>3. own \in Nat /\ queue \in Nat
      BY <1>2 DEF Tiles, TypeOK
    <2> QED BY <1>1, <2>1, <2>2, <2>3 DEF Undone
  <1>8. \A r \in Tiles(tiles) \ {own} : Undone(r)' <=> Undone(r)
    <2> TAKE r \in Tiles(tiles) \ {own}
    <2>1. r # Nothing
      BY <1>2 DEF Tiles, Nothing
    <2>2. (r \in Blocks /\ state'[r] \in {"pending", "entered"})
            <=> (r \in Blocks /\ state[r] \in {"pending", "entered"})
      BY <1>1 DEF Serve, TypeOK
    <2>3. (\E c \in Blocks : raw'[c] = r) <=> (\E c \in Blocks : raw[c] = r)
      BY <1>1, <2>1 DEF TypeOK
    <2> QED BY <1>1, <2>2, <2>3 DEF Undone
  <1> QED BY <1>2, <1>5, <1>6, <1>7, <1>8


(* A service marks one raw id done and its task served once.                *)
LEMMA StaticServe ==
  ASSUME TypeOK, QueueInv, StaticInv, NEW b \in Blocks, Serve(b)
  PROVE  StaticInv'
  <1> DEFINE own == raw[b]
  <1>1. UNCHANGED <<mode, hostVars, launchVars, queue, ntasks>>
    BY DEF Serve
  <1>2. ~Idle /\ Permuted /\ b < grid
    BY ResidentExecutes DEF Serve
  <1>3. /\ \A c \in Blocks \ {b} :
             /\ state'[c] = state[c] /\ raw'[c] = raw[c] /\ entry'[c] = entry[c]
        /\ raw'[b] = Nothing /\ entry'[b] = Nothing
        /\ state[b] \in {"mapping", "loaded"} /\ ntasks[b] = Bound
        /\ \/ state'[b] = "gone" /\ Bound = 0
           \/ state'[b] = "claiming" /\ Bound # 0
    BY DEF Serve, TypeOK, StaticInv, BlocksKept
  <1>4. Counted'
    <2> PICK r0 : r0 = raw[b]
      OBVIOUS
    <2>1. /\ r0 \in Tiles(tiles)
          /\ hits' = [hits EXCEPT ![TaskFor(r0)] = 1]
          /\ ~Undone(r0)'
          /\ \A r \in Tiles(tiles) \ {r0} : Undone(r)' <=> Undone(r)
      BY ServeCounts
    <2>2. /\ \A r \in Tiles(tiles) : TaskFor(r) \in Tasks
          /\ TaskFor(r0) < tiles
          /\ \A r \in Tiles(tiles) \ {r0} : TaskFor(r) # TaskFor(r0)
      BY <1>2, <2>1 DEF Permuted, Tiles
    <2>3. /\ hits'[TaskFor(r0)] = 1
          /\ \A t \in Tasks \ {TaskFor(r0)} : hits'[t] = hits[t]
      BY <2>1, <2>2 DEF TypeOK
    <2>4. tiles' = tiles /\ Idle' = Idle /\ \A r : TaskFor(r)' = TaskFor(r)
      BY <1>1, PlaneKept DEF launchVars
    <2>5. \A r \in Tiles(tiles) : hits'[TaskFor(r)] = IF Undone(r)' THEN 0 ELSE 1
      BY <2>1, <2>2, <2>3 DEF StaticInv, Counted
    <2>6. \A t \in Tasks : t >= tiles => hits'[t] = 0
      <3>1. tiles \in Nat /\ TaskFor(r0) \in Tiles(tiles)
        BY <1>2, <2>1 DEF Permuted
      <3> QED BY <2>2, <2>3, <3>1 DEF StaticInv, Counted, Tiles
    <2> QED BY <1>2, <2>4, <2>5, <2>6 DEF Counted
  <1>5. BlocksKept'
    BY <1>1, <1>2, <1>3, PlaneKept DEF StaticInv, BlocksKept, hostVars, launchVars
  <1>6. LaunchKept'
    <2>1. Bound = 0 => tiles = grid
      BY <1>2 DEF StaticInv, LaunchKept, TilesOf, Bound
    <2>2. mode = "ticket" /\ queue < tiles => state'[b] # "gone"
      BY <1>2, <1>3, <2>1 DEF StaticInv, LaunchKept, TypeOK
    <2>3. \A c \in Tiles(grid) : c \in Blocks
      BY DEF TypeOK, Blocks, Tiles
    <2> QED BY <1>1, <1>2, <1>3, <2>2, <2>3, PlaneKept
            DEF StaticInv, LaunchKept, hostVars, launchVars
  <1> QED BY <1>1, <1>4, <1>5, <1>6, PlaneKept DEF StaticInv

(* A claim moves one raw id from the counter, or from a pending block, to   *)
(* the worker that will serve it; past the last task it moves none.         *)
LEMMA StaticClaim ==
  ASSUME TypeOK, QueueInv, StaticInv, NEW b \in Blocks,
         ClaimTicket(b) \/ ClaimCLC(b)
  PROVE  StaticInv'
  <1>1. UNCHANGED <<mode, hostVars, launchVars, ntasks, entry, hits>>
    BY DEF ClaimTicket, ClaimCLC, Continue
  <1>2. ~Idle /\ Permuted /\ b < grid /\ state[b] = "claiming"
    BY ResidentExecutes DEF ClaimTicket, ClaimCLC
  <1>3. /\ Bound # 0 /\ ntasks[b] = Bound /\ tiles = Bound /\ tiles \in Nat
        /\ raw[b] = Nothing /\ entry[b] = Nothing
    BY <1>2 DEF StaticInv, BlocksKept, Permuted, QueueInv, HoldsRaw
  <1>4. \A c \in Blocks \ {b} : raw'[c] = raw[c]
    BY DEF ClaimTicket, ClaimCLC, Continue, TypeOK
  <1>5. \/ /\ mode = "ticket" /\ queue' = queue + 1
           /\ \A c \in Blocks \ {b} : state'[c] = state[c]
           /\ \/ queue >= tiles /\ raw'[b] = Nothing /\ state'[b] = "gone"
              \/ queue < tiles /\ raw'[b] = queue /\ state'[b] = "mapping"
        \/ /\ mode = "clc" /\ queue' = queue
           /\ \A c \in Blocks \ {b} : state'[c] = state[c]
           /\ raw'[b] = Nothing /\ state'[b] = "gone"
        \/ /\ mode = "clc" /\ queue' = queue
           /\ \E c \in Blocks \ {b} :
                /\ state[c] = "pending" /\ state'[c] = "gone"
                /\ \A d \in Blocks \ {b, c} : state'[d] = state[d]
                /\ \/ c >= tiles /\ raw'[b] = Nothing /\ state'[b] = "gone"
                   \/ c < tiles /\ raw'[b] = c /\ state'[b] = "mapping"
    <2>1. CASE ClaimTicket(b)
      BY <1>3, <2>1 DEF ClaimTicket, Continue, Done, TypeOK
    <2>2. CASE /\ ClaimCLC(b)
               /\ \E c \in Blocks : state[c] = "pending" /\ Continue(b, c, {c})
      <3> PICK c \in Blocks : state[c] = "pending" /\ Continue(b, c, {c})
        BY <2>2
      <3>4. mode = "clc" /\ queue' = queue
        BY <2>2 DEF ClaimCLC
      <3>1. c # b /\ c \in Nat
        BY <1>2 DEF Blocks, Tiles
      <3>2. state'[c] = "gone" /\ \A d \in Blocks \ {b, c} : state'[d] = state[d]
        BY <3>1 DEF Continue
      <3>3. \/ c >= tiles /\ raw'[b] = Nothing /\ state'[b] = "gone"
            \/ c < tiles /\ raw'[b] = c /\ state'[b] = "mapping"
        BY <1>3, <3>1 DEF Continue, Done, TypeOK
      <3> QED BY <3>1, <3>2, <3>3, <3>4
    <2>3. CASE ClaimCLC(b) /\ Continue(b, Fallback(b), {})
      BY <1>3, <2>3 DEF ClaimCLC, Continue, Done, Fallback, TypeOK
    <2> QED BY <2>1, <2>2, <2>3 DEF ClaimCLC
  <1>6. \A r \in Tiles(tiles) : Undone(r)' <=> Undone(r)
    <2> TAKE r \in Tiles(tiles)
    <2>1. r \in Nat /\ r < tiles /\ r # Nothing
      BY <1>3 DEF Tiles, Nothing
    <2>2. queue \in Nat /\ \A c \in Blocks : c \in Nat
      BY DEF TypeOK, Blocks, Tiles
    <2>3. mode' = mode
      BY <1>1
    <2> QED BY <1>2, <1>3, <1>4, <1>5, <2>1, <2>2, <2>3 DEF Undone
  <1>7. Counted'
    BY <1>1, <1>6, CountedKept DEF StaticInv, hostVars, launchVars
  <1>8. BlocksKept'
    <2> SUFFICES ASSUME NEW c \in Blocks
                 PROVE  /\ state'[c] # "gone" => c < grid
                        /\ state'[c] \in {"mapping", "loaded", "claiming"}
                             => ntasks[c] = Bound
                        /\ state'[c] = "claiming" => Bound # 0
                        /\ raw'[c] # Nothing => raw'[c] < tiles
                        /\ state'[c] = "loaded" =>
                             raw'[c] < MaxTasks /\ entry[c] = table[raw'[c]]
                        /\ state'[c] # "loaded" => entry[c] = Nothing
      BY <1>1, PlaneKept DEF BlocksKept, hostVars, launchVars
    <2>1. CASE c = b
      BY <1>2, <1>3, <1>5, <2>1
    <2>2. CASE c # b
      <3>1. raw'[c] = raw[c]
        BY <1>4, <2>2
      <3>2. state'[c] = state[c] \/ (state'[c] = "gone" /\ state[c] = "pending")
        BY <1>5, <2>2
      <3> QED BY <3>1, <3>2 DEF StaticInv, BlocksKept
    <2> QED BY <2>1, <2>2
  <1>9. LaunchKept'
    <2>1. mode = "ticket" =>
            /\ queue' = queue + 1 /\ queue \in Nat
            /\ queue' < tiles => \A c \in Blocks : state[c] # "gone"
                                                     => state'[c] # "gone"
      BY <1>3, <1>5 DEF TypeOK
    <2>2. \A c \in Tiles(grid) : c \in Blocks
      BY DEF TypeOK, Blocks, Tiles
    <2>3. grid \in Nat
      BY DEF TypeOK
    <2> QED BY <1>1, <1>2, <1>3, <2>1, <2>2, <2>3, PlaneKept
            DEF StaticInv, LaunchKept, hostVars, launchVars
  <1> QED BY <1>1, <1>7, <1>8, <1>9, PlaneKept DEF StaticInv

(* A launch that retires has served every raw id it owed.                   *)
LEMMA FinishedDone ==
  ASSUME TypeOK, QueueInv, StaticInv, Finish
  PROVE  Permuted /\ \A r \in Tiles(tiles) : ~Undone(r)
  <1>1. Permuted /\ ~Idle
    BY TasksPermuted DEF Finish, StaticInv
  <1>2. \A b \in Blocks : state[b] = "gone" /\ raw[b] = Nothing
    BY DEF Finish, QueueInv, HoldsRaw
  <1>3. mode = "ticket" => queue >= tiles
    <2>1. 0 \in Tiles(grid) /\ 0 \in Blocks
      BY <1>1 DEF TypeOK, Blocks, Tiles, Idle
    <2> QED BY <1>1, <1>2, <2>1 DEF StaticInv, LaunchKept, Permuted, TypeOK
  <1>4. \A r \in Tiles(tiles) : r # Nothing /\ r \in Nat /\ r < tiles
    BY <1>1 DEF Permuted, Tiles, Nothing
  <1> QED BY <1>1, <1>2, <1>3, <1>4 DEF Undone, Permuted, TypeOK

(* StaticInv is inductive when the host waits.                              *)
LEMMA StaticStep ==
  Waits /\ TypeOK /\ QueueInv /\ StaticInv /\ [Next]_vars => StaticInv'
  <1> SUFFICES ASSUME Waits, TypeOK, QueueInv, StaticInv, [Next]_vars
               PROVE  StaticInv'
    OBVIOUS
  <1>1. CASE PrepareRuntime \/ PreparePlane \/ PushCtrl
    BY <1>1, StaticHost
  <1>2. CASE \E g \in 1 .. MaxGrid, d \in BOOLEAN : Launch(g, d)
    BY <1>2, StaticLaunch
  <1>3. CASE \E b \in Blocks : Worker(b)
    BY <1>3, StaticMapping, StaticServe, StaticClaim DEF Worker
  <1>4. CASE Finish
    <2>1. Described'
      BY <1>4 DEF Finish, hostVars, StaticInv, Described, Prepared
    <2>2. BlocksKept' /\ LaunchKept'
      BY <1>4 DEF Finish, StaticInv, BlocksKept, LaunchKept, Idle, QueueInv, HoldsRaw
    <2>3. Counted'
      BY <1>4 DEF Finish, Counted, Idle, Tiles
    <2> QED BY <2>1, <2>2, <2>3 DEF StaticInv
  <1>5. CASE UNCHANGED vars
    BY <1>5 DEF vars, hostVars, launchVars, ctaVars, StaticInv, Described, Prepared,
       LaunchKept, TilesOf, BlocksKept, Bound, Counted, TaskFor, Undone, Idle
  <1> QED BY <1>1, <1>2, <1>3, <1>4, <1>5 DEF Next, Host

(* Before the first launch the table is the identity, an order of no task.  *)
LEMMA StaticInit == Waits /\ Init => StaticInv
  <1> SUFFICES ASSUME Waits, Init PROVE StaticInv
    OBVIOUS
  <1>1. table = Identity(MaxTasks)
    <2>1. channel = "arena"
      BY DEF Waits, Init
    <2>2. /\ table \in [Tiles(MaxTasks) -> Tiles(MaxTasks)]
          /\ \A i \in Tiles(MaxTasks) : table[i] = i
      BY <2>1 DEF Init, FirstTables
    <2> QED BY <2>2 DEF Identity
  <1>4. Described
    BY <1>1 DEF Init, Described, Prepared, Orders, PermutesPrefix, InjectiveOn,
       Identity, Tiles
  <1>2. BlocksKept /\ LaunchKept
    BY DEF Init, BlocksKept, LaunchKept, Idle
  <1>3. Counted
    BY DEF Init, Counted, Idle, Tiles
  <1> QED BY <1>2, <1>3, <1>4 DEF StaticInv

(* With a host that waits, every raw id of a launch is accounted for at     *)
(* each step, from its block or the counter to the body that serves it.     *)
THEOREM RawIdsAccounted ==
  ASSUME Waits
  PROVE  Spec => []StaticInv
  <1>1. Waits
    OBVIOUS
  <1>2. TypeOK /\ QueueInv /\ StaticInv /\ [Next]_vars => StaticInv'
    BY <1>1, StaticStep
  <1>3. Init => StaticInv
    BY <1>1, StaticInit
  <1> QED BY <1>2, <1>3, QueueCorrect, PTL DEF Spec

(* A task's counter is that of the one raw id that stands for it.           *)
LEMMA CountedOnce ==
  TypeOK /\ StaticInv => NoTaskTwice /\ FaultFree
  <1> SUFFICES ASSUME TypeOK, StaticInv PROVE NoTaskTwice /\ FaultFree
    OBVIOUS
  <1>1. CASE Idle
    BY <1>1 DEF StaticInv, Counted, NoTaskTwice, FaultFree, Tasks, Tiles
  <1>2. CASE ~Idle
    <2>1. Permuted
      BY <1>2, TasksPermuted DEF StaticInv
    <2>2. \A t \in Tasks : t < tiles => hits[t] \in {0, 1}
      <3> TAKE t \in Tasks
      <3> HAVE t < tiles
      <3>1. t \in Tiles(tiles)
        BY <2>1 DEF Permuted, Tasks, Tiles
      <3> PICK r \in Tiles(tiles) : TaskFor(r) = t
        BY <2>1, <3>1 DEF Permuted
      <3> QED BY DEF StaticInv, Counted
    <2>3. \A t \in Tasks : ~(t < tiles) => hits[t] = 0
      BY <2>1 DEF StaticInv, Counted, Permuted, Tasks, Tiles
    <2> QED BY <2>2, <2>3 DEF NoTaskTwice, FaultFree
  <1> QED BY <1>1, <1>2

(* With a host that waits, no body of a launch runs twice for one task: the *)
(* claim loop hands out each raw id once and the remap permutes the tasks,  *)
(* in both claim modes, for every grid and table.                           *)
THEOREM WaitingServesOnce ==
  ASSUME Waits
  PROVE  Spec => []NoTaskTwice
  BY CountedOnce, RawIdsAccounted, QueueCorrect, PTL

(* With a host that waits, no body runs for a task outside its launch: the  *)
(* blocks a padded launch adds, the tickets past the last task and the      *)
(* table entries past the bound are all kept out.                           *)
THEOREM WaitingFaultFree ==
  ASSUME Waits
  PROVE  Spec => []FaultFree
  BY CountedOnce, RawIdsAccounted, QueueCorrect, PTL

(* Every step is a step of ServeOnce or leaves it alone: Launch launches,   *)
(* Serve serves one outstanding task, Finish completes.                     *)
LEMMA WaitingRefines ==
  ASSUME Waits, TypeOK, QueueInv, StaticInv, [Next]_vars
  PROVE  [Once!Next]_(Once!vars)
  <1> DEFINE todo == {t \in Tiles(tiles) : hits[t] = 0}
  <1>1. CASE \/ PrepareRuntime \/ PreparePlane \/ PushCtrl \/ UNCHANGED vars
             \/ \E b \in Blocks : \/ Enter(b) \/ ReadTasks(b) \/ LoadEntry(b)
                                  \/ ClaimTicket(b) \/ ClaimCLC(b)
    <2>1. UNCHANGED <<tiles, hits>>
      BY <1>1, PrepareFrame DEF PushCtrl, Enter, ReadTasks, LoadEntry, ClaimTicket,
         ClaimCLC, Continue, vars, launchVars, ctaVars
    <2> QED BY <2>1 DEF Once!vars
  <1>2. CASE \E g \in 1 .. MaxGrid, d \in BOOLEAN : Launch(g, d)
    <2> PICK g \in 1 .. MaxGrid, d \in BOOLEAN : Launch(g, d)
      BY <1>2
    <2>1. tiles = 0
      BY DEF Launch, Idle, StaticInv, Counted
    <2>2. tiles' \in Nat \ {0} /\ hits' = [t \in Tasks |-> 0]
      BY DEF Launch, TilesOf, TypeOK, CtrlBlock
    <2>3. Tiles(tiles') \subseteq Tasks
      <3>1. tiles' \in 1 .. MaxGrid \/ tiles' \in 1 .. MaxTasks
        BY DEF Launch, TilesOf, TypeOK, CtrlBlock
      <3> QED BY <3>1 DEF Tasks, Tiles
    <2>4. todo' = 0 .. (tiles' - 1)
      BY <2>2, <2>3 DEF Tiles
    <2>5. Once!Launch
      BY <2>1, <2>2, <2>4 DEF Once!Launch
    <2> QED BY <2>5 DEF Once!Next
  <1>3. CASE \E b \in Blocks : Serve(b)
    <2> PICK b \in Blocks : Serve(b)
      BY <1>3
    <2> PICK own : own = raw[b]
      OBVIOUS
    <2> PICK t : t = TaskFor(own)
      OBVIOUS
    <2>1. own \in Tiles(tiles) /\ hits[t] = 0 /\ hits' = [hits EXCEPT ![t] = 1]
      BY ServeCounts
    <2>2. tiles' = tiles
      BY DEF Serve, launchVars
    <2>3. t \in Tiles(tiles) /\ Tiles(tiles) \subseteq Tasks
      BY <2>1, ResidentExecutes DEF Serve, Permuted
    <2>4. t \in todo /\ todo' = todo \ {t}
      BY <2>1, <2>2, <2>3 DEF TypeOK
    <2>5. Once!Serve
      BY <2>2, <2>4 DEF Once!Serve
    <2> QED BY <2>5 DEF Once!Next
  <1>4. CASE Finish
    <2>1. todo = {}
      <3> SUFFICES ASSUME NEW t \in Tiles(tiles) PROVE hits[t] # 0
        OBVIOUS
      <3> PICK r \in Tiles(tiles) : TaskFor(r) = t
        BY <1>4, FinishedDone DEF Permuted
      <3> QED BY <1>4, FinishedDone DEF StaticInv, Counted
    <2>2. tiles # 0 /\ tiles' = 0 /\ todo' = {}
      BY <1>4, FinishedDone DEF Finish, Permuted, Tiles
    <2>3. Once!Complete
      BY <2>1, <2>2 DEF Once!Complete
    <2> QED BY <2>3 DEF Once!Next
  <1> QED BY <1>1, <1>2, <1>3, <1>4 DEF Next, Host, Worker

(* With a host that waits, the driver implements ServeOnce: every launch    *)
(* serves each of its tasks exactly once before it completes, whichever     *)
(* worker claims what, in both claim modes and on the stock path.           *)
THEOREM WaitingServesAll ==
  ASSUME Waits
  PROVE  Spec => ServesAll
  <1>1. Init => Once!Init
    BY DEF Init, Once!Init, Tiles
  <1>2. Waits
    OBVIOUS
  <1>3. TypeOK /\ QueueInv /\ StaticInv /\ [Next]_vars => [Once!Next]_(Once!vars)
    BY <1>2, WaitingRefines
  <1> QED BY <1>1, <1>3, RawIdsAccounted, QueueCorrect, PTL
          DEF Spec, ServesAll, Once!Spec
===============================================================================
