-------------------------- MODULE TimerProbe_proofs --------------------------
(***************************************************************************)
(* What holds of the probe for every cadence, depth, grid and channel: the *)
(* rows of an unread probe are left alone, and, as long as no hook raises, *)
(* they are those of the probe's step and are folded once.                 *)
(***************************************************************************)
EXTENDS TimerProbe, SequenceTheorems, TLAPS

USE ProbeAssumption DEF ProbeAssumption

Launches == [step : Names, zero : BOOLEAN]

(* A fresh step takes one of the names that are not in use.                 *)
LEMMA NewName ==
  ASSUME Names \ InUse # {}
  PROVE  (CHOOSE s \in Names \ InUse : TRUE) \in Names
  <1> DEFINE S == Names \ InUse
  <1>1. \E s \in S : TRUE
    OBVIOUS
  <1>2. (CHOOSE s \in S : TRUE) \in S
    BY <1>1
  <1> QED BY <1>2

(* The oldest launch leaves the queue; the others move up. *)
LEMMA QueueTail ==
  ASSUME queue \in Seq(Launches), queue # <<>>
  PROVE  /\ Head(queue) = queue[1] /\ Head(queue) \in Launches
         /\ Tail(queue) \in Seq(Launches)
         /\ Len(Tail(queue)) = Len(queue) - 1 /\ Len(queue) \in Nat \ {0}
         /\ \A i \in 1 .. Len(Tail(queue)) : Tail(queue)[i] = queue[i + 1]
         /\ (Tail(queue) = <<>>) <=> (Len(queue) = 1)
  <1>1. /\ Head(queue) \in Launches /\ Tail(queue) \in Seq(Launches)
        /\ Len(Tail(queue)) = Len(queue) - 1
        /\ \A i \in 1 .. Len(Tail(queue)) : Tail(queue)[i] = queue[i + 1]
    BY HeadTailProperties
  <1>2. Len(queue) \in Nat \ {0}
    BY EmptySeq, LenProperties
  <1>3. (Tail(queue) = <<>>) <=> (Len(Tail(queue)) = 0)
    BY <1>1, EmptySeq
  <1>4. Head(queue) = queue[1]
    OBVIOUS
  <1> QED BY <1>1, <1>2, <1>3, <1>4

(* A launch joins the stream at its end; the others keep their places.      *)
LEMMA QueueAppend ==
  ASSUME queue \in Seq(Launches), NEW l \in Launches
  PROVE  /\ Append(queue, l) \in Seq(Launches)
         /\ Len(Append(queue, l)) = Len(queue) + 1 /\ Len(queue) \in Nat
         /\ \A i \in 1 .. Len(queue) : Append(queue, l)[i] = queue[i]
         /\ Append(queue, l)[Len(queue) + 1] = l
         /\ Append(queue, l) # <<>>
  BY AppendProperties, LenProperties

(* The cadence repeats after a positive number of steps.                    *)
LEMMA PeriodNat == Period \in Nat \ {0}
  BY DEF Period

(* Counting a step keeps its counter, name and rows in their types.         *)
LEMMA BeginType ==
  ASSUME TypeOK, BeginStep
  PROVE  /\ step' \in 0 .. (Period - 1)
         /\ cur' \in Names
         /\ rows' \in [Rows -> SUBSET StepOrNone]
  <1>1. step' \in 0 .. (Period - 1)
    <2>1. step \in Int
      BY DEF TypeOK
    <2> QED BY <2>1, PeriodNat DEF BeginStep
  <1>2. cur' \in Names
    BY NewName DEF BeginStep
  <1>3. \A r \in Rows : Forget(rows[r]) \in SUBSET StepOrNone
    BY DEF TypeOK, Forget, StepOrNone
  <1> QED BY <1>1, <1>2, <1>3 DEF BeginStep

(* TypeOK is inductive, whether or not hooks raise.                         *)
LEMMA TypeStep ==
  ASSUME TypeOK, [Next]_vars
  PROVE  TypeOK'
  <1> USE DEF TypeOK, None
  <1>1. CASE OffCadence
    BY <1>1, BeginType DEF OffCadence, BeginStep, StepOrNone, gpuVars
  <1>2. CASE NoSlots
    BY <1>2, BeginType DEF NoSlots, BeginStep, StepOrNone, gpuVars
  <1>3. CASE Plan
    <2>1. /\ pendEvent' \in StepOrNone /\ pendBind' \in StepOrNone
          /\ folded' \in BOOLEAN
      BY <1>3 DEF Plan, Consume, StepOrNone
    <2>2. armed' \in BOOLEAN /\ mirrorOff' \in BOOLEAN
      BY <1>3 DEF Plan, ProbeDue
    <2> QED
      BY <1>3, <2>1, <2>2, BeginType DEF Plan, BeginStep, StepOrNone, gpuVars
  <1>4. CASE RaiseBeforeArming
    <2>1. /\ pendEvent' \in StepOrNone /\ pendBind' \in StepOrNone
          /\ folded' \in BOOLEAN
      BY <1>4 DEF RaiseBeforeArming, Consume, StepOrNone
    <2> QED
      BY <1>4, <2>1, BeginType
      DEF RaiseBeforeArming, BeginStep, StepOrNone, gpuVars
  <1>5. CASE RaiseBeforePush
    BY <1>5 DEF RaiseBeforePush, gpuVars
  <1>6. CASE Push
    BY <1>6 DEF Push, gpuVars
  <1>7. CASE Bind
    <2>1. zeroing' \in BOOLEAN /\ rows' \in [Rows -> SUBSET StepOrNone]
      BY <1>7 DEF Bind, ClearTimer, Zeroed
    <2> QED BY <1>7, <2>1 DEF Bind, gpuVars
  <1>8. CASE LaunchBatch
    <2>1. [step |-> cur, zero |-> zeroing] \in Launches
      BY <1>8 DEF LaunchBatch, StepOrNone, Launches
    <2>2. queue' \in Seq([step : Names, zero : BOOLEAN])
      BY <1>8, <2>1, QueueAppend DEF LaunchBatch, Launches
    <2> QED BY <1>8, <2>2 DEF LaunchBatch, gpuVars
  <1>9. CASE EndBatch
    BY <1>9 DEF EndBatch, TimerOff, StepOrNone, gpuVars
  <1>10. CASE Start
    <2>1. run' \in Names /\ queue' \in Seq([step : Names, zero : BOOLEAN])
      BY <1>10, QueueTail DEF Start, Launches
    <2>2. rows' \in [Rows -> SUBSET StepOrNone]
      BY <1>10 DEF Start, Zeroed
    <2> QED BY <1>10, <2>1, <2>2 DEF Start, hookVars, StepOrNone
  <1>11. CASE \E p \in Rows : Enter(p)
    BY <1>11 DEF Enter, hookVars
  <1>12. CASE \E p \in Rows : Return(p)
    <2> PICK p \in Rows : Return(p)
      BY <1>12
    <2>1. rows' \in [Rows -> SUBSET StepOrNone]
      BY DEF Return
    <2>2. cta' \in [Rows -> {"out", "on", "off", "done"}]
      BY DEF Return
    <2> QED BY <2>1, <2>2 DEF Return, hookVars
  <1>13. CASE Finish
    BY <1>13 DEF Finish, hookVars, StepOrNone
  <1>14. CASE UNCHANGED vars
    BY <1>14 DEF vars, hookVars, gpuVars
  <1> QED
    BY <1>1, <1>2, <1>3, <1>4, <1>5, <1>6, <1>7, <1>8, <1>9, <1>10, <1>11,
       <1>12, <1>13, <1>14 DEF Next, Host, Gpu

(* Hooks, stream and rows stay in their types on both channels, at any      *)
(* cadence and pipeline depth.                                              *)
THEOREM ProbeTypeCorrect == Spec => []TypeOK
  <1>1. Init => TypeOK
    <2> SUFFICES ASSUME Init PROVE TypeOK
      OBVIOUS
    <2>1. queue \in Seq([step : Names, zero : BOOLEAN])
      BY EmptySeq DEF Init
    <2>2. rows \in [Rows -> SUBSET StepOrNone]
      BY DEF Init, Zeroed
    <2>3. step \in 0 .. (Period - 1)
      BY PeriodNat DEF Init
    <2>4. cta \in [Rows -> {"out", "on", "off", "done"}]
      BY DEF Init
    <2> QED BY <2>1, <2>2, <2>3, <2>4 DEF Init, TypeOK, StepOrNone, None
  <1>2. TypeOK /\ [Next]_vars => TypeOK'
    BY TypeStep
  <1> QED BY <1>1, <1>2, PTL DEF Spec

(* An unread probe has not completed as long as its launch is queued or     *)
(* executes.                                                                *)
LEMMA InFlightMeans ==
  ASSUME NEW s, s # None
  PROVE  ~Fired(s) <=> run = s \/ \E i \in 1 .. Len(queue) : queue[i].step = s
  BY DEF Fired, InFlight

(* ... and likewise in the next state.                                      *)
LEMMA InFlightMeansNext ==
  ASSUME pendEvent' # None
  PROVE  ~Fired(pendEvent)' <=>
           \/ run' = pendEvent'
           \/ \E i \in 1 .. Len(queue') : queue'[i].step = pendEvent'
  BY DEF Fired, InFlight, None

(* QuietInv is inductive, whether or not hooks raise.                       *)
LEMMA QuietStep ==
  ASSUME TypeOK, QuietInv, [Next]_vars
  PROVE  QuietInv'
  <1> USE DEF None
  <1>1. CASE OffCadence
    BY <1>1 DEF QuietInv, OffCadence, BeginStep, Fired, InFlight, gpuVars
  <1>2. CASE NoSlots
    BY <1>2 DEF QuietInv, NoSlots, BeginStep, Fired, InFlight, gpuVars
  <1>3. CASE Plan
    <2>1. pendEvent' # None => pendEvent' = pendEvent /\ ctrlOff' = ctrlOff
      BY <1>3 DEF Plan, Consume, BeginStep
    <2>2. pendEvent' # None => mirrorOff'
      BY <1>3, <2>1 DEF Plan, ProbeDue
    <2>3. armed' => pendEvent' = None
      BY <1>3 DEF Plan, ProbeDue, Consume
    <2>4. /\ UNCHANGED <<zeroing, queue, run, cta>> /\ pc = "begin"
          /\ pc' = "push"
      BY <1>3 DEF Plan, BeginStep, gpuVars
    <2> QED BY <2>1, <2>2, <2>3, <2>4 DEF QuietInv, Fired, InFlight
  <1>4. CASE RaiseBeforeArming
    BY <1>4 DEF QuietInv, RaiseBeforeArming, Consume, BeginStep, Fired,
                InFlight, gpuVars
  <1>5. CASE RaiseBeforePush
    BY <1>5 DEF QuietInv, RaiseBeforePush, Fired, InFlight, gpuVars
  <1>6. CASE Push
    BY <1>6 DEF QuietInv, Push, Fired, InFlight, gpuVars
  <1>7. CASE Bind
    BY <1>7 DEF QuietInv, Bind, ClearTimer, Fired, InFlight, gpuVars
  <1>8. CASE LaunchBatch
    <2> DEFINE l == [step |-> cur, zero |-> zeroing]
    <2>1. /\ queue' = Append(queue, l) /\ pc' = "end" /\ zeroing' = FALSE
          /\ UNCHANGED <<cur, armed, pendEvent, mirrorOff, ctrlOff, run, cta>>
          /\ l \in Launches
      BY <1>8 DEF LaunchBatch, gpuVars, TypeOK, Launches, StepOrNone
    <2>2. /\ queue' # <<>> /\ Len(queue') = Len(queue) + 1 /\ Len(queue) \in Nat
          /\ \A i \in 1 .. Len(queue) : queue'[i] = queue[i]
          /\ queue'[Len(queue')] = l
      BY <2>1, QueueAppend DEF TypeOK, Launches
    <2> HIDE DEF l
    <2>3. l.step = cur /\ l.zero = zeroing
      BY DEF l
    <2>4. pendEvent # None => ~zeroing
      BY DEF QuietInv
    <2>5. (pendEvent # None => ctrlOff /\ mirrorOff)'
      BY <2>1 DEF QuietInv
    <2>6. (\A p \in Rows : cta[p] = "on" =>
             run # None /\ (pendEvent # None => ~Fired(pendEvent)))'
      <3>1. pendEvent # None /\ ~Fired(pendEvent) => ~Fired(pendEvent)'
        BY <2>1, <2>2, InFlightMeans, InFlightMeansNext
      <3> QED BY <2>1, <3>1 DEF QuietInv
    <2>7. (pendEvent # None => \A i \in 1 .. Len(queue) : queue[i].zero =>
             \E j \in i .. Len(queue) : queue[j].step = pendEvent)'
      <3> SUFFICES ASSUME pendEvent # None, NEW i \in 1 .. Len(queue'),
                          queue'[i].zero
                   PROVE  \E j \in i .. Len(queue') : queue'[j].step = pendEvent
        BY <2>1
      <3>1. i \in 1 .. Len(queue)
        BY <2>2, <2>3, <2>4
      <3>2. PICK j \in i .. Len(queue) : queue[j].step = pendEvent
        BY <2>2, <3>1 DEF QuietInv
      <3>3. j \in i .. Len(queue') /\ queue'[j] = queue[j]
        BY <2>2, <3>1
      <3> QED BY <3>2, <3>3
    <2>8. (pc = "end" => IF queue = <<>> THEN run \in {None, cur}
                                       ELSE queue[Len(queue)].step = cur)'
      BY <2>1, <2>2, <2>3
    <2>9. (run = None => \A p \in Rows : cta[p] = "out")'
      BY <2>1 DEF QuietInv
    <2> QED BY <2>1, <2>5, <2>6, <2>7, <2>8, <2>9 DEF QuietInv
  <1>9. CASE EndBatch
    BY <1>9 DEF QuietInv, EndBatch, TimerOff, Fired, InFlight, gpuVars
  <1>10. CASE Start
    <2>1. /\ queue' = Tail(queue) /\ run = None /\ run' = queue[1].step
          /\ UNCHANGED <<pc, cur, armed, pendEvent, mirrorOff, ctrlOff, zeroing, cta>>
          /\ queue[1] \in Launches
      BY <1>10, QueueTail DEF Start, hookVars, TypeOK, Launches
    <2>2. /\ Len(queue) \in Nat \ {0} /\ Len(queue') = Len(queue) - 1
          /\ \A i \in 1 .. Len(queue') : queue'[i] = queue[i + 1]
          /\ (queue' = <<>>) <=> (Len(queue) = 1)
          /\ queue # <<>>
      BY <1>10, <2>1, QueueTail DEF Start, TypeOK, Launches
    <2>3. run' # None
      BY <2>1 DEF Launches
    <2>4. \A p \in Rows : cta'[p] # "on"
      BY <2>1 DEF QuietInv
    <2>5. (pendEvent # None => \A i \in 1 .. Len(queue) : queue[i].zero =>
             \E j \in i .. Len(queue) : queue[j].step = pendEvent)'
      <3> SUFFICES ASSUME pendEvent # None, NEW i \in 1 .. Len(queue'),
                          queue'[i].zero
                   PROVE  \E j \in i .. Len(queue') : queue'[j].step = pendEvent
        BY <2>1
      <3>1. i + 1 \in 1 .. Len(queue) /\ queue[i + 1].zero
        BY <2>2
      <3>2. PICK j \in (i + 1) .. Len(queue) : queue[j].step = pendEvent
        BY <3>1 DEF QuietInv
      <3>3. j - 1 \in i .. Len(queue') /\ queue'[j - 1] = queue[j]
        BY <2>2, <3>2
      <3> QED BY <3>2, <3>3
    <2>6. (pc = "end" => IF queue = <<>> THEN run \in {None, cur}
                                       ELSE queue[Len(queue)].step = cur)'
      <3>1. pc = "end" => queue[Len(queue)].step = cur
        BY <2>2 DEF QuietInv
      <3>2. CASE queue' = <<>>
        BY <2>1, <2>2, <3>1, <3>2
      <3>3. CASE queue' # <<>>
        <4>1. queue'[Len(queue')] = queue[Len(queue)]
          <5>1. Len(queue') \in 1 .. Len(queue') /\ Len(queue') + 1 = Len(queue)
            BY <2>2, <3>3
          <5> QED BY <2>2, <5>1
        <4> QED BY <2>1, <3>1, <3>3, <4>1
      <3> QED BY <3>2, <3>3
    <2>7. /\ (pendEvent # None => ctrlOff /\ mirrorOff)'
          /\ (armed /\ pc \in {"push", "bind"} => pendEvent = None)'
          /\ (zeroing => pc = "launch" /\ pendEvent = None)'
      BY <2>1 DEF QuietInv
    <2> QED BY <2>3, <2>4, <2>5, <2>6, <2>7 DEF QuietInv
  <1>11. CASE \E p \in Rows : Enter(p)
    BY <1>11 DEF QuietInv, Enter, TypeOK, Fired, InFlight, hookVars
  <1>12. CASE \E p \in Rows : Return(p)
    BY <1>12 DEF QuietInv, Return, TypeOK, Fired, InFlight, hookVars
  <1>13. CASE Finish
    BY <1>13 DEF QuietInv, Finish, Fired, InFlight, hookVars
  <1>14. CASE UNCHANGED vars
    BY <1>14 DEF QuietInv, Fired, InFlight, vars, hookVars, gpuVars
  <1> QED
    BY <1>1, <1>2, <1>3, <1>4, <1>5, <1>6, <1>7, <1>8, <1>9, <1>10, <1>11,
       <1>12, <1>13, <1>14 DEF Next, Host, Gpu

(* While a probe is unread the gate is shut, and no clear and no timing CTA *)
(* comes after it in the stream (on_batch_end, the pending test of          *)
(* on_batch_begin).                                                         *)
THEOREM ProbeQuiet == Spec => []QuietInv
  <1>1. Init => QuietInv
    BY EmptySeq DEF Init, QuietInv, None
  <1>2. TypeOK /\ QuietInv /\ [Next]_vars => QuietInv'
    BY QuietStep
  <1> QED BY <1>1, <1>2, ProbeTypeCorrect, PTL DEF Spec

(* From the firing of its event to its reading, a probe's rows are stable,  *)
(* on both channels, whatever the hooks raise and the batches lack.         *)
THEOREM RowsStable == Spec => []StableUntilRead
  <1>1. TypeOK /\ QuietInv => StableUntilRead
    <2> SUFFICES ASSUME TypeOK, QuietInv, pendEvent # None, Fired(pendEvent)
                 PROVE  /\ \A p \in Rows : cta[p] # "on"
                        /\ ctrlOff
                        /\ ~zeroing /\ \A i \in 1 .. Len(queue) : ~queue[i].zero
      BY DEF StableUntilRead
    <2>1. \A i \in 1 .. Len(queue) : ~queue[i].zero
      <3> SUFFICES ASSUME NEW i \in 1 .. Len(queue), queue[i].zero
                   PROVE  FALSE
        OBVIOUS
      <3>1. PICK j \in i .. Len(queue) : queue[j].step = pendEvent
        BY DEF QuietInv
      <3>2. j \in 1 .. Len(queue)
        BY LenProperties DEF TypeOK
      <3> QED BY <3>1, <3>2, InFlightMeans
    <2> QED BY <2>1 DEF QuietInv
  <1> QED BY <1>1, ProbeQuiet, ProbeTypeCorrect, PTL

(* ArmedInv is inductive as long as no hook raises.                         *)
LEMMA ArmedStep ==
  ASSUME ~MayRaise, TypeOK, QuietInv, ArmedInv, [Next]_vars
  PROVE  ArmedInv'
  <1> USE DEF ArmedInv
  <1>1. CASE OffCadence
    BY <1>1 DEF OffCadence, BeginStep
  <1>2. CASE NoSlots
    BY <1>2 DEF NoSlots, BeginStep
  <1>3. CASE Plan
    <2>1. armed' => pendEvent' = None
      BY <1>3 DEF Plan, ProbeDue, Consume
    <2>2. pc' = "push" /\ binding' = binding
      BY <1>3 DEF Plan, BeginStep
    <2>3. (folded => pendEvent = None \/ pendBind # binding)'
      BY <1>3, <2>2 DEF Plan, Consume
    <2> QED BY <2>1, <2>2, <2>3
  <1>4. CASE RaiseBeforeArming \/ RaiseBeforePush
    BY <1>4 DEF RaiseBeforeArming, RaiseBeforePush
  <1>5. CASE Push
    BY <1>5 DEF Push
  <1>6. CASE Bind
    BY <1>6 DEF Bind, QuietInv
  <1>7. CASE LaunchBatch
    BY <1>7 DEF LaunchBatch
  <1>8. CASE EndBatch
    BY <1>8 DEF EndBatch, TypeOK, None
  <1>9. CASE Gpu
    BY <1>9 DEF Gpu, Start, Enter, Return, Finish, hookVars
  <1>10. CASE UNCHANGED vars
    BY <1>10 DEF vars, hookVars
  <1> QED
    BY <1>1, <1>2, <1>3, <1>4, <1>5, <1>6, <1>7, <1>8, <1>9, <1>10 DEF Next, Host

(* As long as no hook raises, on_batch_end finds the probe's own binding,   *)
(* one that has not been folded under.                                      *)
THEOREM ArmedCorrect == ~MayRaise => (Spec => []ArmedInv)
  <1> SUFFICES ASSUME ~MayRaise PROVE Spec => []ArmedInv
    OBVIOUS
  <1>1. Init => ArmedInv
    BY DEF Init, ArmedInv
  <1>2. TypeOK /\ QuietInv /\ ArmedInv /\ [Next]_vars => ArmedInv'
    BY ArmedStep
  <1> QED BY <1>1, <1>2, ProbeTypeCorrect, ProbeQuiet, PTL DEF Spec

(* As long as no hook raises, the rows of a probe are folded only once.     *)
THEOREM ProbeFoldedOnce == ~MayRaise => (Spec => FoldedOnce)
  <1> SUFFICES ASSUME ~MayRaise PROVE Spec => FoldedOnce
    OBVIOUS
  <1>1. ArmedInv => [Read /\ pendBind # None => ~(folded /\ pendBind = binding)]_vars
    BY DEF ArmedInv, Read
  <1> QED BY <1>1, ArmedCorrect, PTL DEF FoldedOnce

(* OwnInv is inductive as long as no hook raises.                           *)
LEMMA OwnStep ==
  ASSUME ~MayRaise, TypeOK, QuietInv, ArmedInv, OwnInv, [Next]_vars
  PROVE  OwnInv'
  <1> SUFFICES ASSUME channel' = "device"
               PROVE  /\ (pendEvent # None => ClearQueued(pendBind) \/ Own(pendBind))'
                      /\ (armed /\ pendEvent = None =>
                            /\ pc = "launch" => zeroing
                            /\ pc = "end" => IF queue = <<>> THEN Own(cur)
                                            ELSE queue[Len(queue)].zero)'
    BY DEF OwnInv
  <1> USE DEF None
  <1>0. channel = "device"
    BY DEF Next, Host, Gpu, OffCadence, NoSlots, Plan, BeginStep,
           RaiseBeforeArming, RaiseBeforePush, Push, Bind, LaunchBatch,
           EndBatch, Start, Enter, Return, Finish, vars
  <1>1. CASE BeginStep /\ (OffCadence \/ NoSlots \/ Plan)
    <2>1. pendEvent' # None => pendEvent' = pendEvent /\ pendBind' = pendBind
      BY <1>1 DEF OffCadence, NoSlots, Plan, Consume
    <2>2. armed' /\ pendEvent' = None => pc' \notin {"launch", "end"}
      <3>1. armed => pendEvent # None
        BY <1>1 DEF BeginStep, ArmedInv
      <3> QED BY <1>1, <3>1 DEF OffCadence, NoSlots, Plan
    <2>3. pendBind \in InUse
      BY DEF InUse
    <2>4. Own(pendBind) /\ pendEvent' # None => Own(pendBind)'
      <3> SUFFICES ASSUME Own(pendBind), pendEvent' # None PROVE Own(pendBind)'
        OBVIOUS
      <3> DEFINE s == pendBind
      <3>1. /\ rows' = [r \in Rows |-> Forget(rows[r])]
            /\ UNCHANGED <<run, cta, pendBind>>
        BY <1>1, <2>1 DEF BeginStep, gpuVars
      <3>2. \A r \in Rows : Forget(rows[r]) \subseteq {s}
        BY <2>3 DEF Forget, Own
      <3> QED BY <3>1, <3>2 DEF Own
    <2>5. queue' = queue
      BY <1>1 DEF BeginStep
    <2> QED BY <1>0, <2>1, <2>2, <2>4, <2>5 DEF OwnInv, ClearQueued
  <1>2. CASE RaiseBeforeArming \/ RaiseBeforePush
    BY <1>2 DEF RaiseBeforeArming, RaiseBeforePush
  <1>3. CASE Push
    BY <1>0, <1>3 DEF Push, OwnInv, ClearQueued, Own, gpuVars
  <1>4. CASE Bind
    BY <1>0, <1>4 DEF Bind, ClearTimer, OwnInv, ClearQueued, Own, gpuVars
  <1>5. CASE LaunchBatch
    <2> DEFINE l == [step |-> cur, zero |-> zeroing]
    <2>1. /\ queue' = Append(queue, l) /\ pc = "launch" /\ pc' = "end"
          /\ UNCHANGED <<armed, pendEvent, pendBind, rows, run, cta>>
          /\ l \in Launches
      BY <1>5 DEF LaunchBatch, gpuVars, TypeOK, Launches, StepOrNone
    <2>2. /\ queue' # <<>> /\ Len(queue') = Len(queue) + 1 /\ Len(queue) \in Nat
          /\ \A i \in 1 .. Len(queue) : queue'[i] = queue[i]
          /\ queue'[Len(queue')] = l
      BY <2>1, QueueAppend DEF TypeOK, Launches
    <2>3. l.zero = zeroing
      OBVIOUS
    <2> HIDE DEF l
    <2>4. ClearQueued(pendBind) => ClearQueued(pendBind)'
      BY <2>1, <2>2 DEF ClearQueued
    <2>5. Own(pendBind) => Own(pendBind)'
      BY <2>1 DEF Own
    <2>6. armed /\ pendEvent = None => zeroing
      BY <1>0, <2>1 DEF OwnInv
    <2> QED BY <1>0, <2>1, <2>2, <2>3, <2>4, <2>5, <2>6 DEF OwnInv
  <1>6. CASE EndBatch
    <2>1. /\ pc = "end" /\ pc' = "begin"
          /\ UNCHANGED <<armed, queue, run, cta, rows>>
      BY <1>6 DEF EndBatch, gpuVars
    <2>2. CASE ~armed
      BY <1>0, <1>6, <2>1, <2>2 DEF EndBatch, OwnInv, ClearQueued, Own
    <2>3. CASE armed
      <3>1. pendBind' = binding
        BY <1>6, <2>3 DEF EndBatch
      <3>2. ClearQueued(binding) \/ Own(binding)
        <4>1. CASE pendEvent # None
          BY <1>0, <2>3, <4>1 DEF OwnInv, ArmedInv
        <4>2. CASE pendEvent = None /\ queue = <<>>
          BY <1>0, <2>1, <2>3, <4>2 DEF OwnInv, ArmedInv
        <4>3. CASE pendEvent = None /\ queue # <<>>
          <5>1. Len(queue) \in 1 .. Len(queue)
            BY <4>3, EmptySeq DEF TypeOK
          <5>2. queue[Len(queue)].zero /\ queue[Len(queue)].step = cur
            BY <1>0, <2>1, <2>3, <4>3 DEF OwnInv, QuietInv
          <5>3. binding = cur
            BY <2>1, <2>3, <4>3 DEF ArmedInv
          <5> QED BY <5>1, <5>2, <5>3 DEF ClearQueued
        <4> QED BY <4>1, <4>2, <4>3
      <3> QED BY <2>1, <3>1, <3>2 DEF ClearQueued, Own
    <2> QED BY <2>2, <2>3
  <1>7. CASE Start
    <2>1. /\ queue' = Tail(queue) /\ run = None /\ queue # <<>>
          /\ UNCHANGED <<pc, cur, armed, pendEvent, pendBind, zeroing, cta>>
          /\ rows' = IF queue[1].zero THEN Zeroed ELSE rows
      BY <1>7, QueueTail DEF Start, hookVars, TypeOK, Launches
    <2>2. /\ Len(queue) \in Nat \ {0} /\ Len(queue') = Len(queue) - 1
          /\ \A i \in 1 .. Len(queue') : queue'[i] = queue[i + 1]
          /\ (queue' = <<>>) <=> (Len(queue) = 1)
      BY <2>1, QueueTail DEF TypeOK, Launches
    <2>3. \A p \in Rows : cta'[p] # "on"
      BY <2>1 DEF QuietInv
    <2>4. queue[1].zero => \A r \in Rows : rows'[r] = {}
      BY <2>1 DEF Zeroed
    <2>5. ClearQueued(pendBind) => ClearQueued(pendBind)' \/ Own(pendBind)'
      <3> SUFFICES ASSUME NEW i \in 1 .. Len(queue), queue[i].step = pendBind,
                          queue[i].zero
                   PROVE  ClearQueued(pendBind)' \/ Own(pendBind)'
        BY DEF ClearQueued
      <3>1. CASE i = 1
        BY <2>3, <2>4, <3>1 DEF Own
      <3>2. CASE i # 1
        <4>1. i - 1 \in 1 .. Len(queue') /\ queue'[i - 1] = queue[i]
          BY <2>2, <3>2
        <4> QED BY <2>1, <4>1 DEF ClearQueued
      <3> QED BY <3>1, <3>2
    <2>6. Own(pendBind) => Own(pendBind)'
      BY <2>1, <2>3, <2>4 DEF Own
    <2>7. (armed /\ pendEvent = None /\ pc = "end" =>
             IF queue = <<>> THEN Own(cur) ELSE queue[Len(queue)].zero)'
      <3> SUFFICES ASSUME armed, pendEvent = None, pc = "end"
                   PROVE  (IF queue = <<>> THEN Own(cur) ELSE queue[Len(queue)].zero)'
        BY <2>1
      <3>1. queue[Len(queue)].zero
        BY <1>0, <2>1 DEF OwnInv
      <3>2. CASE queue' = <<>>
        BY <2>2, <2>3, <2>4, <3>1, <3>2 DEF Own
      <3>3. CASE queue' # <<>>
        <4>1. Len(queue') \in 1 .. Len(queue') /\ Len(queue') + 1 = Len(queue)
          BY <2>2, <3>3
        <4> QED BY <2>2, <3>1, <3>3, <4>1
      <3> QED BY <3>2, <3>3
    <2>8. (armed /\ pendEvent = None /\ pc = "launch" => zeroing)'
      BY <1>0, <2>1 DEF OwnInv
    <2> QED BY <1>0, <2>1, <2>5, <2>6, <2>7, <2>8 DEF OwnInv
  <1>8. CASE \E p \in Rows : Enter(p)
    <2> PICK p \in Rows : Enter(p)
      BY <1>8
    <2>1. /\ UNCHANGED <<pc, cur, armed, pendEvent, pendBind, zeroing, queue,
                         run, rows>>
          /\ run # None
          /\ \A q \in Rows : cta'[q] = "on" => cta[q] = "on" \/ ~ctrlOff
      BY DEF Enter, hookVars, TypeOK
    <2>2. pendEvent # None => \A q \in Rows : cta'[q] = "on" => cta[q] = "on"
      BY <2>1 DEF QuietInv
    <2>3. pendEvent # None /\ Own(pendBind) => Own(pendBind)'
      BY <2>1, <2>2 DEF Own
    <2>4. pc = "end" /\ queue = <<>> /\ Own(cur) => Own(cur)'
      BY <2>1 DEF Own, QuietInv
    <2> QED BY <1>0, <2>1, <2>3, <2>4 DEF OwnInv, ClearQueued
  <1>9. CASE \E p \in Rows : Return(p)
    <2> PICK p \in Rows : Return(p)
      BY <1>9
    <2>1. /\ UNCHANGED <<pc, cur, armed, pendEvent, pendBind, zeroing, queue, run>>
          /\ \A q \in Rows : cta'[q] = "on" => cta[q] = "on"
          /\ \A r \in Rows : rows'[r] # rows[r] =>
               rows'[r] = rows[r] \cup {run} /\ cta[r] = "on"
      <3>1. UNCHANGED <<pc, cur, armed, pendEvent, pendBind, zeroing, queue, run>>
        BY DEF Return, hookVars
      <3>2. \A q \in Rows : cta'[q] = "on" => cta[q] = "on"
        BY DEF Return, TypeOK
      <3>3. \A r \in Rows : rows'[r] # rows[r] =>
               rows'[r] = rows[r] \cup {run} /\ cta[r] = "on"
        <4>1. CASE cta[p] = "on"
          <5>1. rows' = [rows EXCEPT ![p] = rows[p] \cup {run}]
            BY <4>1 DEF Return
          <5>2. \A r \in Rows :
                  rows'[r] = IF r = p THEN rows[p] \cup {run} ELSE rows[r]
            BY <5>1 DEF TypeOK
          <5> QED BY <4>1, <5>2
        <4>2. CASE cta[p] # "on"
          BY <4>2 DEF Return
        <4> QED BY <4>1, <4>2
      <3> QED BY <3>1, <3>2, <3>3
    <2>2. Own(pendBind) => Own(pendBind)'
      BY <2>1 DEF Own
    <2>3. Own(cur) => Own(cur)'
      BY <2>1 DEF Own
    <2> QED BY <1>0, <2>1, <2>2, <2>3 DEF OwnInv, ClearQueued
  <1>10. CASE Finish
    BY <1>0, <1>10 DEF Finish, hookVars, OwnInv, ClearQueued, Own
  <1>11. CASE UNCHANGED vars
    BY <1>0, <1>11 DEF vars, hookVars, gpuVars, OwnInv, ClearQueued, Own
  <1> QED
    BY <1>1, <1>2, <1>3, <1>4, <1>5, <1>6, <1>7, <1>8, <1>9, <1>10, <1>11
    DEF Next, Host, Gpu, OffCadence, NoSlots, Plan

(* On the device channel, as long as no hook raises, the clear of a probe   *)
(* is enqueued ahead of its launch, and from then on its rows are its own   *)
(* (clear_timer).                                                           *)
THEOREM OwnCorrect == ~MayRaise => (Spec => []OwnInv)
  <1> SUFFICES ASSUME ~MayRaise PROVE Spec => []OwnInv
    OBVIOUS
  <1>1. Init => OwnInv
    BY DEF Init, OwnInv
  <1>2. TypeOK /\ QuietInv /\ ArmedInv /\ OwnInv /\ [Next]_vars => OwnInv'
    BY OwnStep
  <1> QED
    BY <1>1, <1>2, ProbeTypeCorrect, ProbeQuiet, ArmedCorrect, PTL DEF Spec

(* On the device channel, as long as no hook raises, the rows of a probe    *)
(* are read when they hold cycles of its own step and of no other.          *)
THEOREM ProbeOnlyItsStep == ~MayRaise => (Spec => OnlyItsStep)
  <1> SUFFICES ASSUME ~MayRaise PROVE Spec => OnlyItsStep
    OBVIOUS
  <1>1. ASSUME TypeOK, OwnInv, StableUntilRead, [Next]_vars
        PROVE  [Read /\ pendBind # None /\ channel = "device" =>
                  \A r \in Rows : rows[r] \subseteq {pendBind}]_vars
    <2> SUFFICES ASSUME Next, Read, channel = "device"
                 PROVE  \A r \in Rows : rows[r] \subseteq {pendBind}
      BY <1>1
    <2>1. Fired(pendEvent)
      BY <1>1 DEF Next, Host, Gpu, OffCadence, NoSlots, Plan, Consume, Read,
           RaiseBeforeArming, RaiseBeforePush, Push, Bind, LaunchBatch,
           EndBatch, Start, Enter, Return, Finish, hookVars, TypeOK, None
    <2>2. ~ClearQueued(pendBind)
      BY <1>1, <2>1 DEF StableUntilRead, ClearQueued, Read
    <2> QED BY <1>1, <2>2 DEF OwnInv, Own, Read
  <1> QED
    BY <1>1, OwnCorrect, RowsStable, ProbeTypeCorrect, PTL DEF OnlyItsStep, Spec
=============================================================================
