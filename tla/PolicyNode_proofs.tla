-------------------------- MODULE PolicyNode_proofs --------------------------
(***************************************************************************)
(* Proofs about PolicyNode, and that it implements PolicyModes and         *)
(* MotorAccess, for any number of control loop and reset threads, any      *)
(* queue length and any number of interpolation steps.                     *)
(***************************************************************************)
EXTENDS PolicyNodeModes, SequenceTheorems, TLAPS

USE ConstantsAssumption DEF ConstantsAssumption

-----------------------------------------------------------------------------
\* Type correctness

\* A full queue that loses its first message keeps its length.
LEMMA PutType ==
  ASSUME NEW S, NEW q \in Seq(S), NEW m \in S, Len(q) <= QueueLen
  PROVE  Put(q, m) \in Seq(S) /\ Len(Put(q, m)) <= QueueLen
  <1>1. CASE Len(q) >= QueueLen
    <2>1. q # <<>>
      BY <1>1
    <2>2. Tail(q) \in Seq(S) /\ Len(Tail(q)) = Len(q) - 1
      BY <2>1
    <2>. QED  BY <1>1, <2>2 DEF Put
  <1>2. CASE ~(Len(q) >= QueueLen)
    BY <1>2 DEF Put
  <1>. QED  BY <1>1, <1>2

LEMMA InitType == Init => TypeOK
  <1>. SUFFICES ASSUME Init PROVE TypeOK
    OBVIOUS
  <1>. USE DEF Init
  <1>1. lastCmd \in [src : {"none", "policy", "reset"}, step : 0..Steps]
    BY DEF NoCmd
  <1>2. step \in [ResetIds -> 0..(Steps + 1)]
    OBVIOUS
  <1>3. mailbox \in Seq(SUBSET Buttons) /\ Len(mailbox) <= QueueLen
    OBVIOUS
  <1>. QED  BY <1>1, <1>2, <1>3 DEF TypeOK, Buttons, JPlaces

LEMMA NextType == TypeOK /\ [Next]_vars => TypeOK'
  <1>. SUFFICES ASSUME TypeOK, [Next]_vars PROVE TypeOK'
    OBVIOUS
  <1>. USE DEF TypeOK, padVars, joyVars, loopVars, modeVars, cmdVars, robotVars
  <1>1. ASSUME NEW b \in SUBSET Buttons, PadMessage(b) PROVE TypeOK'
    BY <1>1, PutType DEF PadMessage
  <1>2. CASE JTake
    BY <1>2 DEF JTake, NewPresses, Handler, JPlaces
  <1>3. CASE JExit \/ JStop \/ JStopNothing
    BY <1>3 DEF JExit, JStop, JStopNothing, JPlaces
  <1>4. CASE JJoin
    BY <1>4 DEF JJoin, JPlaces
  <1>5. ASSUME NEW t \in ResetIds, JSpawn(t) PROVE TypeOK'
    BY <1>5 DEF JSpawn, Handler, JPlaces
  <1>6. CASE JToggle \/ JActivate
    <2>1. policyRunning' \in BOOLEAN /\ disarmed' \in BOOLEAN
      BY <1>6 DEF JToggle, JActivate
    <2>2. late' \in Nat
      BY <1>6 DEF JToggle, JActivate
    <2>. QED  BY <1>6, <2>1, <2>2 DEF JToggle, JActivate, JPlaces
  <1>7. ASSUME NEW ok \in BOOLEAN, JRelease(ok) \/ JCheck(ok) PROVE TypeOK'
    BY <1>7 DEF JRelease, JCheck, JPlaces
  <1>8. ASSUME NEW i \in LoopIds, JCreate(i) PROVE TypeOK'
    BY <1>8 DEF JCreate, JPlaces
  <1>9. CASE JAssign \/ JPause
    BY <1>9 DEF JAssign, JPause, JPlaces
  <1>10. ASSUME NEW i \in LoopIds, Tick(i) PROVE TypeOK'
    <2>1. lastCmd' \in [src : {"none", "policy", "reset"}, step : 0..Steps]
      BY <1>10 DEF Tick, TickEnter, TickGate, TickInfer, TickWrite, PolicyCmd
    <2>2. late' \in Nat
      BY <1>10 DEF Tick, TickEnter, TickGate, TickInfer, TickWrite
    <2>. QED
      BY <1>10, <2>1, <2>2 DEF Tick, TickEnter, TickGate, TickInfer, TickWrite
  <1>11. ASSUME NEW t \in ResetIds, Reset(t) PROVE TypeOK'
    <2>1. lastCmd' \in [src : {"none", "policy", "reset"}, step : 0..Steps]
      BY <1>11 DEF Reset, ResetRead, ResetStep, ResetDone, ResetCmd, StepsLeft
    <2>2. step' \in [ResetIds -> 0..(Steps + 1)]
      <3>1. CASE ResetRead(t)
        BY <3>1 DEF ResetRead
      <3>2. CASE ResetStep(t)
        <4>1. step[t] + 1 \in 0..(Steps + 1)
          BY <3>2 DEF ResetStep, StepsLeft
        <4>. QED  BY <3>2, <4>1 DEF ResetStep
      <3>3. CASE ResetDone(t)
        BY <3>3 DEF ResetDone
      <3>. QED  BY <1>11, <3>1, <3>2, <3>3 DEF Reset
    <2>. QED
      BY <1>11, <2>1, <2>2 DEF Reset, ResetRead, ResetStep, ResetDone
  <1>12. CASE ServiceStops
    BY <1>12 DEF ServiceStops
  <1>13. CASE UNCHANGED vars
    BY <1>13 DEF vars
  <1>. QED
    BY <1>1, <1>2, <1>3, <1>4, <1>5, <1>6, <1>7, <1>8, <1>9, <1>10, <1>11, <1>12, <1>13
    DEF Next, J, RpcResults

\* Every reachable state is well typed: queues never exceed their length, and a
\* reset never counts past its last interpolation step.
THEOREM TypeCorrect == Spec => []TypeOK
  BY InitType, NextType, PTL DEF Spec

-----------------------------------------------------------------------------
\* Who owns a control loop thread, and when the policy must be paused

\* A living control loop thread is control_thread_, or the one thread object
\* the joystick handler is destroying or has created.
Owned ==
  \A i \in LoopIds : loop[i] # "none" =>
    i = controlThread \/ (i = temp /\ jpc \in {"join", "assign"})

\* While the handler stops or creates a loop, control_thread_ is null.
NullInHandler ==
  jpc \in {"join", "spawn", "release", "check", "create", "assign"} =>
    controlThread = NoThread

\* The policy is paused from the first action of a safe exit, and up to the
\* last of an activation.
PausedInHandler == jpc \in {"stop", "pause"} => ~policyRunning

\* What the handler destroys or assigns to control_thread_ is a thread.
HoldsThread == jpc \in {"join", "assign"} => temp \in LoopIds

Owner == Owned /\ NullInHandler /\ PausedInHandler /\ HoldsThread /\ StoppedIsPaused

LEMMA InitOwner == Init => Owner
  BY DEF Init, Owner, Owned, NullInHandler, PausedInHandler, HoldsThread,
         StoppedIsPaused

LEMMA NextOwner == TypeOK /\ Owner /\ [Next]_vars => Owner'
  <1>. SUFFICES ASSUME TypeOK, Owner, [Next]_vars PROVE Owner'
    OBVIOUS
  <1>. USE DEF Owner, Owned, NullInHandler, PausedInHandler, HoldsThread,
               StoppedIsPaused, padVars, joyVars, loopVars, modeVars, cmdVars
  <1>1. ASSUME NEW b \in SUBSET Buttons, PadMessage(b) PROVE Owner'
    BY <1>1 DEF PadMessage
  <1>2. CASE JTake
    BY <1>2 DEF JTake, Handler
  <1>3. CASE JExit
    BY <1>3 DEF JExit
  <1>4. CASE JStop
    BY <1>4 DEF JStop, TypeOK
  <1>5. CASE JStopNothing
    BY <1>5 DEF JStopNothing
  <1>6. CASE JJoin
    BY <1>6 DEF JJoin, TypeOK
  <1>7. ASSUME NEW t \in ResetIds, JSpawn(t) PROVE Owner'
    BY <1>7 DEF JSpawn, Handler
  <1>8. CASE JToggle
    BY <1>8 DEF JToggle
  <1>9. CASE JActivate
    BY <1>9 DEF JActivate
  <1>10. ASSUME NEW ok \in BOOLEAN, JRelease(ok) \/ JCheck(ok) PROVE Owner'
    BY <1>10 DEF JRelease, JCheck
  <1>11. ASSUME NEW i \in LoopIds, JCreate(i) PROVE Owner'
    BY <1>11 DEF JCreate, TypeOK
  <1>12. CASE JAssign
    BY <1>12 DEF JAssign
  <1>13. CASE JPause
    BY <1>13 DEF JPause
  <1>14. ASSUME NEW i \in LoopIds, Tick(i) PROVE Owner'
    BY <1>14 DEF Tick, TickEnter, TickGate, TickInfer, TickWrite, TypeOK
  <1>15. ASSUME NEW t \in ResetIds, Reset(t) PROVE Owner'
    BY <1>15 DEF Reset, ResetRead, ResetStep, ResetDone
  <1>16. CASE ServiceStops
    BY <1>16 DEF ServiceStops
  <1>17. CASE UNCHANGED vars
    BY <1>17 DEF vars
  <1>. QED
    BY <1>1, <1>2, <1>3, <1>4, <1>5, <1>6, <1>7, <1>8, <1>9, <1>10, <1>11,
       <1>12, <1>13, <1>14, <1>15, <1>16, <1>17
    DEF Next, J, RpcResults

LEMMA OwnerInvariant == Spec => [](TypeOK /\ Owner)
  BY InitType, InitOwner, NextType, NextOwner, PTL DEF Spec

\* An owner is unique, so are the threads alive.
LEMMA OwnerSingle == TypeOK /\ Owner => SingleLoop
  BY DEF TypeOK, Owner, Owned, NullInHandler, SingleLoop

\* The joystick handlers never leave two control loop threads alive.
THEOREM OneControlLoop == Spec => []SingleLoop
  BY OwnerInvariant, OwnerSingle, PTL

\* isControlLoopRunning() = false implies that the policy is paused, which is
\* what makes starting the loop before pausing it in activatePolicyMode safe.
THEOREM NoLoopNoPolicy == Spec => []StoppedIsPaused
  <1>1. Owner => StoppedIsPaused
    BY DEF Owner
  <1>. QED  BY <1>1, OwnerInvariant, PTL

-----------------------------------------------------------------------------
\* What the policy and the resets may publish

\* Once a late command was published, or while the policy runs, none is owed.
LateAccount ==
  /\ AtMostOneLate
  /\ policyRunning => late = 0
  /\ late = 1 => \A i \in LoopIds : ~InFlight(i)

\* A reset thread starts its interpolation at step 0.
FreshCounter == \A t \in ResetIds : reset[t] # "ramp" => step[t] = 0

Publishing == SafeExitQuiet /\ LateAccount /\ FreshCounter /\ SettlesAtDefault

LEMMA InitPublishing == Init => Publishing
  BY DEF Init, Publishing, SafeExitQuiet, LateAccount, SettlesAtDefault,
         FreshCounter, AtMostOneLate, InFlight

LEMMA NextQuiet ==
  TypeOK /\ Owner /\ SafeExitQuiet /\ [Next]_vars => SafeExitQuiet'
  <1>. SUFFICES ASSUME TypeOK, Owner, SafeExitQuiet, [Next]_vars
                PROVE  SafeExitQuiet'
    OBVIOUS
  <1>. USE DEF SafeExitQuiet, InFlight,
               padVars, joyVars, loopVars, modeVars, cmdVars
  <1>1. CASE UNCHANGED <<disarmed, policyRunning, loop>>
    BY <1>1
  <1>2. CASE JExit \/ JPause
    BY <1>2 DEF JExit, JPause
  <1>3. CASE JJoin
    BY <1>3 DEF JJoin, TypeOK
  <1>4. ASSUME NEW t \in ResetIds, JSpawn(t) PROVE SafeExitQuiet'
    \* the one place where disarmed becomes true: no loop is alive
    <2>1. \A i \in LoopIds : loop[i] = "none"
      BY <1>4 DEF JSpawn, Owner, Owned, NullInHandler
    <2>2. ~policyRunning
      BY <1>4 DEF JSpawn, Owner, NullInHandler, StoppedIsPaused
    <2>. QED  BY <1>4, <2>1, <2>2 DEF JSpawn
  <1>5. CASE JToggle
    BY <1>5 DEF JToggle
  <1>6. ASSUME NEW i \in LoopIds, JCreate(i) PROVE SafeExitQuiet'
    BY <1>6 DEF JCreate, TypeOK
  <1>7. ASSUME NEW i \in LoopIds, Tick(i) PROVE SafeExitQuiet'
    BY <1>7 DEF Tick, TickEnter, TickGate, TickInfer, TickWrite, TypeOK
  <1>. QED
    BY <1>1, <1>2, <1>3, <1>4, <1>5, <1>6, <1>7
    DEF Next, J, RpcResults, PadMessage, JTake, JStop, JStopNothing, JActivate,
        JRelease, JCheck, JAssign, Reset, ResetRead, ResetStep, ResetDone,
        ServiceStops, vars

LEMMA NextLate ==
  TypeOK /\ Owner /\ LateAccount /\ [Next]_vars => LateAccount'
  <1>. SUFFICES ASSUME TypeOK, Owner, LateAccount, [Next]_vars
                PROVE  LateAccount'
    OBVIOUS
  <1>. USE DEF LateAccount, AtMostOneLate, InFlight,
               padVars, joyVars, loopVars, modeVars, cmdVars
  <1>1. CASE UNCHANGED <<late, policyRunning, loop>>
    BY <1>1
  <1>2. CASE JExit \/ JPause
    BY <1>2 DEF JExit, JPause
  <1>3. CASE JJoin
    BY <1>3 DEF JJoin, TypeOK
  <1>4. CASE JToggle
    BY <1>4 DEF JToggle, TypeOK
  <1>5. ASSUME NEW i \in LoopIds, JCreate(i) PROVE LateAccount'
    BY <1>5 DEF JCreate, TypeOK
  <1>6. ASSUME NEW i \in LoopIds, Tick(i) PROVE LateAccount'
    <2>1. CASE TickEnter(i) \/ TickGate(i) \/ \E ok \in InferResults : TickInfer(i, ok)
      BY <2>1 DEF TickEnter, TickGate, TickInfer, TypeOK
    <2>2. CASE TickWrite(i)
      <3>1. \A k \in LoopIds : ~InFlight(k)'
        BY <2>2, OwnerSingle DEF TickWrite, SingleLoop, TypeOK
      <3>2. late = 0 /\ late' \in {0, 1} /\ (policyRunning' => late' = 0)
        BY <2>2 DEF TickWrite, TypeOK
      <3>. QED  BY <3>1, <3>2
    <2>. QED  BY <1>6, <2>1, <2>2 DEF Tick
  <1>. QED
    BY <1>1, <1>2, <1>3, <1>4, <1>5, <1>6
    DEF Next, J, RpcResults, PadMessage, JTake, JStop, JStopNothing, JSpawn,
        JActivate, JRelease, JCheck, JAssign, Reset, ResetRead, ResetStep,
        ResetDone, ServiceStops, vars

LEMMA NextFresh == TypeOK /\ FreshCounter /\ [Next]_vars => FreshCounter'
  <1>. SUFFICES ASSUME TypeOK, FreshCounter, [Next]_vars PROVE FreshCounter'
    OBVIOUS
  <1>. USE DEF FreshCounter, padVars, joyVars, loopVars, modeVars, cmdVars
  <1>1. CASE UNCHANGED <<reset, step>>
    BY <1>1
  <1>2. ASSUME NEW t \in ResetIds, JSpawn(t) PROVE FreshCounter'
    BY <1>2 DEF JSpawn, TypeOK
  <1>3. ASSUME NEW t \in ResetIds, Reset(t) PROVE FreshCounter'
    BY <1>3 DEF Reset, ResetRead, ResetStep, ResetDone, TypeOK
  <1>. QED
    BY <1>1, <1>2, <1>3
    DEF Next, J, RpcResults, PadMessage, JTake, JExit, JStop, JStopNothing, JJoin,
        JToggle, JActivate, JRelease, JCheck, JCreate, JAssign, JPause, Tick,
        TickEnter, TickGate, TickInfer, TickWrite, ServiceStops, vars

LEMMA NextSettles ==
  TypeOK /\ SafeExitQuiet /\ FreshCounter /\ SettlesAtDefault /\ [Next]_vars
    => SettlesAtDefault'
  <1>. SUFFICES ASSUME TypeOK, SafeExitQuiet, FreshCounter, SettlesAtDefault,
                       [Next]_vars
                PROVE  SettlesAtDefault'
    OBVIOUS
  <1>. USE DEF SettlesAtDefault, ResetPending, StepsLeft,
               padVars, joyVars, loopVars, modeVars, cmdVars
  <1>1. CASE UNCHANGED <<disarmed, reset, step, lastCmd>>
    BY <1>1
  <1>2. ASSUME NEW t \in ResetIds, JSpawn(t) PROVE SettlesAtDefault'
    BY <1>2 DEF JSpawn, TypeOK
  <1>3. CASE JToggle
    \* a paused policy that is toggled is no longer disarmed
    BY <1>3 DEF JToggle, SafeExitQuiet
  <1>4. ASSUME NEW i \in LoopIds, TickWrite(i) PROVE SettlesAtDefault'
    BY <1>4 DEF TickWrite, SafeExitQuiet, InFlight
  <1>5. ASSUME NEW t \in ResetIds, ResetRead(t) PROVE SettlesAtDefault'
    BY <1>5 DEF ResetRead, FreshCounter, TypeOK
  <1>6. ASSUME NEW t \in ResetIds, ResetStep(t) PROVE SettlesAtDefault'
    <2>1. CASE step[t] = Steps
      BY <1>6, <2>1 DEF ResetStep, DefaultPose
    <2>2. CASE step[t] # Steps
      <3>1. step[t] + 1 <= Steps
        BY <1>6, <2>2 DEF ResetStep, TypeOK
      <3>2. ResetPending(t)'
        BY <1>6, <3>1 DEF ResetStep, TypeOK
      <3>. QED  BY <3>2
    <2>. QED  BY <2>1, <2>2
  <1>7. ASSUME NEW t \in ResetIds, ResetDone(t) PROVE SettlesAtDefault'
    <2>1. ASSUME NEW s \in ResetIds, ResetPending(s) PROVE ResetPending(s)'
      BY <1>7, <2>1 DEF ResetDone, TypeOK
    <2>. QED  BY <1>7, <2>1 DEF ResetDone, DefaultPose, ResetCmd, NoCmd
  <1>. QED
    BY <1>1, <1>2, <1>3, <1>4, <1>5, <1>6, <1>7
    DEF Next, J, RpcResults, PadMessage, JTake, JExit, JStop, JStopNothing, JJoin,
        JActivate, JRelease, JCheck, JCreate, JAssign, JPause, Tick,
        TickEnter, TickGate, TickInfer, Reset, ServiceStops, vars

LEMMA PublishingInvariant == Spec => [](TypeOK /\ Owner /\ Publishing)
  <1>1. TypeOK /\ Owner /\ Publishing /\ [Next]_vars => Publishing'
    BY NextQuiet, NextLate, NextFresh, NextSettles DEF Publishing
  <1>. QED
    BY <1>1, InitType, InitOwner, InitPublishing, NextType, NextOwner, PTL DEF Spec

\* Until the operator toggles the policy on, nothing of the policy reaches the
\* motors: not after a safe exit, and not after an activation.
THEOREM NoPolicyAfterExit == Spec => []SafeExitQuiet
  <1>1. Publishing => SafeExitQuiet
    BY DEF Publishing
  <1>. QED  BY <1>1, PublishingInvariant, PTL

\* However many resets overlap, when they are over and the policy has not been
\* run again the last command is the default pose.
THEOREM ResetsSettle == Spec => []SettlesAtDefault
  <1>1. Publishing => SettlesAtDefault
    BY DEF Publishing
  <1>. QED  BY <1>1, PublishingInvariant, PTL

\* A pause or a safe exit lets at most one computed command through.
THEOREM OneLateCommand == Spec => []AtMostOneLate
  <1>1. Publishing => AtMostOneLate
    BY DEF Publishing, LateAccount
  <1>. QED  BY <1>1, PublishingInvariant, PTL

-----------------------------------------------------------------------------
\* The queue keeps the newest message

LEMMA PutLast ==
  ASSUME NEW S, NEW q \in Seq(S), NEW m \in S
  PROVE  Put(q, m) # <<>> /\ Put(q, m)[Len(Put(q, m))] = m
  <1>. DEFINE r == IF Len(q) >= QueueLen THEN Tail(q) ELSE q
  <1>1. r \in Seq(S)
    <2>1. CASE Len(q) >= QueueLen
      <3>1. q # <<>>
        BY <2>1
      <3>. QED  BY <2>1, <3>1
    <2>. QED  BY <2>1
  <1>2. Append(r, m) # <<>> /\ Append(r, m)[Len(Append(r, m))] = m
    BY <1>1
  <1>. QED  BY <1>2 DEF Put

LEMMA NoneLeft ==
  ASSUME NEW n \in Nat, NEW k \in Nat, k = n - 1, k = 0
  PROVE  n = 1
  OBVIOUS

LEMMA TakeLast ==
  ASSUME NEW S, NEW q \in Seq(S), q # <<>>
  PROVE  IF Tail(q) = <<>> THEN Head(q) = q[Len(q)]
         ELSE Tail(q)[Len(Tail(q))] = q[Len(q)]
  <1>1. Len(Tail(q)) = Len(q) - 1 /\ Len(q) \in Nat \ {0}
        /\ Tail(q) \in Seq(S) /\ Head(q) = q[1]
    BY HeadTailProperties, EmptySeq
  <1>2. \A i \in 1..Len(Tail(q)) : Tail(q)[i] = q[i + 1]
    BY HeadTailProperties
  <1>3. CASE Tail(q) = <<>>
    <2>1. Len(Tail(q)) = 0
      BY <1>1, <1>3, EmptySeq
    <2>2. Len(q) = 1
      <3>1. Len(q) \in Nat /\ Len(Tail(q)) \in Nat /\ Len(Tail(q)) = Len(q) - 1
        BY <1>1, <2>1
      <3>. QED  BY <2>1, <3>1, NoneLeft, Zenon
    <2>. QED  BY <1>1, <1>3, <2>2
  <1>4. CASE Tail(q) # <<>>
    <2>1. Len(Tail(q)) \in 1..Len(Tail(q))
      BY <1>1, <1>4, EmptySeq
    <2>2. Tail(q)[Len(Tail(q))] = q[Len(Tail(q)) + 1]
      BY <1>2, <2>1
    <2>. QED  BY <1>1, <1>4, <2>2
  <1>. QED  BY <1>3, <1>4

LEMMA NextUpToDate == TypeOK /\ PadUpToDate /\ [Next]_vars => PadUpToDate'
  <1>. SUFFICES ASSUME TypeOK, PadUpToDate, [Next]_vars PROVE PadUpToDate'
    OBVIOUS
  <1>. USE DEF PadUpToDate, padVars, joyVars, loopVars, modeVars, cmdVars
  <1>1. ASSUME NEW b \in SUBSET Buttons, PadMessage(b) PROVE PadUpToDate'
    BY <1>1, PutLast DEF PadMessage, TypeOK
  <1>2. CASE JTake
    <2>1. mailbox \in Seq(SUBSET Buttons) /\ mailbox # <<>>
      BY <1>2 DEF JTake, TypeOK
    <2>. QED  BY <1>2, <2>1, TakeLast DEF JTake
  <1>3. CASE UNCHANGED <<held, mailbox, pad>>
    BY <1>3
  <1>. QED
    BY <1>1, <1>2, <1>3
    DEF Next, J, RpcResults, JExit, JStop, JStopNothing, JJoin, JSpawn, JToggle,
        JActivate, JRelease, JCheck, JCreate, JAssign, JPause, Tick, TickEnter,
        TickGate, TickInfer, TickWrite, Reset, ResetRead, ResetStep, ResetDone,
        ServiceStops, vars

\* Whatever was evicted, the newest gamepad message is the last in the queue or
\* the one that was handled last.
THEOREM NewestMessageKept == Spec => []PadUpToDate
  <1>1. Init => PadUpToDate
    BY DEF Init, PadUpToDate
  <1>. QED  BY <1>1, TypeCorrect, NextUpToDate, PTL DEF Spec

-----------------------------------------------------------------------------
\* The motion service and the policy, when no CheckMode call fails

\* A control loop exists, and a policy command was published, only once the
\* motion service stopped; nothing of the node starts the service again.
ReleasedFirst ==
  misread \/ service = "none" \/
    /\ controlThread = NoThread /\ jpc \notin {"create", "assign"}
    /\ \A i \in LoopIds : loop[i] = "none"
    /\ lastCmd.src # "policy"

LEMMA NextReleased ==
  ASSUME TypeOK, Owner, ReleasedFirst, [Next]_vars
  PROVE  ReleasedFirst'
  <1>. USE DEF ReleasedFirst, padVars, joyVars, loopVars, modeVars, cmdVars, robotVars
  <1>1. CASE misread
    <2>1. misread'
      BY <1>1
      DEF Next, J, RpcResults, PadMessage, JTake, JExit, JStop, JStopNothing, JJoin,
          JSpawn, JToggle, JActivate, JRelease, JCheck, JCreate, JAssign, JPause,
          Tick, TickEnter, TickGate, TickInfer, TickWrite, Reset, ResetRead,
          ResetStep, ResetDone, ServiceStops, vars
    <2>. QED  BY <2>1
  <1>3. CASE service = "none"
    <2>1. service' = "none"
      BY <1>3
      DEF Next, J, RpcResults, PadMessage, JTake, JExit, JStop, JStopNothing, JJoin,
          JSpawn, JToggle, JActivate, JRelease, JCheck, JCreate, JAssign, JPause,
          Tick, TickEnter, TickGate, TickInfer, TickWrite, Reset, ResetRead,
          ResetStep, ResetDone, ServiceStops, vars
    <2>. QED  BY <2>1
  <1>2. CASE ~misread /\ service # "none"
    <2>. USE <1>2
    <2>1. CASE UNCHANGED <<controlThread, loop, lastCmd>> /\ jpc' \notin {"create", "assign"}
      BY <2>1
    <2>2. CASE \E ok \in BOOLEAN : JCheck(ok)
      BY <2>2 DEF JCheck
    <2>3. ASSUME NEW t \in ResetIds, Reset(t) PROVE ReleasedFirst'
      BY <2>3 DEF Reset, ResetRead, ResetStep, ResetDone, ResetCmd
    <2>4. CASE ServiceStops
      BY <2>4 DEF ServiceStops
    <2>5. ASSUME NEW i \in LoopIds, Tick(i) PROVE FALSE
      BY <2>5 DEF Tick, TickEnter, TickGate, TickInfer, TickWrite
    <2>6. ~JAssign /\ ~JJoin /\ ~JStop /\ \A i \in LoopIds : ~JCreate(i)
      BY DEF JAssign, JJoin, JStop, JCreate, Owner, HoldsThread
    <2>. QED
      BY <2>1, <2>2, <2>3, <2>4, <2>5, <2>6
      DEF Next, J, RpcResults, PadMessage, JTake, JExit, JStopNothing, JSpawn,
          JToggle, JActivate, JRelease, JPause, Handler, vars
  <1>. QED  BY <1>1, <1>2, <1>3

\* Unless a CheckMode call has failed, no policy command is computed or
\* published before the motion service has stopped.
THEOREM ReleaseBeforePolicy == Spec => []PolicyOnlyAfterRelease
  <1>1. Init => ReleasedFirst
    BY DEF Init, ReleasedFirst, NoCmd
  <1>2. ReleasedFirst => PolicyOnlyAfterRelease
    BY DEF ReleasedFirst, PolicyOnlyAfterRelease, InFlight
  <1>3. TypeOK /\ Owner /\ ReleasedFirst /\ [Next]_vars => ReleasedFirst'
    BY NextReleased
  <1>. QED  BY <1>1, <1>2, <1>3, OwnerInvariant, PTL DEF Spec

-----------------------------------------------------------------------------
\* The node implements its mode machine

USE DEF Modes!vars

\* Only the ticks and the end of a loop can change whether a command is being
\* computed, only the handler and the two fields it writes the mode.
LEMMA SameComputing ==
  ASSUME \A i \in LoopIds : InFlight(i)' <=> InFlight(i)
  PROVE  UNCHANGED Computing
  BY Zenon DEF Computing

LEMMA SameMode ==
  ASSUME UNCHANGED <<controlThread, policyRunning>>,
         jpc' = jpc \/ (jpc \in {"idle", "l1", "l2"} /\ jpc' \in {"idle", "l1", "l2"})
  PROVE  UNCHANGED Mode
  BY DEF Mode

LEMMA ModesInit == Init => Modes!Init
  BY DEF Init, Modes!Init, Mode, Computing, InFlight

\* A tick only computes in the running mode, and is the only one to do so.
LEMMA TickModes ==
  ASSUME TypeOK, Owner, NEW i \in LoopIds, Tick(i)
  PROVE  [Modes!Next]_(Modes!vars)
  <1>. USE DEF padVars, joyVars, modeVars, cmdVars
  <1>1. UNCHANGED Mode
    BY SameMode DEF Tick, TickEnter, TickGate, TickInfer, TickWrite
  <1>2. \A k \in LoopIds \ {i} : loop'[k] = loop[k]
    BY DEF Tick, TickEnter, TickGate, TickInfer, TickWrite, TypeOK
  <1>3. \A k \in LoopIds \ {i} : ~InFlight(k) \/ loop[i] = "none"
    BY OwnerSingle DEF SingleLoop, InFlight
  <1>4. loop[i] # "none" /\ loop' = [loop EXCEPT ![i] = loop'[i]]
        /\ loop \in [LoopIds -> {"none", "idle", "gate", "infer", "write"}]
    BY DEF Tick, TickEnter, TickGate, TickInfer, TickWrite, TypeOK
  <1>5. Computing <=> InFlight(i)
    BY <1>3, <1>4 DEF Computing
  <1>6. Computing' <=> InFlight(i)'
    BY <1>2, <1>3, <1>4 DEF Computing, InFlight
  <1>7. CASE InFlight(i)' <=> InFlight(i)
    <2>1. UNCHANGED Computing
      BY <1>5, <1>6, <1>7 DEF Computing
    <2>. QED  BY <1>1, <2>1
  <1>8. CASE InFlight(i)' /\ ~InFlight(i)
    <2>1. policyRunning
      BY <1>4, <1>8 DEF Tick, TickEnter, TickGate, TickInfer, TickWrite, InFlight
    <2>2. Mode = "running"
      BY <2>1 DEF Mode, Owner, NullInHandler, PausedInHandler, StoppedIsPaused
    <2>3. ~Computing /\ Computing' = TRUE
      BY <1>5, <1>6, <1>8 DEF Computing
    <2>. QED  BY <1>1, <2>2, <2>3 DEF Modes!Next, Modes!Compute
  <1>9. CASE ~InFlight(i)' /\ InFlight(i)
    <2>1. Computing /\ Computing' = FALSE
      BY <1>5, <1>6, <1>9 DEF Computing
    <2>. QED  BY <1>1, <2>1 DEF Modes!Next, Modes!Finish
  <1>. QED  BY <1>7, <1>8, <1>9

LEMMA HandlerModes ==
  ASSUME TypeOK, Owner, J
  PROVE  [Modes!Next]_(Modes!vars)
  <1>. USE DEF padVars, joyVars, loopVars, modeVars, cmdVars
  <1>1. UNCHANGED Computing
    BY SameComputing
    DEF J, JTake, JExit, JStop, JStopNothing, JJoin, JSpawn, JToggle, JActivate,
        JRelease, JCheck, JCreate, JAssign, JPause, InFlight, TypeOK
  <1>2. CASE JTake
    BY <1>1, <1>2, SameMode DEF JTake, Handler
  <1>3. CASE JExit
    <2>1. Mode \in {"off", "paused", "running"} /\ Mode' = "exiting"
      BY <1>3 DEF JExit, Mode
    <2>. QED  BY <1>1, <2>1 DEF Modes!Next, Modes!Exit
  <1>4. CASE JStop \/ JStopNothing \/ JJoin
    <2>1. Mode = "exiting" /\ Mode' = "exiting"
      BY <1>4 DEF JStop, JStopNothing, JJoin, Mode
    <2>. QED  BY <1>1, <2>1
  <1>5. ASSUME NEW t \in ResetIds, JSpawn(t) PROVE Modes!Exited
    <2>1. controlThread = NoThread /\ \A i \in LoopIds : loop[i] = "none"
      BY <1>5 DEF JSpawn, Owner, Owned, NullInHandler
    <2>2. ~Computing
      BY <2>1 DEF Computing, InFlight
    <2>3. Mode = "exiting" /\ Mode' = "off"
      BY <1>5, <2>1 DEF JSpawn, Mode, Handler
    <2>. QED  BY <1>1, <2>2, <2>3 DEF Modes!Exited
  <1>6. CASE JToggle
    <2>1. CASE policyRunning
      <3>1. Mode = "running" /\ Mode' = "paused"
        BY <1>6, <2>1 DEF JToggle, Mode
      <3>. QED  BY <1>1, <3>1 DEF Modes!Next, Modes!Pause
    <2>2. CASE ~policyRunning
      <3>1. Mode = "paused" /\ Mode' = "running"
        BY <1>6, <2>2 DEF JToggle, Mode
      <3>. QED  BY <1>1, <3>1 DEF Modes!Next, Modes!Run
    <2>. QED  BY <2>1, <2>2
  <1>7. CASE JActivate
    <2>1. Mode = "off" /\ Mode' = "activating"
      BY <1>7 DEF JActivate, Mode
    <2>. QED  BY <1>1, <2>1 DEF Modes!Next, Modes!Activate
  <1>8. CASE (\E ok \in RpcResults : JRelease(ok) \/ JCheck(ok))
             \/ \E i \in LoopIds : JCreate(i)
    <2>1. Mode = "activating" /\ Mode' = "activating"
      BY <1>8 DEF JRelease, JCheck, JCreate, Mode, Owner, NullInHandler
    <2>. QED  BY <1>1, <2>1
  <1>9. CASE JAssign
    \* the new control_thread_ is a thread, and the policy is still paused
    <2>1. Mode = "activating"
      BY <1>9 DEF JAssign, Mode, Owner, NullInHandler
    <2>2. ~policyRunning' /\ jpc' = "pause" /\ controlThread' # NoThread
      BY <1>9 DEF JAssign, Owner, NullInHandler, StoppedIsPaused, HoldsThread
    <2>3. Mode' = "paused"
      BY <2>2 DEF Mode
    <2>. QED  BY <1>1, <2>1, <2>3 DEF Modes!Next, Modes!Ready
  <1>10. CASE JPause
    <2>1. Mode' = Mode
      BY <1>10 DEF JPause, Mode, Owner, PausedInHandler
    <2>. QED  BY <1>1, <2>1
  <1>. QED
    BY <1>2, <1>3, <1>4, <1>5, <1>6, <1>7, <1>8, <1>9, <1>10 DEF J, Modes!Next

\* PolicyNode implements PolicyModes: each step of the node's threads is one of
\* the mode machine or leaves mode and computing alone.
THEOREM NodeImplementsModes == Spec => ModesSpec
  <1>1. TypeOK /\ Owner /\ [Next]_vars => [Modes!Next]_(Modes!vars)
    <2>. SUFFICES ASSUME TypeOK, Owner, [Next]_vars
                  PROVE  [Modes!Next]_(Modes!vars)
      OBVIOUS
    <2>. USE DEF padVars, joyVars, loopVars, modeVars, cmdVars
    <2>1. CASE J
      BY <2>1, HandlerModes
    <2>2. ASSUME NEW i \in LoopIds, Tick(i) PROVE [Modes!Next]_(Modes!vars)
      BY <2>2, TickModes
    <2>3. CASE UNCHANGED <<jpc, controlThread, policyRunning, loop>>
      <3>1. UNCHANGED Mode
        BY <2>3, SameMode
      <3>2. UNCHANGED Computing
        BY <2>3, SameComputing DEF InFlight
      <3>. QED  BY <3>1, <3>2
    <2>. QED
      BY <2>1, <2>2, <2>3
      DEF Next, PadMessage, Reset, ResetRead, ResetStep, ResetDone, ServiceStops, vars
  <1>. QED
    BY <1>1, ModesInit, OwnerInvariant, PTL DEF Spec, ModesSpec, Modes!Spec

\* The mode machine's own promise: no policy command is being computed without
\* a control loop.
THEOREM ModesAreQuiet == Modes!Spec => []Modes!Quiet
  <1>1. Modes!Init => Modes!Quiet
    BY DEF Modes!Init, Modes!Quiet
  <1>2. Modes!Quiet /\ [Modes!Next]_(Modes!vars) => Modes!Quiet'
    BY DEF Modes!Quiet, Modes!Next, Modes!Activate, Modes!Ready, Modes!Run,
           Modes!Pause, Modes!Exit, Modes!Exited, Modes!Compute, Modes!Finish
  <1>. QED  BY <1>1, <1>2, PTL DEF Modes!Spec

-----------------------------------------------------------------------------
\* The node's threads command the motors as LowCmdBuffer takes it

Writing(i) == loop[i] = "write"
Started(t) == reset[t] # "none"

\* Only L2, the spawn and the end of a reset, and the two ends of a tick's call
\* are visible.
LEMMA SameAccess ==
  ASSUME UNCHANGED disarmed, \A i \in LoopIds : Writing(i)' <=> Writing(i),
         \A t \in ResetIds : Started(t)' <=> Started(t)
  PROVE  UNCHANGED Access!accessVars
  <1>1. {i \in LoopIds : loop'[i] = "write"} = {i \in LoopIds : loop[i] = "write"}
    BY Zenon DEF Writing
  <1>2. {t \in ResetIds : reset'[t] # "none"} = {t \in ResetIds : reset[t] # "none"}
    BY Zenon DEF Started
  <1>. QED  BY <1>1, <1>2 DEF Access!accessVars

LEMMA HandlerAccess ==
  ASSUME TypeOK, Owner, J
  PROVE  [Access!Next]_(Access!accessVars)
  <1>. USE DEF padVars, loopVars, modeVars, cmdVars, Writing, Started
  <1>1. CASE \/ JTake \/ JExit \/ JStop \/ JStopNothing \/ JActivate
             \/ \E ok \in RpcResults : JRelease(ok) \/ JCheck(ok)
             \/ JAssign \/ JPause
    <2>1. UNCHANGED <<disarmed, loop, reset>>
      BY <1>1 DEF JTake, JExit, JStop, JStopNothing, JActivate, JRelease, JCheck,
                  JAssign, JPause
    <2>. QED  BY <2>1, SameAccess
  <1>2. CASE JJoin
    <2>1. \A i \in LoopIds : Writing(i)' <=> Writing(i)
      BY <1>2 DEF JJoin, TypeOK
    <2>. QED  BY <1>2, <2>1, SameAccess DEF JJoin
  <1>3. ASSUME NEW i \in LoopIds, JCreate(i) PROVE [Access!Next]_(Access!accessVars)
    <2>1. \A k \in LoopIds : Writing(k)' <=> Writing(k)
      BY <1>3 DEF JCreate, TypeOK
    <2>. QED  BY <1>3, <2>1, SameAccess DEF JCreate
  <1>4. CASE JToggle
    <2>1. UNCHANGED <<loop, reset>> /\ disarmed' = (disarmed /\ policyRunning)
      BY <1>4 DEF JToggle
    <2>2. CASE disarmed' = disarmed
      BY <2>1, <2>2, SameAccess
    <2>3. CASE disarmed' # disarmed
      <3>1. ~disarmed'
        BY <2>1, <2>3 DEF TypeOK
      <3>. QED  BY <2>1, <3>1 DEF Access!Next, Access!Arm
    <2>. QED  BY <2>2, <2>3
  <1>5. ASSUME NEW t \in ResetIds, JSpawn(t) PROVE [Access!Next]_(Access!accessVars)
    <2>1. \A i \in LoopIds : loop[i] # "write"
      BY <1>5 DEF JSpawn, Owner, Owned, NullInHandler
    <2>2. {u \in ResetIds : reset'[u] # "none"}
            = {u \in ResetIds : reset[u] # "none"} \cup {t}
      BY <1>5 DEF JSpawn, TypeOK
    <2>3. reset[t] = "none" /\ UNCHANGED loop /\ disarmed'
      BY <1>5 DEF JSpawn
    <2>4. Access!SafeExit(t)
      BY <2>1, <2>2, <2>3 DEF Access!SafeExit
    <2>. QED  BY <2>4 DEF Access!Next
  <1>. QED  BY <1>1, <1>2, <1>3, <1>4, <1>5 DEF J

LEMMA TickAccess ==
  ASSUME TypeOK, SafeExitQuiet, NEW i \in LoopIds, Tick(i)
  PROVE  [Access!Next]_(Access!accessVars)
  <1>. USE DEF joyVars, modeVars, cmdVars, Writing, Started
  <1>1. CASE TickEnter(i) \/ TickGate(i) \/ TickInfer(i, FALSE)
    <2>1. \A k \in LoopIds : Writing(k)' <=> Writing(k)
      BY <1>1 DEF TickEnter, TickGate, TickInfer, TypeOK
    <2>. QED  BY <1>1, <2>1, SameAccess DEF TickEnter, TickGate, TickInfer
  <1>2. CASE TickInfer(i, TRUE)
    <2>1. ~disarmed /\ loop[i] = "infer"
      BY <1>2 DEF TickInfer, SafeExitQuiet, InFlight
    <2>2. {k \in LoopIds : loop'[k] = "write"} = {k \in LoopIds : loop[k] = "write"} \cup {i}
      BY <1>2 DEF TickInfer, TypeOK
    <2>3. Access!Enter(i)
      BY <1>2, <2>1, <2>2 DEF TickInfer, Access!Enter
    <2>. QED  BY <2>3 DEF Access!Next
  <1>3. CASE TickWrite(i)
    <2>1. {k \in LoopIds : loop'[k] = "write"} = {k \in LoopIds : loop[k] = "write"} \ {i}
      BY <1>3 DEF TickWrite, TypeOK
    <2>2. loop[i] = "write" /\ UNCHANGED <<disarmed, reset>>
      BY <1>3 DEF TickWrite
    <2>3. Access!Leave(i)
      BY <2>1, <2>2 DEF Access!Leave
    <2>. QED  BY <2>3 DEF Access!Next
  <1>. QED  BY <1>1, <1>2, <1>3 DEF Tick, InferResults

LEMMA ResetAccess ==
  ASSUME TypeOK, NEW t \in ResetIds, Reset(t)
  PROVE  [Access!Next]_(Access!accessVars)
  <1>. USE DEF loopVars, modeVars, Writing, Started
  <1>1. CASE ResetRead(t) \/ ResetStep(t)
    <2>1. \A u \in ResetIds : Started(u)' <=> Started(u)
      BY <1>1 DEF ResetRead, ResetStep, TypeOK
    <2>. QED  BY <1>1, <2>1, SameAccess DEF ResetRead, ResetStep
  <1>2. CASE ResetDone(t)
    <2>1. {u \in ResetIds : reset'[u] # "none"} = {u \in ResetIds : reset[u] # "none"} \ {t}
      BY <1>2 DEF ResetDone, TypeOK
    <2>2. reset[t] = "ramp" /\ UNCHANGED <<disarmed, loop>>
      BY <1>2 DEF ResetDone
    <2>3. Access!Complete(t)
      BY <2>1, <2>2 DEF Access!Complete
    <2>. QED  BY <2>3 DEF Access!Next
  <1>. QED  BY <1>1, <1>2 DEF Reset

\* Whatever the operator presses, the threads enter applyPositionControl only as
\* LowCmdBuffer, which takes that call apart, assumes of them.
THEOREM NodeFollowsAccess == Spec => AccessSpec
  <1>1. Init => Access!Init
    BY DEF Init, Access!Init
  <1>2. TypeOK /\ Owner /\ SafeExitQuiet /\ [Next]_vars => [Access!Next]_(Access!accessVars)
    <2>. SUFFICES ASSUME TypeOK, Owner, SafeExitQuiet, [Next]_vars
                  PROVE  [Access!Next]_(Access!accessVars)
      OBVIOUS
    <2>1. CASE UNCHANGED <<disarmed, loop, reset>>
      BY <2>1, SameAccess DEF Writing, Started
    <2>. QED
      BY <2>1, HandlerAccess, TickAccess, ResetAccess
      DEF Next, PadMessage, ServiceStops, vars, joyVars, loopVars, modeVars, cmdVars
  <1>3. Publishing => SafeExitQuiet
    BY DEF Publishing
  <1>. QED
    BY <1>1, <1>2, <1>3, PublishingInvariant, PTL DEF Spec, AccessSpec, Access!Spec

\* Until the operator runs it again, no policy is in applyPositionControl once the
\* reset of a safe exit has begun.
THEOREM AccessIsArmed == Access!Spec => []Access!PolicyIsArmed
  <1>1. Access!Init => Access!PolicyIsArmed
    BY DEF Access!Init, Access!PolicyIsArmed
  <1>2. Access!PolicyIsArmed /\ [Access!Next]_(Access!accessVars) => Access!PolicyIsArmed'
    BY DEF Access!PolicyIsArmed, Access!Next, Access!Arm, Access!SafeExit, Access!Complete,
           Access!Enter, Access!Leave, Access!accessVars
  <1>. QED  BY <1>1, <1>2, PTL DEF Access!Spec

-----------------------------------------------------------------------------
\* The handler returns. Fairness is what it is in PolicyNode, with the guards of the
\* actions written out: the provers know nothing of ENABLED.

\* the process can create one more thread: some reset that was started is complete
ThreadAvailable == \E t \in ResetIds : reset[t] = "none"

\* J is in a handler and does not wait
HandlerReady ==
  \/ jpc \in {"l1", "stop", "l2", "release", "check", "assign", "pause"}
  \/ jpc = "join" /\ loop[temp] = "idle"
  \/ jpc = "spawn" /\ ThreadAvailable
  \/ jpc = "create" /\ controlThread = NoThread /\ \E i \in LoopIds : loop[i] = "none"

LoopBusy == \E i \in LoopIds : loop[i] \in {"gate", "infer", "write"}
Ticks == \E i \in LoopIds : Tick(i)

\* weak fairness of J and of the loop that is in a tick
ThreadsGoOn ==
  /\ []<>~HandlerReady \/ []<><<J>>_vars
  /\ []<>~LoopBusy \/ []<><<Ticks>>_vars

\* strong fairness of an accepted release, weak fairness of its effect
ServiceAnswers ==
  /\ []<>(jpc = "release") => []<><<JRelease(TRUE)>>_vars
  /\ []<>~(service = "stopping") \/ []<><<ServiceStops>>_vars

\* control_thread_ and the handler only hold threads that are alive: a thread that
\* is joined can end its tick. The L1 of a safe exit was taken.
Alive ==
  /\ controlThread # NoThread => loop[controlThread] # "none"
  /\ jpc \in {"join", "assign"} => loop[temp] # "none"
  /\ jpc \in {"stop", "join", "spawn"} => "L1" \notin onPress

LEMMA NextAlive == TypeOK /\ Owner /\ Alive /\ [Next]_vars => Alive'
  <1>. SUFFICES ASSUME TypeOK, Owner, Alive, [Next]_vars PROVE Alive'
    OBVIOUS
  <1>. USE DEF Alive, padVars, joyVars, loopVars, modeVars, cmdVars
  <1>1. CASE JTake
    BY <1>1 DEF JTake, Handler
  <1>2. CASE JExit \/ JStop \/ JStopNothing
    BY <1>2 DEF JExit, JStop, JStopNothing
  <1>3. CASE JJoin
    BY <1>3 DEF JJoin, TypeOK, Owner, NullInHandler
  <1>4. ASSUME NEW t \in ResetIds, JSpawn(t) PROVE Alive'
    BY <1>4 DEF JSpawn, Handler
  <1>5. CASE JToggle \/ JActivate \/ JAssign \/ JPause
    BY <1>5 DEF JToggle, JActivate, JAssign, JPause
  <1>6. ASSUME NEW ok \in BOOLEAN, JRelease(ok) \/ JCheck(ok) PROVE Alive'
    BY <1>6 DEF JRelease, JCheck
  <1>7. ASSUME NEW i \in LoopIds, JCreate(i) PROVE Alive'
    BY <1>7 DEF JCreate, TypeOK
  <1>8. ASSUME NEW i \in LoopIds, Tick(i) PROVE Alive'
    BY <1>8 DEF Tick, TickEnter, TickGate, TickInfer, TickWrite, TypeOK, Owner, HoldsThread
  <1>9. CASE UNCHANGED <<joyVars, loopVars>>
    BY <1>9
  <1>. QED
    BY <1>1, <1>2, <1>3, <1>4, <1>5, <1>6, <1>7, <1>8, <1>9
    DEF Next, J, RpcResults, PadMessage, Reset, ResetRead, ResetStep, ResetDone,
        ServiceStops, vars

LiveInv == TypeOK /\ Owner /\ Alive

LEMMA LiveInvariant == Spec => []LiveInv
  <1>1. Init => Alive
    BY DEF Init, Alive
  <1>. QED  BY <1>1, NextAlive, OwnerInvariant, PTL DEF Spec, LiveInv

\* Only J moves J.
LEMMA OthersWait == [Next]_vars /\ ~J => UNCHANGED <<jpc, temp>>
  BY DEF Next, PadMessage, Tick, TickEnter, TickGate, TickInfer, TickWrite, Reset,
         ResetRead, ResetStep, ResetDone, ServiceStops, vars, joyVars, loopVars

\* The motion service does not come back by itself.
LEMMA ServiceNeverBack ==
  ASSUME [Next]_vars
  PROVE  /\ service = "none" => service' = "none"
         /\ service = "stopping" => service' \in {"stopping", "none"}
  BY DEF Next, PadMessage, J, JTake, JExit, JStop, JStopNothing, JJoin, JSpawn, JToggle,
         JActivate, JRelease, JCheck, JCreate, JAssign, JPause, RpcResults, Tick, TickEnter,
         TickGate, TickInfer, TickWrite, InferResults, Reset, ResetRead, ResetStep,
         ResetDone, ServiceStops, vars, robotVars

\* where a step of J goes from each of its places
LEMMA HandlerStep ==
  ASSUME LiveInv, J
  PROVE  /\ jpc = "l1" => jpc' = "stop"
         /\ jpc = "stop" => jpc' \in {"join", "spawn"}
         /\ jpc = "join" => jpc' = "spawn"
         /\ jpc = "spawn" => /\ jpc' \in {"l2", "idle"}
                             /\ disarmed' /\ \E t \in ResetIds : ResetPending(t)'
         /\ jpc = "l2" => jpc' \in {"release", "idle"}
         /\ jpc = "release" => jpc' = "check"
         /\ jpc = "check" => /\ jpc' \in {"release", "create"}
                             /\ service = "none" => jpc' = "create"
         /\ jpc = "create" => jpc' = "assign"
         /\ jpc = "assign" => jpc' = "pause"
         /\ jpc = "pause" => jpc' = "idle"
  <1>. USE DEF LiveInv
  <1>1. CASE JTake
    BY <1>1 DEF JTake
  <1>2. CASE JExit \/ JStop \/ JStopNothing \/ JJoin
    BY <1>2 DEF JExit, JStop, JStopNothing, JJoin
  <1>3. ASSUME NEW t \in ResetIds, JSpawn(t)
        PROVE  /\ jpc = "spawn" /\ jpc' \in {"l2", "idle"}
               /\ disarmed' /\ \E u \in ResetIds : ResetPending(u)'
    <2>1. ResetPending(t)'
      BY <1>3 DEF JSpawn, ResetPending, TypeOK
    <2>. QED  BY <1>3, <2>1 DEF JSpawn, Handler, Alive
  <1>4. CASE JToggle \/ JActivate \/ JAssign \/ JPause
    BY <1>4 DEF JToggle, JActivate, JAssign, JPause
  <1>5. ASSUME NEW ok \in BOOLEAN, JRelease(ok) \/ JCheck(ok)
        PROVE  /\ jpc = "release" => jpc' = "check"
               /\ jpc = "check" => /\ jpc' \in {"release", "create"}
                                   /\ service = "none" => jpc' = "create"
               /\ jpc \in {"release", "check"}
    BY <1>5 DEF JRelease, JCheck
  <1>6. ASSUME NEW i \in LoopIds, JCreate(i) PROVE jpc = "create" /\ jpc' = "assign"
    BY <1>6 DEF JCreate
  <1>. QED  BY <1>1, <1>2, <1>3, <1>4, <1>5, <1>6 DEF J, RpcResults

\* Only J uses up threads.
LEMMA AvailableStays ==
  LiveInv /\ jpc = "spawn" /\ ThreadAvailable /\ [Next]_vars /\ (jpc = "spawn")' =>
    ThreadAvailable'
  <1>. SUFFICES ASSUME LiveInv, jpc = "spawn", ThreadAvailable, [Next]_vars, jpc' = "spawn"
                PROVE  ThreadAvailable'
    OBVIOUS
  <1>1. PICK t \in ResetIds : reset[t] = "none"
    BY DEF ThreadAvailable
  <1>2. ASSUME NEW u \in ResetIds, Reset(u) PROVE reset'[t] = "none"
    BY <1>1, <1>2 DEF Reset, ResetRead, ResetStep, ResetDone, LiveInv, TypeOK
  <1>3. CASE UNCHANGED reset
    BY <1>1, <1>3 DEF ThreadAvailable
  <1>4. ~J
    BY HandlerStep
  <1>. QED
    BY <1>2, <1>3, <1>4 DEF Next, ThreadAvailable, PadMessage, Tick, TickEnter, TickGate,
       TickInfer, TickWrite, ServiceStops, vars, modeVars, cmdVars

\* J waits for a tick, and the tick for nobody.
JoinsAt(p) == jpc = "join" /\ loop[temp] = p

LEMMA JoinStep ==
  ASSUME LiveInv, [Next]_vars, jpc = "join", ~J
  PROVE  /\ jpc' = "join"
         /\ loop[temp] = "idle" => loop'[temp'] = "idle"
         /\ Ticks \/ loop'[temp'] # loop[temp] =>
              \/ loop[temp] = "gate" /\ loop'[temp'] \in {"infer", "idle"}
              \/ loop[temp] = "infer" /\ loop'[temp'] \in {"write", "idle"}
              \/ loop[temp] = "write" /\ loop'[temp'] = "idle"
  <1>1. jpc' = "join" /\ temp' = temp /\ temp \in LoopIds /\ controlThread = NoThread
    BY OthersWait DEF LiveInv, Owner, HoldsThread, NullInHandler
  <1>2. ASSUME NEW i \in LoopIds, Tick(i)
        PROVE  \/ loop[temp] = "gate" /\ loop'[temp] \in {"infer", "idle"}
               \/ loop[temp] = "infer" /\ loop'[temp] \in {"write", "idle"}
               \/ loop[temp] = "write" /\ loop'[temp] = "idle"
    <2>1. i = temp
      BY <1>1, <1>2 DEF Tick, TickEnter, TickGate, TickInfer, TickWrite, LiveInv, Owner, Owned
    <2>. QED
      BY <1>1, <1>2, <2>1 DEF Tick, TickEnter, TickGate, TickInfer, TickWrite, LiveInv, TypeOK
  <1>3. CASE Ticks
    BY <1>1, <1>2, <1>3 DEF Ticks
  <1>4. CASE ~Ticks
    <2>1. UNCHANGED loop
      BY <1>4 DEF Next, Ticks, PadMessage, Reset, ResetRead, ResetStep, ResetDone,
                  ServiceStops, vars, loopVars
    <2>. QED  BY <1>1, <1>4, <2>1
  <1>. QED  BY <1>3, <1>4

LEMMA JoinEnds == Spec /\ ThreadsGoOn => (jpc = "join" ~> jpc = "spawn")
  <1>1. LiveInv /\ jpc = "join" =>
          JoinsAt("gate") \/ JoinsAt("infer") \/ JoinsAt("write") \/ JoinsAt("idle")
    BY DEF LiveInv, TypeOK, Owner, HoldsThread, Alive, JoinsAt
  <1>2. /\ JoinsAt("gate") \/ JoinsAt("infer") \/ JoinsAt("write") => (LiveInv => LoopBusy)
        /\ JoinsAt("idle") => HandlerReady
    BY DEF JoinsAt, LoopBusy, HandlerReady, LiveInv, Owner, HoldsThread
  <1>3. LiveInv /\ JoinsAt("gate") /\ [Next]_vars =>
          JoinsAt("gate")' \/ JoinsAt("infer")' \/ JoinsAt("idle")' \/ (jpc = "spawn")'
    BY JoinStep, HandlerStep DEF JoinsAt
  <1>4. LiveInv /\ JoinsAt("gate") /\ [Next]_vars /\ <<Ticks>>_vars =>
          JoinsAt("infer")' \/ JoinsAt("idle")' \/ (jpc = "spawn")'
    BY JoinStep, HandlerStep DEF JoinsAt
  <1>5. LiveInv /\ JoinsAt("infer") /\ [Next]_vars =>
          JoinsAt("infer")' \/ JoinsAt("write")' \/ JoinsAt("idle")' \/ (jpc = "spawn")'
    BY JoinStep, HandlerStep DEF JoinsAt
  <1>6. LiveInv /\ JoinsAt("infer") /\ [Next]_vars /\ <<Ticks>>_vars =>
          JoinsAt("write")' \/ JoinsAt("idle")' \/ (jpc = "spawn")'
    BY JoinStep, HandlerStep DEF JoinsAt
  <1>7. LiveInv /\ JoinsAt("write") /\ [Next]_vars =>
          JoinsAt("write")' \/ JoinsAt("idle")' \/ (jpc = "spawn")'
    BY JoinStep, HandlerStep DEF JoinsAt
  <1>8. LiveInv /\ JoinsAt("write") /\ [Next]_vars /\ <<Ticks>>_vars =>
          JoinsAt("idle")' \/ (jpc = "spawn")'
    BY JoinStep, HandlerStep DEF JoinsAt
  <1>9. LiveInv /\ JoinsAt("idle") /\ [Next]_vars => JoinsAt("idle")' \/ (jpc = "spawn")'
    BY JoinStep, HandlerStep DEF JoinsAt
  <1>10. LiveInv /\ JoinsAt("idle") /\ <<J>>_vars => (jpc = "spawn")'
    BY HandlerStep DEF JoinsAt
  <1>. QED
    BY <1>1, <1>2, <1>3, <1>4, <1>5, <1>6, <1>7, <1>8, <1>9, <1>10,
       LiveInvariant, PTL DEF Spec, ThreadsGoOn

\* the places in which J goes on by itself
ResetOwed == disarmed /\ \E t \in ResetIds : ResetPending(t)

LEMMA HandlerGoesOn ==
  Spec /\ ThreadsGoOn /\ []<>ThreadAvailable =>
    /\ jpc = "l1" ~> jpc = "stop"
    /\ jpc = "stop" ~> (jpc = "join" \/ jpc = "spawn")
    /\ jpc = "spawn" ~> ResetOwed
    /\ jpc = "spawn" ~> (jpc = "l2" \/ jpc = "idle")
    /\ jpc = "l2" ~> (jpc = "release" \/ jpc = "idle")
  <1>1. LiveInv /\ jpc = "l1" /\ [Next]_vars => (jpc = "l1")' \/ (jpc = "stop")'
    BY OthersWait, HandlerStep
  <1>2. LiveInv /\ jpc = "l1" /\ <<J>>_vars => (jpc = "stop")'
    BY HandlerStep
  <1>3. LiveInv /\ jpc = "stop" /\ [Next]_vars =>
          (jpc = "stop")' \/ (jpc = "join")' \/ (jpc = "spawn")'
    BY OthersWait, HandlerStep
  <1>4. LiveInv /\ jpc = "stop" /\ <<J>>_vars => (jpc = "join")' \/ (jpc = "spawn")'
    BY HandlerStep
  <1>5. LiveInv /\ jpc = "spawn" /\ [Next]_vars =>
          (jpc = "spawn")' \/ (((jpc = "l2")' \/ (jpc = "idle")') /\ ResetOwed')
    BY OthersWait, HandlerStep DEF ResetOwed
  <1>6. LiveInv /\ jpc = "spawn" /\ <<J>>_vars =>
          ((jpc = "l2")' \/ (jpc = "idle")') /\ ResetOwed'
    BY HandlerStep DEF ResetOwed
  <1>7. LiveInv /\ jpc = "l2" /\ [Next]_vars =>
          (jpc = "l2")' \/ (jpc = "release")' \/ (jpc = "idle")'
    BY OthersWait, HandlerStep
  <1>8. LiveInv /\ jpc = "l2" /\ <<J>>_vars => (jpc = "release")' \/ (jpc = "idle")'
    BY HandlerStep
  <1>9. /\ jpc = "l1" \/ jpc = "stop" \/ jpc = "l2" => HandlerReady
        /\ jpc = "spawn" /\ ThreadAvailable => HandlerReady
    BY DEF HandlerReady
  <1>. QED
    BY <1>1, <1>2, <1>3, <1>4, <1>5, <1>6, <1>7, <1>8, <1>9, AvailableStays,
       LiveInvariant, PTL DEF Spec, ThreadsGoOn

\* A safe exit always gets through stopControlLoop to its reset: the handler waits
\* for the tick that is under way, which never waits for the handler.
THEOREM ExitGetsThrough ==
  Spec /\ ThreadsGoOn /\ []<>ThreadAvailable => ExitReachesReset
  BY HandlerGoesOn, JoinEnds, PTL DEF ExitReachesReset, ResetOwed

\* an activation ends: a service that accepts a release, some time, stops
LEMMA ReleaseEnds ==
  Spec /\ ThreadsGoOn /\ ServiceAnswers => (jpc = "release" ~> jpc = "create")
  <1>1. LiveInv /\ jpc = "release" /\ [Next]_vars => (jpc = "release")' \/ (jpc = "check")'
    BY OthersWait, HandlerStep
  <1>2. LiveInv /\ jpc = "release" /\ <<J>>_vars => (jpc = "check")'
    BY HandlerStep
  <1>3. LiveInv /\ jpc = "check" /\ [Next]_vars =>
          (jpc = "check")' \/ (jpc = "release")' \/ (jpc = "create")'
    BY OthersWait, HandlerStep
  <1>4. LiveInv /\ jpc = "check" /\ <<J>>_vars => (jpc = "release")' \/ (jpc = "create")'
    BY HandlerStep
  <1>5. LiveInv /\ jpc = "check" /\ service = "none" /\ <<J>>_vars => (jpc = "create")'
    BY HandlerStep
  <1>6. LiveInv /\ <<JRelease(TRUE)>>_vars => (service = "stopping")' \/ (service = "none")'
    BY DEF JRelease, LiveInv, TypeOK
  <1>7. LiveInv /\ service = "stopping" /\ [Next]_vars =>
          (service = "stopping")' \/ (service = "none")'
    BY ServiceNeverBack
  <1>8. LiveInv /\ service = "stopping" /\ <<ServiceStops>>_vars => (service = "none")'
    BY DEF ServiceStops
  <1>9. LiveInv /\ service = "none" /\ [Next]_vars => (service = "none")'
    BY ServiceNeverBack
  <1>10. jpc = "release" \/ jpc = "check" => HandlerReady
    BY DEF HandlerReady
  <1>11. LiveInv /\ jpc = "check" /\ service = "none" /\ [Next]_vars =>
           (jpc = "check")' \/ (jpc = "create")'
    BY OthersWait, HandlerStep
  <1>. QED
    BY <1>1, <1>2, <1>3, <1>4, <1>5, <1>6, <1>7, <1>8, <1>9, <1>10, <1>11,
       LiveInvariant, PTL DEF Spec, ThreadsGoOn, ServiceAnswers

\* what follows the activation: the loop is created, assigned and paused
LEMMA CreateEnds ==
  ASSUME LoopIds # {}
  PROVE  Spec /\ ThreadsGoOn =>
           /\ jpc = "create" ~> jpc = "idle"
           /\ jpc = "assign" ~> jpc = "idle"
           /\ jpc = "pause" ~> jpc = "idle"
  <1>1. LiveInv /\ jpc = "create" /\ [Next]_vars => (jpc = "create")' \/ (jpc = "assign")'
    BY OthersWait, HandlerStep
  <1>2. LiveInv /\ jpc = "create" /\ <<J>>_vars => (jpc = "assign")'
    BY HandlerStep
  <1>3. LiveInv /\ jpc = "assign" /\ [Next]_vars => (jpc = "assign")' \/ (jpc = "pause")'
    BY OthersWait, HandlerStep
  <1>4. LiveInv /\ jpc = "assign" /\ <<J>>_vars => (jpc = "pause")'
    BY HandlerStep
  <1>5. LiveInv /\ jpc = "pause" /\ [Next]_vars => (jpc = "pause")' \/ (jpc = "idle")'
    BY OthersWait, HandlerStep
  <1>6. LiveInv /\ jpc = "pause" /\ <<J>>_vars => (jpc = "idle")'
    BY HandlerStep
  <1>7. LiveInv /\ jpc = "create" => HandlerReady
    BY DEF HandlerReady, LiveInv, Owner, Owned, NullInHandler, TypeOK
  <1>8. jpc = "assign" \/ jpc = "pause" => HandlerReady
    BY DEF HandlerReady
  <1>. QED
    BY <1>1, <1>2, <1>3, <1>4, <1>5, <1>6, <1>7, <1>8, LiveInvariant, PTL
    DEF Spec, ThreadsGoOn

HandlerReturns == []<>(jpc = "idle")

\* Every joystick message is dealt with: whichever buttons it carries, the handler
\* is back for the next one, if the motion service does not refuse for ever.
THEOREM HandlersTerminate ==
  ASSUME LoopIds # {}
  PROVE  Spec /\ ThreadsGoOn /\ ServiceAnswers /\ []<>ThreadAvailable => HandlerReturns
  <1>1. LiveInv => \/ jpc = "idle" \/ jpc = "l1" \/ jpc = "stop" \/ jpc = "join"
                   \/ jpc = "spawn" \/ jpc = "l2" \/ jpc = "release" \/ jpc = "check"
                   \/ jpc = "create" \/ jpc = "assign" \/ jpc = "pause"
    BY DEF LiveInv, TypeOK, JPlaces
  <1>2. Spec /\ ThreadsGoOn => (jpc = "check" ~> (jpc = "release" \/ jpc = "create"))
    <2>1. LiveInv /\ jpc = "check" /\ [Next]_vars =>
            (jpc = "check")' \/ (jpc = "release")' \/ (jpc = "create")'
      BY OthersWait, HandlerStep
    <2>2. LiveInv /\ jpc = "check" /\ <<J>>_vars => (jpc = "release")' \/ (jpc = "create")'
      BY HandlerStep
    <2>3. jpc = "check" => HandlerReady
      BY DEF HandlerReady
    <2>. QED  BY <2>1, <2>2, <2>3, LiveInvariant, PTL DEF Spec, ThreadsGoOn
  <1>3. Spec => []LiveInv
    BY LiveInvariant
  <1>. QED
    BY <1>1, <1>2, <1>3, HandlerGoesOn, JoinEnds, ReleaseEnds, CreateEnds, PTL
    DEF HandlerReturns

\* The fairness of PolicyModes, with its guards written out: none of its three
\* actions stays enabled for ever.
ModesGoOn ==
  /\ []<>(Mode # "activating")
  /\ []<>~(Mode = "exiting" /\ ~Computing)
  /\ []<>~Computing

SomeLoop(p) == \E i \in LoopIds : loop[i] = p

LEMMA ComputingEnds == Spec /\ ThreadsGoOn => []<>~Computing
  <1>1. Computing <=> SomeLoop("infer") \/ SomeLoop("write")
    BY DEF Computing, InFlight, SomeLoop
  <1>2. Computing => LoopBusy
    BY DEF Computing, InFlight, LoopBusy
  <1>3. ASSUME LiveInv, [Next]_vars, SomeLoop("infer")
        PROVE  /\ SomeLoop("infer")' \/ SomeLoop("write")' \/ ~Computing'
               /\ Ticks => ~SomeLoop("infer")'
    <2>1. PICK i \in LoopIds : loop[i] = "infer"
      BY <1>3 DEF SomeLoop
    <2>2. \A k \in LoopIds : k # i => loop[k] = "none"
      BY <1>3, <2>1, OwnerSingle DEF SingleLoop, LiveInv
    <2>3. ASSUME NEW k \in LoopIds, Tick(k)
          PROVE  k = i /\ loop' = [loop EXCEPT ![i] = loop'[i]] /\ loop'[i] \in {"write", "idle"}
      BY <1>3, <2>1, <2>2, <2>3
      DEF Tick, TickEnter, TickGate, TickInfer, TickWrite, LiveInv, TypeOK
    <2>4. Ticks => ~SomeLoop("infer")'
      BY <1>3, <2>1, <2>2, <2>3 DEF Ticks, SomeLoop, LiveInv, TypeOK
    <2>5. SomeLoop("infer")' \/ SomeLoop("write")' \/ ~Computing'
      BY DEF Computing, InFlight, SomeLoop
    <2>. QED  BY <2>4, <2>5
  <1>4. ASSUME LiveInv, [Next]_vars, SomeLoop("write")
        PROVE  /\ SomeLoop("write")' \/ ~Computing'
               /\ Ticks => ~Computing'
    <2>1. PICK i \in LoopIds : loop[i] = "write"
      BY <1>4 DEF SomeLoop
    <2>2. \A k \in LoopIds : k # i => loop[k] = "none"
      BY <1>4, <2>1, OwnerSingle DEF SingleLoop, LiveInv
    <2>3. ASSUME NEW k \in LoopIds, Tick(k)
          PROVE  loop' = [loop EXCEPT ![i] = "idle"]
      BY <1>4, <2>1, <2>2, <2>3
      DEF Tick, TickEnter, TickGate, TickInfer, TickWrite, LiveInv, TypeOK
    <2>4. Ticks => ~Computing'
      BY <1>4, <2>1, <2>2, <2>3 DEF Ticks, Computing, InFlight, LiveInv, TypeOK
    <2>5. ~Ticks => loop'[i] = "write" \/ ~Computing'
      BY <1>4, <2>1, <2>2
      DEF Next, J, JTake, JExit, JStop, JStopNothing, JJoin, JSpawn, JToggle, JActivate,
          JRelease, JCheck, JCreate, JAssign, JPause, Ticks, PadMessage, Reset, ResetRead,
          ResetStep, ResetDone, ServiceStops, vars, loopVars, LiveInv, TypeOK
    <2>. QED  BY <2>1, <2>4, <2>5 DEF SomeLoop
  <1>5. LiveInv /\ SomeLoop("infer") /\ [Next]_vars =>
          SomeLoop("infer")' \/ SomeLoop("write")' \/ ~Computing'
    BY <1>3
  <1>6. LiveInv /\ SomeLoop("infer") /\ [Next]_vars /\ <<Ticks>>_vars =>
          SomeLoop("write")' \/ ~Computing'
    BY <1>3
  <1>7. LiveInv /\ SomeLoop("write") /\ [Next]_vars => SomeLoop("write")' \/ ~Computing'
    BY <1>4
  <1>8. LiveInv /\ SomeLoop("write") /\ [Next]_vars /\ <<Ticks>>_vars => ~Computing'
    BY <1>4
  <1>. QED
    BY <1>1, <1>2, <1>5, <1>6, <1>7, <1>8, LiveInvariant, PTL DEF Spec, ThreadsGoOn

\* The node finishes what the mode machine begins: an activation, an exit and the
\* computation of a command.
THEOREM ModesAreFinished ==
  ASSUME LoopIds # {}
  PROVE  Spec /\ ThreadsGoOn /\ ServiceAnswers /\ []<>ThreadAvailable => ModesGoOn
  <1>1. jpc = "idle" => Mode # "activating" /\ ~(Mode = "exiting" /\ ~Computing)
    BY DEF Mode
  <1>. QED
    BY <1>1, ComputingEnds, HandlersTerminate, PTL DEF HandlerReturns, ModesGoOn
=============================================================================
