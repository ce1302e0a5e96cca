-------------------------- MODULE PolicyConfig_proofs --------------------------
(***************************************************************************)
(* The configuration, for every file, number of joints and list length: it *)
(* contains the inversion of JointMap, whose result is proved first; then  *)
(* what an accepted file guarantees to those who index its lists; then the *)
(* arithmetic of the ramps towards its default positions.                  *)
(***************************************************************************)
EXTENDS PolicyConfig, ResetTraj, TLAPS

-----------------------------------------------------------------------------
\* The inversion

USE JointAssumption, ConfigAssumption
USE DEF JointAssumption, ConfigAssumption, Joints

\* What the first pi entries have established.
Prefix ==
  \A r \in Joints :
    IF \E p \in 0..(pi - 1) : sdk2policy[p] = r
    THEN sdk2policy[pol2rob[r]] = r
    ELSE pol2rob[r] = r

LEMMA InitPrefix == Init => TypeOK /\ Prefix
  <1>. SUFFICES ASSUME Init PROVE TypeOK /\ Prefix
    OBVIOUS
  <1>1. sdk2policy \in [Joints -> Entries] /\ pol2rob \in [Joints -> Joints] /\ pi \in 0..N
    BY DEF Init
  <1>2. warned \in BOOLEAN
    BY DEF Init
  <1>3. Prefix
    BY DEF Init, Prefix
  <1>. QED  BY <1>1, <1>2, <1>3 DEF TypeOK

\* The entries before p + 1 are the entries before p and the entry p.
LEMMA OneMore ==
  ASSUME NEW p \in Nat
  PROVE  0..p = 0..(p - 1) \cup {p}
  OBVIOUS

LEMMA NextPrefix == TypeOK /\ Prefix /\ [Next]_vars => (TypeOK /\ Prefix)'
  <1>. SUFFICES ASSUME TypeOK, Prefix, [Next]_vars PROVE (TypeOK /\ Prefix)'
    OBVIOUS
  <1>1. CASE Entry
    <2>. DEFINE ri == sdk2policy[pi]
                Seen(r) == \E p \in 0..(pi - 1) : sdk2policy[p] = r
    <2>1. pi \in Nat /\ pi < N /\ pi \in Joints
      BY <1>1 DEF Entry, TypeOK
    <2>2. pi' = pi + 1 /\ pi' \in 0..N /\ sdk2policy' = sdk2policy
      BY <1>1, <2>1 DEF Entry
    <2>3. ri \in Int /\ warned' \in BOOLEAN
      BY <1>1, <2>1 DEF TypeOK, Entry, Warn
    <2>4. \A r : Seen(r)' <=> Seen(r) \/ ri = r
      <3>1. 0..(pi' - 1) = 0..(pi - 1) \cup {pi}
        BY OneMore, <2>1, <2>2
      <3>. QED  BY <2>2, <3>1
    <2>5. \A r \in Joints : IF Seen(r) THEN sdk2policy[pol2rob[r]] = r ELSE pol2rob[r] = r
      BY DEF Prefix
    <2>6. CASE InRange(ri)
      <3>1. ri \in Joints /\ pol2rob' = [pol2rob EXCEPT ![ri] = pi]
        BY <1>1, <2>3, <2>6 DEF Entry, InRange
      <3>2. TypeOK'
        <4>1. sdk2policy' \in [Joints -> Entries] /\ pol2rob' \in [Joints -> Joints]
          BY <2>1, <2>2, <3>1 DEF TypeOK
        <4>. QED  BY <2>2, <2>3, <4>1 DEF TypeOK
      <3>3. ASSUME NEW r \in Joints
            PROVE  IF Seen(r)' THEN sdk2policy'[pol2rob'[r]] = r ELSE pol2rob'[r] = r
        <4>1. CASE r = ri
          <5>1. pol2rob'[r] = pi
            BY <3>1, <4>1 DEF TypeOK
          <5>. QED  BY <2>2, <2>4, <4>1, <5>1
        <4>2. CASE r # ri
          <5>1. pol2rob'[r] = pol2rob[r]
            BY <3>1, <4>2 DEF TypeOK
          <5>. QED  BY <2>2, <2>4, <2>5, <4>2, <5>1
        <4>. QED  BY <4>1, <4>2
      <3>4. Prefix'
        BY <3>3 DEF Prefix
      <3>. QED  BY <3>2, <3>4
    <2>7. CASE ~InRange(ri)
      <3>1. ri \notin Joints /\ pol2rob' = pol2rob
        BY <1>1, <2>3, <2>7 DEF Entry, InRange
      <3>2. TypeOK'
        <4>1. sdk2policy' \in [Joints -> Entries] /\ pol2rob' \in [Joints -> Joints]
          BY <2>2, <3>1 DEF TypeOK
        <4>. QED  BY <2>2, <2>3, <4>1 DEF TypeOK
      <3>3. ASSUME NEW r \in Joints
            PROVE  IF Seen(r)' THEN sdk2policy'[pol2rob'[r]] = r ELSE pol2rob'[r] = r
        <4>1. r # ri
          BY <3>1
        <4>. QED  BY <2>2, <2>4, <2>5, <3>1, <4>1
      <3>4. Prefix'
        BY <3>3 DEF Prefix
      <3>. QED  BY <3>2, <3>4
    <2>. QED  BY <2>6, <2>7
  <1>2. CASE UNCHANGED vars
    BY <1>2 DEF vars, TypeOK, Prefix
  <1>. QED  BY <1>1, <1>2 DEF Next

LEMMA PrefixInvariant == Spec => [](TypeOK /\ Prefix)
  BY InitPrefix, NextPrefix, PTL DEF Spec

\* The log tells whether one of the first pi entries was out of range.
Warned == warned <=> \E p \in 0..(pi - 1) : ~InRange(sdk2policy[p])

LEMMA WarnedInvariant == Spec => [](TypeOK /\ Warned)
  <1>1. Init => Warned
    BY DEF Init, Warned
  <1>2. TypeOK /\ Warned /\ [Next]_vars => Warned'
    <2>. SUFFICES ASSUME TypeOK, Warned, [Next]_vars PROVE Warned'
      OBVIOUS
    <2>1. CASE Entry
      <3>1. pi \in Nat /\ pi' = pi + 1 /\ sdk2policy' = sdk2policy
        BY <2>1 DEF Entry, TypeOK
      <3>2. 0..(pi' - 1) = 0..(pi - 1) \cup {pi}
        BY OneMore, <3>1
      <3>3. warned' <=> warned \/ ~InRange(sdk2policy[pi])
        BY <2>1 DEF Entry, Warn
      <3>. QED  BY <3>1, <3>2, <3>3 DEF Warned, InRange
    <2>2. CASE UNCHANGED vars
      BY <2>2 DEF vars, Warned, InRange
    <2>. QED  BY <2>1, <2>2 DEF Next
  <1>. QED  BY <1>1, <1>2, PrefixInvariant, PTL DEF Spec

-----------------------------------------------------------------------------
\* The file

\* Reading a configuration is the inversion with steps around it that leave the
\* two orders alone: what holds of the inversion holds of it.
THEOREM ConfigInverts == ConfigSpec => Spec
  <1>1. ConfigInit => Init
    BY DEF ConfigInit
  <1>2. [ConfigNext]_allVars => [Next]_vars
    <2>. SUFFICES ASSUME [ConfigNext]_allVars PROVE [Next]_vars
      OBVIOUS
    <2>1. CASE \E b \in BOOLEAN : Open(b) \/ LoadModel(b)
      BY <2>1 DEF Open, LoadModel
    <2>2. CASE Line
      BY <2>2 DEF Line
    <2>3. CASE EndOfFile
      BY <2>3 DEF EndOfFile
    <2>4. CASE Invert
      BY <2>4 DEF Invert, Next
    <2>5. CASE UNCHANGED allVars
      BY <2>5 DEF allVars
    <2>. QED  BY <2>1, <2>2, <2>3, <2>4, <2>5 DEF ConfigNext
  <1>. QED  BY <1>1, <1>2, PTL DEF ConfigSpec, Spec

LEMMA ConfigPrefix == ConfigSpec => [](TypeOK /\ Prefix)
  BY ConfigInverts, PrefixInvariant, PTL

\* The action mapping never indexes outside the policy's outputs, whatever the
\* configuration file names.
THEOREM MapInRange == ConfigSpec => []TypeOK
  BY ConfigPrefix, PTL

\* The result for an arbitrary configuration.
THEOREM MapResult == ConfigSpec => []ObservedOrIdentity
  <1>1. TypeOK /\ Prefix => ObservedOrIdentity
    BY DEF Prefix, ObservedOrIdentity, Done, TypeOK
  <1>. QED  BY <1>1, ConfigPrefix, PTL

\* For a permutation, observation and action orders are inverse to each other.
THEOREM MapInverts == ConfigSpec => []OrdersAgree
  <1>1. TypeOK /\ Prefix => OrdersAgree
    <2>. SUFFICES ASSUME TypeOK, Prefix, Done, Permutation,
                         NEW r \in Joints, NEW p \in Joints
                  PROVE  pol2rob[r] = p <=> sdk2policy[p] = r
      BY DEF OrdersAgree
    <2>1. sdk2policy[pol2rob[r]] = r /\ pol2rob[r] \in Joints
      BY DEF Prefix, Done, Permutation, TypeOK
    <2>. QED  BY <2>1 DEF Permutation
  <1>. QED  BY <1>1, ConfigPrefix, PTL

\* The lengths are compared before the inversion starts and do not change after.
Compared == ok \/ phase = "invert" => SizesFit /\ phase \in {"invert", "model", "up"}

\* The inversion starts with the first entry, and what is reported as loaded has
\* been inverted to the end.
Inverted ==
  /\ phase \in {"open", "lines"} => pi = 0
  /\ phase = "invert" => pi <= order
  /\ ok => pi = order

ConfigInv == FileTypeOK /\ Compared /\ Inverted

LEMMA ConfigInvariant == ConfigSpec => []ConfigInv
  <1>. USE DEF ConfigInv, FileTypeOK, Compared, Inverted, SizesFit
  <1>1. ConfigInit => ConfigInv
    BY DEF ConfigInit, Init
  <1>2. TypeOK /\ ConfigInv /\ [ConfigNext]_allVars => ConfigInv'
    <2>. SUFFICES ASSUME TypeOK, ConfigInv, [ConfigNext]_allVars PROVE ConfigInv'
      OBVIOUS
    <2>. USE DEF fileVars, vars
    <2>1. ASSUME NEW b \in BOOLEAN, Open(b) PROVE ConfigInv'
      BY <2>1 DEF Open
    <2>2. ASSUME NEW b \in BOOLEAN, LoadModel(b) PROVE ConfigInv'
      BY <2>2 DEF LoadModel
    <2>3. CASE Line
      BY <2>3 DEF Line
    <2>4. CASE EndOfFile
      BY <2>4 DEF EndOfFile
    <2>5. CASE Invert
      <3>1. CASE pi < order /\ Entry /\ UNCHANGED <<phase, ok>>
        <4>1. pi \in Nat /\ pi' = pi + 1 /\ order' = order /\ order \in Nat
          BY <2>5, <3>1 DEF Invert, Entry, TypeOK
        <4>2. FileTypeOK' /\ Compared'
          BY <2>5, <3>1 DEF Invert
        <4>3. Inverted'
          BY <2>5, <3>1, <4>1 DEF Invert
        <4>. QED  BY <4>2, <4>3
      <3>2. CASE pi >= order /\ phase' = "model" /\ ok' = TRUE /\ UNCHANGED vars
        <4>1. pi = order
          BY <2>5, <3>2 DEF Invert, TypeOK
        <4>. QED  BY <2>5, <3>2, <4>1 DEF Invert
      <3>. QED  BY <2>5, <3>1, <3>2 DEF Invert
    <2>6. CASE UNCHANGED allVars
      BY <2>6 DEF allVars, configVars
    <2>. QED  BY <2>1, <2>2, <2>3, <2>4, <2>5, <2>6 DEF ConfigNext
  <1>. QED  BY <1>1, <1>2, MapInRange, PTL DEF ConfigSpec

\* Every variable of the configuration keeps its values.
THEOREM ConfigTypes == ConfigSpec => []ConfigTypeOK
  BY MapInRange, ConfigInvariant, PTL DEF ConfigInv, ConfigTypeOK

LEMMA ConfigWarned == ConfigSpec => [](TypeOK /\ Warned)
  BY ConfigInverts, WarnedInvariant, PTL

\* The sizes of a loaded configuration: both lists are as long as the robot has
\* joints, and are the N entries of the inversion, which is over, or empty.
LEMMA LoadedSizes ==
  ASSUME TypeOK, ConfigInv, ok
  PROVE  /\ act_size \in Nat /\ dft = act_size /\ order = act_size
         /\ act_size = 0 \/ act_size = N
         /\ pi = act_size
  BY DEF ConfigInv, Compared, Inverted, SizesFit, FileTypeOK, TypeOK

LEMMA BelowIncluded ==
  ASSUME NEW a \in Nat, NEW b \in Nat
  PROVE  Below(a) \subseteq Below(b) <=> a <= b
  <1>1. CASE a = 0
    BY <1>1 DEF Below
  <1>2. CASE a # 0
    <2>1. a - 1 \in Below(a)
      BY <1>2 DEF Below
    <2>2. ASSUME Below(a) \subseteq Below(b) PROVE a <= b
      <3>1. a - 1 \in Below(b)
        BY <2>1, <2>2
      <3>. QED  BY <3>1 DEF Below
    <2>3. ASSUME a <= b PROVE Below(a) \subseteq Below(b)
      BY <2>3 DEF Below
    <2>. QED  BY <2>2, <2>3
  <1>. QED  BY <1>1, <1>2

\* What [OK] is worth to resets and actions, for every file and every robot: a
\* reported configuration keeps them in bounds exactly if it has no more joints
\* than the robot's arrays.
THEOREM LoadedIsSafe == ConfigSpec => []LoadedInBounds
  <1>1. TypeOK /\ ConfigInv => LoadedInBounds
    <2>. SUFFICES ASSUME TypeOK, ConfigInv, ok, NEW motors \in MotorArrays
                  PROVE  ResetInBounds(motors) /\ ActInBounds(motors) <=> act_size <= motors
      BY DEF LoadedInBounds
    <2>1. act_size \in Nat /\ dft = act_size /\ order = act_size /\ (act_size = 0 \/ act_size = N)
      BY LoadedSizes
    <2>2. \A r \in Below(act_size) : pol2rob[r] \in Below(act_size)
      BY <2>1 DEF TypeOK, Below
    <2>3. motors \in Nat /\ (Below(act_size) \subseteq Below(motors) <=> act_size <= motors)
      BY <2>1, BelowIncluded
    <2>. QED  BY <2>1, <2>2, <2>3 DEF ResetInBounds, ActInBounds
  <1>. QED  BY <1>1, MapInRange, ConfigInvariant, PTL

\* What [OK] and the silence of the inversion are worth to observations, for every
\* file, frame and robot.
THEOREM LoadedIsObservable == ConfigSpec => []LoadedObserves
  <1>1. TypeOK /\ Warned /\ ConfigInv => LoadedObserves
    <2>. SUFFICES ASSUME TypeOK, Warned, ConfigInv, ok, NEW motors \in MotorArrays
                  PROVE  ObserveInBounds(motors) <=>
                           ~warned /\ act_size <= motors /\ obs_size <= 9 + 3 * act_size
      BY DEF LoadedObserves
    <2>1. /\ act_size \in Nat /\ dft = act_size /\ order = act_size
          /\ act_size = 0 \/ act_size = N
          /\ pi = act_size
      BY LoadedSizes
    <2>2. motors \in Nat /\ obs_size \in Nat
      BY DEF ConfigInv, FileTypeOK, DefaultObsSize
    <2>3. Below(act_size) \subseteq Below(motors) <=> act_size <= motors
      BY <2>1, <2>2, BelowIncluded
    <2>4. Below(obs_size) \subseteq Below(9 + 3 * act_size) <=> obs_size <= 9 + 3 * act_size
      <3>1. 9 + 3 * act_size \in Nat
        BY <2>1
      <3>. QED  BY <2>2, <3>1, BelowIncluded
    <2>5. (\A p \in Below(act_size) : sdk2policy[p] \in Below(act_size)) <=> ~warned
      <3>1. Below(act_size) = 0..(pi - 1)
        BY <2>1 DEF Below
      <3>2. ASSUME NEW p \in Below(act_size)
            PROVE  sdk2policy[p] \in Below(act_size) <=> InRange(sdk2policy[p])
        <4>1. p \in Joints /\ act_size = N
          BY <2>1 DEF Below
        <4>2. sdk2policy[p] \in Int
          BY <4>1 DEF TypeOK
        <4>. QED  BY <4>1, <4>2 DEF Below, InRange
      <3>. QED  BY <3>1, <3>2 DEF Warned
    <2>. QED  BY <2>1, <2>3, <2>4, <2>5 DEF ObserveInBounds
  <1>. QED  BY <1>1, ConfigWarned, ConfigInvariant, PTL

-----------------------------------------------------------------------------
\* The ramps

LEMMA CeilBound ==
  ASSUME NEW a \in Nat, NEW b \in Nat \ {0}
  PROVE  Ceil(a, b) \in Nat /\ Ceil(a, b) * b >= a /\ Ceil(a, b) * b < a + b
  BY Z3 DEF Ceil

LEMMA NumStepsBound ==
  ASSUME NEW a \in Nat, NEW b \in Nat \ {0}
  PROVE  NumSteps(a, b) \in Nat \ {0} /\ NumSteps(a, b) * b >= a
  <1>. DEFINE c == Ceil(a, b)
  <1>1. c \in Nat /\ c * b >= a
    BY CeilBound
  <1>2. CASE c > 1
    BY <1>1, <1>2 DEF NumSteps
  <1>3. CASE c <= 1
    <2>1. NumSteps(a, b) = 1
      BY <1>1, <1>3 DEF NumSteps
    <2>2. c = 0 \/ c = 1
      BY <1>1, <1>3
    <2>3. a <= b
      BY <1>1, <2>2
    <2>. QED  BY <2>1, <2>3
  <1>. HIDE DEF c
  <1>. QED  BY <1>1, <1>2, <1>3

\* A point between the ends of a ramp, for the products that occur.
LEMMA Weighted ==
  ASSUME NEW a \in Int, NEW b \in Int, NEW n \in Nat, NEW k \in 0..n
  PROVE  Between(a * n, a * (n - k) + b * k, b * n)
  <1>1. a * (n - k) + b * k = a * n + (b - a) * k
    OBVIOUS
  <1>2. a * (n - k) + b * k = b * n - (b - a) * (n - k)
    OBVIOUS
  <1>3. CASE a <= b
    <2>1. (b - a) * k >= 0 /\ (b - a) * (n - k) >= 0
      BY <1>3
    <2>. QED  BY <1>1, <1>2, <2>1 DEF Between
  <1>4. CASE b <= a
    <2>1. (b - a) * k <= 0 /\ (b - a) * (n - k) <= 0
      BY <1>4
    <2>. QED  BY <1>1, <1>2, <2>1 DEF Between
  <1>. QED  BY <1>3, <1>4

\* where a ramp is after each of its steps
Sdk1Ramp ==
  robot = "sdk1" =>
    /\ step \in 0..num_steps /\ num_steps # 0
    /\ Distance(pos, goal) <= clip * num_steps
    /\ q = pos * (num_steps - step) + goal * step

Sdk2Ramp ==
  robot = "sdk2" =>
    /\ step \in 0..(num_steps + 1) /\ num_steps # 0
    /\ step = 0 => q = pos * num_steps
    /\ step > 0 => q = pos * (num_steps - (step - 1)) + goal * (step - 1)

RampInv ==
  /\ robot \in {"none", "sdk1", "sdk2"}
  /\ pos \in Int /\ goal \in Int /\ clip \in Nat
  /\ num_steps \in Nat /\ step \in Nat
  /\ robot = "none" => q = pos * num_steps
  /\ Sdk1Ramp /\ Sdk2Ramp

LEMMA ReadKeeps ==
  ASSUME RampInv, Read1 \/ Read2
  PROVE  RampInv'
  <1>1. CASE Read1
    <2>1. PICK p \in Angles, g \in Angles, act_max \in Deviations, act_clip \in Clips :
            /\ Distance(p, g) <= act_max
            /\ Read("sdk1", p, g, act_clip, NumSteps(act_max, act_clip))
      BY <1>1 DEF Read1
    <2>2. p \in Int /\ g \in Int /\ act_max \in Nat /\ act_clip \in Nat \ {0}
      BY TrajAssumption DEF TrajAssumption
    <2>3. PICK n \in Nat \ {0} : n = NumSteps(act_max, act_clip) /\ n * act_clip >= act_max
      BY <2>2, NumStepsBound
    <2>4. /\ robot' = "sdk1" /\ pos' = p /\ goal' = g /\ clip' = act_clip
          /\ num_steps' = n /\ step' = 0 /\ q' = p * n
      BY <2>1, <2>3 DEF Read
    <2>5. Distance(p, g) \in Int /\ n * act_clip = act_clip * n
      BY <2>2 DEF Distance
    <2>6. Distance(p, g) <= act_clip * n
      BY <2>1, <2>2, <2>3, <2>5
    <2>7. p * n = p * (n - 0) + g * 0
      BY <2>2
    <2>. QED  BY <2>2, <2>4, <2>6, <2>7 DEF RampInv, Sdk1Ramp, Sdk2Ramp, Distance
  <1>2. CASE Read2
    <2>1. PICK p \in Angles, g \in Angles, n \in StepCounts : Read("sdk2", p, g, 0, n)
      BY <1>2 DEF Read2
    <2>2. p \in Int /\ g \in Int /\ n \in Nat \ {0}
      BY TrajAssumption DEF TrajAssumption
    <2>. QED  BY <2>1, <2>2 DEF Read, RampInv, Sdk1Ramp, Sdk2Ramp
  <1>. QED  BY <1>1, <1>2

\* a step of the Aliengo's ramp is the n-th part of the way
LEMMA Step1Keeps ==
  ASSUME RampInv, Step1
  PROVE  RampInv' /\ q \in Int /\ q' = q + (goal - pos)
  <1>1. /\ robot = "sdk1" /\ UNCHANGED jointVars /\ step' = step + 1 /\ step < num_steps
        /\ q' = pos * (num_steps - (step + 1)) + goal * (step + 1)
    BY DEF Step1, Sdk1Command
  <1>2. /\ pos \in Int /\ goal \in Int /\ num_steps \in Nat /\ step \in Nat
        /\ q = pos * (num_steps - step) + goal * step
    BY <1>1 DEF RampInv, Sdk1Ramp
  <1>3. q \in Int /\ q' = q + (goal - pos)
    BY <1>1, <1>2
  <1>4. step' \in 0..num_steps
    BY <1>1, <1>2
  <1>. QED  BY <1>1, <1>3, <1>4 DEF RampInv, Sdk1Ramp, Sdk2Ramp, jointVars, Distance

LEMMA Step2Keeps ==
  ASSUME RampInv, Step2
  PROVE  RampInv'
  <1>1. /\ robot = "sdk2" /\ UNCHANGED jointVars /\ step' = step + 1 /\ step <= num_steps
        /\ q' = pos * num_steps + (goal - pos) * step
    BY DEF Step2, Sdk2Command
  <1>2. pos \in Int /\ goal \in Int /\ num_steps \in Nat /\ step \in Nat
    BY DEF RampInv
  <1>3. q' = pos * (num_steps - (step' - 1)) + goal * (step' - 1)
    BY <1>1, <1>2
  <1>4. step' \in 0..(num_steps + 1) /\ step' > 0
    BY <1>1, <1>2
  <1>. QED  BY <1>1, <1>3, <1>4 DEF RampInv, Sdk1Ramp, Sdk2Ramp, jointVars

LEMMA RampInvariant == RampSpec => []RampInv
  <1>1. RampInit => RampInv
    BY DEF RampInit, RampInv, Sdk1Ramp, Sdk2Ramp
  <1>2. RampInv /\ UNCHANGED rampVars => RampInv'
    BY DEF rampVars, jointVars, RampInv, Sdk1Ramp, Sdk2Ramp, Distance
  <1>3. RampInv /\ [RampNext]_rampVars => RampInv'
    BY <1>2, ReadKeeps, Step1Keeps, Step2Keeps DEF RampNext
  <1>. QED  BY <1>1, <1>3, PTL DEF RampSpec

\* The bound of a step, for every deviation and every act_clip.
THEOREM Sdk1Bounded == RampSpec => StepBounded
  <1>1. ASSUME RampInv, [RampNext]_rampVars, robot = "sdk1", rampVars' # rampVars
        PROVE  Distance(q, q') <= clip * num_steps
    <2>1. Step1
      BY <1>1 DEF RampNext, Read1, Read2, Read, Step2
    <2>2. q \in Int /\ q' = q + (goal - pos)
      BY <1>1, <2>1, Step1Keeps
    <2>3. pos \in Int /\ goal \in Int /\ Distance(pos, goal) <= clip * num_steps
      BY <1>1 DEF RampInv, Sdk1Ramp
    <2>4. Distance(q, q') = Distance(pos, goal)
      BY <2>2, <2>3 DEF Distance
    <2>. QED  BY <2>3, <2>4
  <1>2. RampInv /\ [RampNext]_rampVars
          => [robot = "sdk1" => Distance(q, q') <= clip * num_steps]_rampVars
    BY <1>1
  <1>. QED  BY <1>2, RampInvariant, PTL DEF RampSpec, StepBounded

\* Where the ramps lead, for all positions and numbers of steps.
THEOREM Arrival == RampSpec => []RampsArrive
  <1>1. ASSUME RampInv PROVE RampsArrive
    <2>1. pos \in Int /\ goal \in Int /\ num_steps \in Nat /\ step \in Nat
      BY <1>1 DEF RampInv
    <2>2. Between(pos * num_steps, pos * num_steps, goal * num_steps)
      <3>1. 0 \in 0..num_steps /\ pos * (num_steps - 0) + goal * 0 = pos * num_steps
        BY <2>1
      <3>2. Between(pos * num_steps, pos * (num_steps - 0) + goal * 0, goal * num_steps)
        BY <2>1, <3>1, Weighted
      <3>. QED  BY <3>1, <3>2
    <2>3. CASE robot = "none"
      BY <1>1, <2>2, <2>3 DEF RampInv, RampsArrive
    <2>4. CASE robot = "sdk1"
      <3>1. step \in 0..num_steps /\ q = pos * (num_steps - step) + goal * step
        BY <1>1, <2>4 DEF RampInv, Sdk1Ramp
      <3>2. Between(pos * num_steps, q, goal * num_steps)
        BY <2>1, <3>1, Weighted
      <3>3. step = num_steps => q = goal * num_steps
        BY <2>1, <3>1
      <3>. QED  BY <2>4, <3>2, <3>3 DEF RampsArrive
    <2>5. CASE robot = "sdk2" /\ step = 0
      BY <1>1, <2>1, <2>2, <2>5 DEF RampInv, Sdk2Ramp, RampsArrive
    <2>6. CASE robot = "sdk2" /\ step # 0
      <3>1. step - 1 \in 0..num_steps
            /\ q = pos * (num_steps - (step - 1)) + goal * (step - 1)
        BY <1>1, <2>1, <2>6 DEF RampInv, Sdk2Ramp
      <3>2. Between(pos * num_steps, q, goal * num_steps)
        BY <2>1, <3>1, Weighted
      <3>3. step = num_steps + 1 => q = goal * num_steps
        BY <2>1, <3>1
      <3>4. step <= 1 => q = pos * num_steps
        BY <2>1, <2>6, <3>1
      <3>. QED  BY <2>6, <3>2, <3>3, <3>4 DEF RampsArrive
    <2>. QED  BY <1>1, <2>3, <2>4, <2>5, <2>6 DEF RampInv
  <1>. QED  BY <1>1, RampInvariant, PTL
=============================================================================
