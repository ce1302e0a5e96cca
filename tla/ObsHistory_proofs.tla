-------------------------- MODULE ObsHistory_proofs --------------------------
(***************************************************************************)
(* Observations are whole, report the actions that were applied, and reach *)
(* the policy as a window of the last frames.                              *)
(***************************************************************************)
EXTENDS ObsHistory, SequenceTheorems, TLAPS

USE ObsAssumption DEF ObsAssumption

Reading == Readings \cup {Zero}
Action == Actions \cup {Zero}

-----------------------------------------------------------------------------
\* Arithmetic and sequences

LEMMA FunctionIsSeq ==
  ASSUME NEW S, NEW n \in Nat, NEW f \in [1..n -> S]
  PROVE  f \in Seq(S) /\ Len(f) = n
  OBVIOUS

LEMMA FrameNat == Frame \in Nat \ {0}
  BY DEF Frame

LEMMA BufferLength ==
  ASSUME TypeOK
  PROVE  /\ history \in Nat /\ AtLeastOne(history) \in Nat \ {0}
         /\ Frame * AtLeastOne(history) \in Nat
         /\ Len(hisObs) = Frame * AtLeastOne(history)
  <1>1. history \in Nat /\ AtLeastOne(history) \in Nat \ {0}
    BY DEF TypeOK, AtLeastOne
  <1>2. Frame * AtLeastOne(history) \in Nat
    BY <1>1, FrameNat
  <1>3. hisObs \in [1..(Frame * AtLeastOne(history)) -> Values]
    BY DEF TypeOK
  <1>. QED  BY <1>1, <1>2, <1>3, FunctionIsSeq

\* The frame of a tick, cell by cell.
LEMMA FrameCells ==
  ASSUME TypeOK, Len(copy) = NumJoints
  PROVE  /\ copy \o lastAct \in [1..Frame -> Values]
         /\ \A i \in Joints : (copy \o lastAct)[i] = copy[i]
  <1>1. copy \in Seq(Values) /\ copy \in [1..NumJoints -> Reading]
    BY LenProperties DEF TypeOK, Values, Reading
  <1>2. lastAct \in [1..NumJoints -> Values]
    BY DEF TypeOK, Values, Joints
  <1>3. lastAct \in Seq(Values) /\ Len(lastAct) = NumJoints
    BY <1>2, FunctionIsSeq
  <1>4. /\ copy \o lastAct \in Seq(Values)
        /\ Len(copy \o lastAct) = Frame
        /\ \A i \in 1..Frame : (copy \o lastAct)[i] =
              IF i <= NumJoints THEN copy[i] ELSE lastAct[i - NumJoints]
    BY <1>1, <1>3, ConcatProperties DEF Frame
  <1>5. copy \o lastAct \in [1..Frame -> Values]
    BY <1>4, LenProperties
  <1>6. ASSUME NEW i \in Joints PROVE (copy \o lastAct)[i] = copy[i]
    <2>1. i \in 1..Frame /\ i <= NumJoints
      BY DEF Frame, Joints
    <2>. QED  BY <1>4, <2>1
  <1>. QED  BY <1>5, <1>6

\* Only without any history does the buffer never fit, and is built anew.
LEMMA MisfitOnlyAtZero == TypeOK => (Misfit <=> history = 0)
  <1>. SUFFICES ASSUME TypeOK PROVE Misfit <=> history = 0
    OBVIOUS
  <1>1. CASE history = 0
    BY <1>1, BufferLength, FrameNat DEF Misfit, AtLeastOne
  <1>2. CASE history # 0
    BY <1>2, BufferLength, FrameNat DEF Misfit, AtLeastOne
  <1>. QED  BY <1>1, <1>2

LEMMA EnsuredType ==
  ASSUME TypeOK
  PROVE  Ensured \in [1..(Frame * AtLeastOne(history)) -> Values]
         /\ Len(Ensured) = Frame * AtLeastOne(history)
  <1>1. Ensured \in [1..(Frame * AtLeastOne(history)) -> Values]
    BY DEF Ensured, Zeros, TypeOK, Values
  <1>. QED  BY <1>1, BufferLength, FunctionIsSeq

\* A record moves the other frames by one, whatever the number of frames.
LEMMA ShiftedCells ==
  ASSUME TypeOK
  PROVE  /\ Shifted(Ensured) \in [1..(Frame * AtLeastOne(history)) -> Values]
         /\ \A i \in 1..(Frame * AtLeastOne(history)) :
              Shifted(Ensured)[i] = IF i <= Frame THEN obs[i] ELSE Ensured[i - Frame]
  <1>1. Shifted(Ensured) = [i \in 1..(Frame * AtLeastOne(history)) |->
            IF i <= Frame THEN obs[i]
            ELSE IF i <= Frame * history THEN Ensured[i - Frame] ELSE Ensured[i]]
    BY EnsuredType DEF Shifted
  <1>2. ASSUME NEW i \in 1..(Frame * AtLeastOne(history)), ~(i <= Frame)
        PROVE  i <= Frame * history
    BY <1>2, BufferLength, FrameNat DEF AtLeastOne
  <1>3. ASSUME NEW i \in 1..(Frame * AtLeastOne(history)), ~(i <= Frame)
        PROVE  i - Frame \in 1..(Frame * AtLeastOne(history))
    BY <1>3, BufferLength, FrameNat
  <1>4. \A i \in 1..(Frame * AtLeastOne(history)) :
           Shifted(Ensured)[i] = IF i <= Frame THEN obs[i] ELSE Ensured[i - Frame]
    BY <1>1, <1>2
  <1>5. ASSUME NEW i \in 1..(Frame * AtLeastOne(history))
        PROVE  (IF i <= Frame THEN obs[i] ELSE Ensured[i - Frame]) \in Values
    <2>1. CASE i <= Frame
      BY <2>1, BufferLength, FrameNat DEF TypeOK
    <2>2. CASE ~(i <= Frame)
      BY <2>2, <1>3, EnsuredType
    <2>. QED  BY <2>1, <2>2
  <1>. QED  BY <1>1, <1>4, <1>5

-----------------------------------------------------------------------------
\* Types

LEMMA InitType == Init => TypeOK
  <1>. SUFFICES ASSUME Init PROVE TypeOK
    OBVIOUS
  <1>1. history \in 0..MaxHistory
    BY DEF Init
  <1>2. copy \in Seq(Readings \cup {Zero}) /\ Len(copy) <= NumJoints
    BY EmptySeq DEF Init
  <1>. QED  BY <1>1, <1>2 DEF Init, TypeOK, Zeros, Values, Joints

LEMMA NextType == TypeOK /\ [Next]_vars => TypeOK'
  <1>. SUFFICES ASSUME TypeOK, [Next]_vars PROVE TypeOK'
    OBVIOUS
  <1>. USE DEF TypeOK, subVars
  <1>1. ASSUME NEW m \in Readings, MessageArrives(m) PROVE TypeOK'
    BY <1>1 DEF MessageArrives
  <1>2. CASE MessageWrites
    BY <1>2 DEF MessageWrites, Joints
  <1>3. CASE MessageDone
    BY <1>3 DEF MessageDone
  <1>4. CASE TickLocks
    BY <1>4, EmptySeq DEF TickLocks
  <1>5. CASE TickCopies
    <2>1. Len(copy) + 1 \in Joints
      BY <1>5, LenProperties DEF TickCopies, Joints
    <2>2. copy' \in Seq(Readings \cup {Zero}) /\ Len(copy') = Len(copy) + 1
      BY <1>5, <2>1, AppendProperties DEF TickCopies
    <2>. QED  BY <1>5, <2>1, <2>2 DEF TickCopies, Joints
  <1>6. CASE TickObserves
    <2>1. obs' \in [1..Frame -> Values]
      BY <1>6, FrameCells DEF TickObserves
    <2>. QED  BY <1>6, <2>1, EmptySeq DEF TickObserves
  <1>7. CASE TickRecords
    <2>1. hisObs' \in [1..(Frame * AtLeastOne(history')) -> Values]
      BY <1>7, ShiftedCells DEF TickRecords
    <2>2. lastAct' \in [Joints -> Actions \cup {Zero}]
      BY <1>7 DEF TickRecords, Zeros, Joints
    <2>. QED  BY <1>7, <2>1, <2>2 DEF TickRecords
  <1>8. CASE TickFails
    BY <1>8 DEF TickFails
  <1>9. ASSUME NEW out \in [Joints -> Actions], TickInfers(out) PROVE TypeOK'
    BY <1>9 DEF TickInfers
  <1>10. CASE TickApplies
    BY <1>10 DEF TickApplies
  <1>11. CASE UNCHANGED vars
    BY <1>11 DEF vars
  <1>. QED
    BY <1>1, <1>2, <1>3, <1>4, <1>5, <1>6, <1>7, <1>8, <1>9, <1>10, <1>11
    DEF Next, Subscriber, Tick

\* Every variable of the observation keeps its type, and the buffer its size.
THEOREM TypeCorrect == Spec => []TypeOK
  BY InitType, NextType, PTL DEF Spec

-----------------------------------------------------------------------------
\* A frame is one state of the robot

\* The mutex belongs to the thread that is copying; between messages all joints
\* come from one, and so do those a tick has copied.
Exclusive ==
  /\ lock = "subscriber" <=> spc # 0
  /\ lock = "tick" <=> tpc = "copy"
  /\ spc = 0 => \A i, j \in Joints : lowState[i] = lowState[j]
  /\ \A j \in Joints : j < spc => lowState[j] = msg
  /\ tpc = "copy" => \A j \in 1..Len(copy) : copy[j] = lowState[j]
  /\ FrameIsOneState

LEMMA InitExclusive == Init => Exclusive
  <1>. SUFFICES ASSUME Init PROVE Exclusive
    OBVIOUS
  <1>1. \A j \in Joints : j \in 1..Frame
    BY DEF Joints, Frame
  <1>. QED  BY <1>1 DEF Init, Exclusive, FrameIsOneState, Zeros, Joints

LEMMA NextExclusive == TypeOK /\ Exclusive /\ [Next]_vars => Exclusive'
  <1>. SUFFICES ASSUME TypeOK, Exclusive, [Next]_vars PROVE Exclusive'
    OBVIOUS
  <1>. USE DEF Exclusive, FrameIsOneState, subVars
  <1>1. ASSUME NEW m \in Readings, MessageArrives(m) PROVE Exclusive'
    BY <1>1 DEF MessageArrives, Joints
  <1>2. CASE MessageWrites
    BY <1>2 DEF MessageWrites, TypeOK, Joints
  <1>3. CASE MessageDone
    BY <1>3 DEF MessageDone, Joints
  <1>4. CASE TickLocks
    BY <1>4, EmptySeq DEF TickLocks
  <1>5. CASE TickCopies
    <2>1. Len(copy) + 1 \in Joints
      BY <1>5, LenProperties DEF TickCopies, Joints, TypeOK
    <2>2. /\ Len(copy') = Len(copy) + 1
          /\ \A j \in 1..Len(copy) : copy'[j] = copy[j]
          /\ copy'[Len(copy) + 1] = lowState[Len(copy) + 1]
      BY <1>5, <2>1, AppendProperties DEF TickCopies, TypeOK
    <2>3. \A j \in 1..Len(copy') : copy'[j] = lowState[j]
      BY <1>5, <2>1, <2>2 DEF TickCopies, Joints
    <2>. QED  BY <1>5, <2>3 DEF TickCopies
  <1>6. CASE TickObserves
    <2>1. \A i \in Joints : obs'[i] = lowState[i]
      BY <1>6, FrameCells DEF TickObserves, Joints
    <2>2. spc = 0
      BY <1>6 DEF TickObserves
    <2>. QED  BY <1>6, <2>1, <2>2 DEF TickObserves
  <1>7. CASE UNCHANGED <<lowState, msg, spc, lock, obs, copy>> /\ tpc # "copy" /\ tpc' # "copy"
    BY <1>7
  <1>8. CASE UNCHANGED vars
    BY <1>8 DEF vars
  <1>. QED
    BY <1>1, <1>2, <1>3, <1>4, <1>5, <1>6, <1>7, <1>8
    DEF Next, Subscriber, Tick, TickRecords, TickFails, TickInfers, TickApplies

\* No observation mixes the joints of two robot states.
THEOREM WholeFrames == Spec => []FrameIsOneState
  <1>1. Exclusive => FrameIsOneState
    BY DEF Exclusive
  <1>. QED  BY <1>1, TypeCorrect, InitExclusive, NextExclusive, PTL DEF Spec

-----------------------------------------------------------------------------
\* The reported action is the applied one

LEMMA NextApplied == TypeOK /\ ActIsApplied /\ [Next]_vars => ActIsApplied'
  <1>. SUFFICES ASSUME TypeOK, ActIsApplied, [Next]_vars PROVE ActIsApplied'
    OBVIOUS
  <1>1. CASE TickRecords
    BY <1>1, MisfitOnlyAtZero DEF TickRecords, ActIsApplied, TypeOK
  <1>2. ASSUME NEW out \in [Joints -> Actions], TickInfers(out) PROVE ActIsApplied'
    BY <1>2 DEF TickInfers, ActIsApplied
  <1>3. CASE TickApplies
    BY <1>3 DEF TickApplies, ActIsApplied
  <1>4. CASE UNCHANGED <<history, lastAct, applied>> /\ tpc # "apply"
    BY <1>4 DEF ActIsApplied
  <1>5. CASE UNCHANGED <<history, lastAct, applied, tpc>>
    BY <1>5 DEF ActIsApplied
  <1>. QED
    BY <1>1, <1>2, <1>3, <1>4, <1>5
    DEF Next, Subscriber, Tick, MessageArrives, MessageWrites, MessageDone, TickLocks,
        TickCopies, TickObserves, TickFails, vars

\* With any history the next frame reports what was last sent to the motors.
THEOREM ActionsReported == Spec => []ActIsApplied
  <1>1. Init => ActIsApplied
    BY DEF Init, ActIsApplied
  <1>. QED  BY <1>1, TypeCorrect, NextApplied, PTL DEF Spec

-----------------------------------------------------------------------------
\* The flat buffer implements the window

Length == AtLeastOne(history)
WindowOf == [i \in 1..Length |-> [k \in 1..Frame |-> hisObs[(i - 1) * Frame + k]]]

\* Cell k of frame i lies within the buffer, and one frame further down is the
\* same cell of the next frame.
LEMMA CellIndex ==
  ASSUME NEW n \in Nat \ {0}, NEW F \in Nat \ {0}, NEW i \in 1..n, NEW k \in 1..F
  PROVE  /\ (i - 1) * F + k \in 1..(F * n)
         /\ (i - 1) * F + k <= F <=> i = 1
         /\ ((i - 1) * F + k) - F = (i - 1 - 1) * F + k
  <1>1. (i - 1) * F \in Nat /\ (i - 1) * F <= (n - 1) * F
    OBVIOUS
  <1>2. (n - 1) * F = F * n - F
    OBVIOUS
  <1>3. i # 1 => (i - 1) * F >= F
    OBVIOUS
  <1>4. (i - 1 - 1) * F = (i - 1) * F - F
    OBVIOUS
  <1>5. F * n \in Nat
    OBVIOUS
  <1>. QED  BY <1>1, <1>2, <1>3, <1>4, <1>5

LEMMA InitWindow == Init => Window!Init
  <1>. SUFFICES ASSUME Init PROVE Window!Init
    OBVIOUS
  <1>1. history \in Nat /\ Length \in 1..AtLeastOne(MaxHistory)
    BY DEF Init, Length, AtLeastOne
  <1>2. ASSUME NEW i \in 1..Length, NEW k \in 1..Frame
        PROVE  hisObs[(i - 1) * Frame + k] = Zero
    <2>1. (i - 1) * Frame + k \in 1..(Frame * Length)
      BY <1>1, FrameNat, CellIndex
    <2>. QED  BY <2>1 DEF Init, Zeros, Length
  <1>3. WindowOf = [i \in 1..Length |-> Zeros(Frame)]
    BY <1>2 DEF WindowOf, Zeros
  <1>. QED  BY <1>1, <1>3 DEF Init, Window!Init, WindowOf, Length

LEMMA RecordIsRecord == TypeOK /\ TickRecords => Window!Record
  <1>. SUFFICES ASSUME TypeOK, TickRecords PROVE Window!Record
    OBVIOUS
  <1>1. Length \in Nat \ {0} /\ Length' = Length
    BY BufferLength DEF TickRecords, Length
  <1>2. hisObs' = Shifted(Ensured)
    BY DEF TickRecords
  <1>3. ASSUME NEW i \in 1..Length, NEW k \in 1..Frame
        PROVE  hisObs'[(i - 1) * Frame + k] =
                 IF i = 1 THEN obs[k] ELSE WindowOf[i - 1][k]
    <2>1. /\ (i - 1) * Frame + k \in 1..(Frame * Length)
          /\ (i - 1) * Frame + k <= Frame <=> i = 1
          /\ ((i - 1) * Frame + k) - Frame = (i - 1 - 1) * Frame + k
      BY <1>1, FrameNat, CellIndex
    <2>2. hisObs'[(i - 1) * Frame + k] =
            IF i = 1 THEN obs[(i - 1) * Frame + k]
            ELSE Ensured[(i - 1 - 1) * Frame + k]
      <3>. DEFINE c == (i - 1) * Frame + k
      <3>1. c \in 1..(Frame * AtLeastOne(history))
        BY <2>1 DEF Length
      <3>2. Shifted(Ensured)[c] = IF c <= Frame THEN obs[c] ELSE Ensured[c - Frame]
        BY <3>1, ShiftedCells
      <3>3. c <= Frame <=> i = 1
        BY <2>1, Zenon
      <3>4. c - Frame = (i - 1 - 1) * Frame + k
        BY <2>1, Zenon
      <3>. HIDE DEF c
      <3>5. hisObs'[c] = IF i = 1 THEN obs[c] ELSE Ensured[(i - 1 - 1) * Frame + k]
        <4>1. hisObs'[c] = IF c <= Frame THEN obs[c] ELSE Ensured[c - Frame]
          BY <1>2, <3>2, Zenon
        <4>. QED  BY <4>1, <3>3, <3>4, Zenon
      <3>. QED  BY <3>5 DEF c
    <2>3. CASE i = 1
      BY <2>2, <2>3, FrameNat
    <2>4. CASE i # 1
      <3>1. history # 0 /\ i - 1 \in 1..Length
        <4>1. i \in Nat /\ i > 1 /\ i <= Length
          BY <1>1, <2>4
        <4>2. Length # 1 /\ i - 1 \in 1..Length
          BY <1>1, <4>1
        <4>. QED  BY <4>2 DEF Length, AtLeastOne
      <3>2. Ensured = hisObs
        BY <3>1, MisfitOnlyAtZero DEF Ensured
      <3>3. WindowOf[i - 1][k] = hisObs[(i - 1 - 1) * Frame + k]
        BY <3>1 DEF WindowOf
      <3>. QED  BY <2>2, <2>4, <3>2, <3>3
    <2>. QED  BY <2>3, <2>4
  <1>4. obs \in [1..Frame -> Values] /\ obs' = obs
    BY DEF TypeOK, TickRecords
  <1>5. WindowOf' = [i \in 1..Length |-> IF i = 1 THEN obs ELSE WindowOf[i - 1]]
    <2>1. WindowOf' = [i \in 1..Length |-> [k \in 1..Frame |-> hisObs'[(i - 1) * Frame + k]]]
      BY <1>1 DEF WindowOf
    <2>2. ASSUME NEW i \in 1..Length
          PROVE  [k \in 1..Frame |-> hisObs'[(i - 1) * Frame + k]]
                   = IF i = 1 THEN obs ELSE WindowOf[i - 1]
      <3>1. CASE i = 1
        BY <1>3, <1>4, <3>1
      <3>2. CASE i # 1
        <4>1. i - 1 \in 1..Length
          BY <1>1, <3>2
        <4>2. WindowOf[i - 1] = [k \in 1..Frame |-> WindowOf[i - 1][k]]
          BY <4>1 DEF WindowOf
        <4>. QED  BY <1>3, <3>2, <4>2
      <3>. QED  BY <3>1, <3>2
    <2>. QED  BY <2>1, <2>2
  <1>6. DOMAIN WindowOf = 1..Length
    BY DEF WindowOf
  <1>. QED  BY <1>1, <1>4, <1>5, <1>6 DEF Window!Record, WindowOf, Length

\* The input of every inference is the last observations, newest first.
THEOREM WindowImplemented == Spec => WindowSpec
  <1>1. TypeOK /\ [Next]_vars => [Window!Next]_Window!wvars
    <2>. SUFFICES ASSUME TypeOK, [Next]_vars PROVE [Window!Next]_Window!wvars
      OBVIOUS
    <2>1. CASE TickRecords
      BY <2>1, RecordIsRecord DEF Window!Next
    <2>2. CASE TickObserves
      <3>1. obs' \in [1..Frame -> Values]
        BY <2>2, FrameCells DEF TickObserves
      <3>2. Window!Observe(obs')
        BY <2>2 DEF TickObserves, Window!Observe
      <3>. QED  BY <3>1, <3>2 DEF Window!Next
    <2>3. CASE UNCHANGED <<history, obs, hisObs>>
      BY <2>3 DEF Window!wvars
    <2>. QED
      BY <2>1, <2>2, <2>3
      DEF Next, Subscriber, Tick, MessageArrives, MessageWrites, MessageDone,
          TickLocks, TickCopies, TickFails, TickInfers, TickApplies, vars
  <1>. QED  BY <1>1, TypeCorrect, InitWindow, PTL DEF Spec, WindowSpec, Window!Spec
=============================================================================
