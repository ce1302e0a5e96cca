-------------------------- MODULE LowCmdBuffer_proofs --------------------------
(***************************************************************************)
(* What holds of the shared low_cmd_ for any number of joints, resets and  *)
(* steps. The threads are not excluded from each other, so the invariant   *)
(* says of every frame whose commands it may hold: its writer's own and    *)
(* those of the threads that overlapped it, which others records.          *)
(***************************************************************************)
EXTENDS LowCmdBuffer, TLAPS

\* the commands a frame of w may hold
From(w) ==
  {Command(w, step[w])} \cup {Command(p[1], p[2]) : p \in others[w] \X (0..Steps)}

\* the joints that w has filled, summed and read in its frame
Filled(w) ==
  IF pc[w] = "fill" THEN 1..(at[w] - 1)
  ELSE IF pc[w] \in {"sum", "store", "read", "write"} THEN Joints ELSE {}
Summed(w) ==
  IF pc[w] = "sum" THEN 1..(at[w] - 1) ELSE IF pc[w] = "store" THEN Joints ELSE {}
Serialised(w) ==
  IF pc[w] = "read" THEN 1..(at[w] - 1) ELSE IF pc[w] = "write" THEN Joints ELSE {}

\* outside the three passes the counter is at the first joint
Rewound == \A w \in Writers : pc[w] \notin {"fill", "sum", "read"} => at[w] = 1

\* two threads inside know of each other
Overlap ==
  \A v, w \in Writers : v # w /\ Inside(v) /\ Inside(w) => v \in others[w]

FillInv == \A w \in Writers : \A j \in Filled(w) : q[j] \in From(w)
SumInv == \A w \in Writers : \A j \in Summed(w) : sum[w][j] \in From(w)
OutInv == \A w \in Writers : \A j \in Serialised(w) : out[w][j] \in From(w)

\* a frame without overlap carries the CRC of its own command
CrcInv ==
  \A w \in Writers : pc[w] \in {"read", "write"} /\ others[w] = {} =>
    crc = Uniform(Command(w, step[w]))

\* SafeExit joins the loop
LoopInv == \A w \in Loops : Inside(w) => active

RestInv ==
  ~active /\ clean /\ (\E r \in Resets : pc[r] = "done")
  /\ (\A r \in Resets : pc[r] \in {"none", "done"}) => robot = Uniform(DefaultPose)

FrameInv == Rewound /\ Overlap /\ FillInv /\ SumInv /\ OutInv /\ CrcInv
IInv == TypeOK /\ FrameInv /\ LoopInv /\ RestInv

-----------------------------------------------------------------------------
LEMMA CommandType ==
  ASSUME NEW w \in Writers, NEW k \in 0..Steps
  PROVE  Command(w, k) \in Commands
  BY DEF Command, Commands

LEMMA UniformType ==
  ASSUME NEW c \in Commands
  PROVE  Uniform(c) \in [Joints -> Commands] /\ \A j \in Joints : Uniform(c)[j] = c
  BY DEF Uniform

LEMMA UnsetType == Nothing \in [Joints -> Commands] /\ Unset \in Commands
                   /\ DefaultPose \in Commands
  BY UniformType DEF Nothing, Commands

\* every step keeps the types
LEMMA TypeStep == TypeOK /\ [Next]_vars => TypeOK'
  <1>. SUFFICES ASSUME TypeOK, [Next]_vars PROVE TypeOK'
    OBVIOUS
  <1>. USE BufferAssumption DEF BufferAssumption
  <1>0. CASE UNCHANGED vars
    BY <1>0 DEF TypeOK, vars
  <1>1. CASE Activate
    BY <1>1 DEF TypeOK, Activate
  <1>2. ASSUME NEW r \in Resets, SafeExit(r) PROVE TypeOK'
    BY <1>2 DEF TypeOK, SafeExit, Places
  <1>3. ASSUME NEW w \in Writers, Begin(w) PROVE TypeOK'
    BY <1>3 DEF TypeOK, Begin, Places
  <1>4. ASSUME NEW w \in Writers, FillJoint(w) PROVE TypeOK'
    <2>1. Command(w, step[w]) \in Commands
      BY CommandType DEF TypeOK
    <2>. QED  BY <1>4, <2>1 DEF TypeOK, FillJoint, Advance, Places, Joints
  <1>5. ASSUME NEW w \in Writers, SumJoint(w) PROVE TypeOK'
    BY <1>5 DEF TypeOK, SumJoint, Advance, Places, Joints
  <1>6. ASSUME NEW w \in Writers, StoreCrc(w) PROVE TypeOK'
    BY <1>6, UnsetType DEF TypeOK, StoreCrc, Places
  <1>7. ASSUME NEW w \in Writers, ReadJoint(w) PROVE TypeOK'
    BY <1>7 DEF TypeOK, ReadJoint, Advance, Places, Joints
  <1>8. ASSUME NEW w \in Writers, Publish(w) PROVE TypeOK'
    <2>1. NextStep(w) \in 0..Steps
      BY DEF TypeOK, NextStep
    <2>. QED  BY <1>8, <2>1, UnsetType DEF TypeOK, Publish, Places
  <1>. QED
    BY <1>0, <1>1, <1>2, <1>3, <1>4, <1>5, <1>6, <1>7, <1>8 DEF Next, Apply

LEMMA InitType == Init => TypeOK
  <1>. SUFFICES ASSUME Init PROVE TypeOK
    OBVIOUS
  <1>1. q \in [Joints -> Commands] /\ crc \in [Joints -> Commands]
        /\ robot \in [Joints -> Commands]
    BY UnsetType DEF Init
  <1>2. pc \in [Writers -> Places]
    BY DEF Init, Places
  <1>3. at \in [Writers -> Joints] /\ step \in [Writers -> 0..Steps]
    BY BufferAssumption DEF Init, Joints, BufferAssumption
  <1>4. /\ sum \in [Writers -> [Joints -> Commands]]
        /\ out \in [Writers -> [Joints -> Commands]]
    BY UnsetType DEF Init
  <1>5. others \in [Writers -> SUBSET Writers] /\ active \in BOOLEAN /\ clean \in BOOLEAN
    BY DEF Init
  <1>. QED  BY <1>1, <1>2, <1>3, <1>4, <1>5 DEF TypeOK

\* The variables keep their types, and no counter runs past its loop.
THEOREM TypeCorrect == Spec => []TypeOK
  <1>1. Init => TypeOK
    BY InitType
  <1>. QED  BY <1>1, TypeStep, PTL DEF Spec

-----------------------------------------------------------------------------
\* The passes over the joints

\* a pass that advances ends with the counter back at the first joint
LEMMA RewoundStep == TypeOK /\ Rewound /\ [Next]_vars => Rewound'
  <1>. SUFFICES ASSUME TypeOK, Rewound, [Next]_vars PROVE Rewound'
    OBVIOUS
  <1>. USE DEF Rewound, TypeOK
  <1>0. CASE UNCHANGED vars
    BY <1>0 DEF vars
  <1>1. CASE Activate
    BY <1>1 DEF Activate
  <1>2. ASSUME NEW r \in Resets, SafeExit(r) PROVE Rewound'
    BY <1>2 DEF SafeExit
  <1>3. ASSUME NEW w \in Writers, Begin(w) PROVE Rewound'
    BY <1>3 DEF Begin
  <1>4. ASSUME NEW w \in Writers, FillJoint(w) PROVE Rewound'
    BY <1>4 DEF FillJoint, Advance
  <1>5. ASSUME NEW w \in Writers, SumJoint(w) PROVE Rewound'
    BY <1>5 DEF SumJoint, Advance
  <1>6. ASSUME NEW w \in Writers, StoreCrc(w) PROVE Rewound'
    BY <1>6 DEF StoreCrc
  <1>7. ASSUME NEW w \in Writers, ReadJoint(w) PROVE Rewound'
    BY <1>7 DEF ReadJoint, Advance
  <1>8. ASSUME NEW w \in Writers, Publish(w) PROVE Rewound'
    BY <1>8 DEF Publish
  <1>. QED
    BY <1>0, <1>1, <1>2, <1>3, <1>4, <1>5, <1>6, <1>7, <1>8 DEF Next, Apply

LEMMA OverlapStep == TypeOK /\ Overlap /\ [Next]_vars => Overlap'
  <1>. SUFFICES ASSUME TypeOK, Overlap, [Next]_vars PROVE Overlap'
    OBVIOUS
  <1>. USE DEF Overlap, TypeOK, Inside
  <1>0. CASE UNCHANGED vars
    BY <1>0 DEF vars
  <1>1. CASE Activate
    BY <1>1 DEF Activate
  <1>2. ASSUME NEW r \in Resets, SafeExit(r) PROVE Overlap'
    BY <1>2 DEF SafeExit
  <1>3. ASSUME NEW w \in Writers, Begin(w) PROVE Overlap'
    BY <1>3 DEF Begin
  <1>4. ASSUME NEW w \in Writers, FillJoint(w) PROVE Overlap'
    BY <1>4 DEF FillJoint, Advance
  <1>5. ASSUME NEW w \in Writers, SumJoint(w) PROVE Overlap'
    BY <1>5 DEF SumJoint, Advance
  <1>6. ASSUME NEW w \in Writers, StoreCrc(w) PROVE Overlap'
    BY <1>6 DEF StoreCrc
  <1>7. ASSUME NEW w \in Writers, ReadJoint(w) PROVE Overlap'
    BY <1>7 DEF ReadJoint, Advance
  <1>8. ASSUME NEW w \in Writers, Publish(w) PROVE Overlap'
    BY <1>8 DEF Publish
  <1>. QED
    BY <1>0, <1>1, <1>2, <1>3, <1>4, <1>5, <1>6, <1>7, <1>8 DEF Next, Apply

LEMMA LoopStep == TypeOK /\ LoopInv /\ [Next]_vars => LoopInv'
  <1>. SUFFICES ASSUME TypeOK, LoopInv, [Next]_vars PROVE LoopInv'
    OBVIOUS
  <1>. USE BufferAssumption DEF LoopInv, TypeOK, Inside, Writers, BufferAssumption
  <1>0. CASE UNCHANGED vars
    BY <1>0 DEF vars
  <1>1. CASE Activate
    BY <1>1 DEF Activate
  <1>2. ASSUME NEW r \in Resets, SafeExit(r) PROVE LoopInv'
    BY <1>2 DEF SafeExit
  <1>3. ASSUME NEW w \in Writers, Begin(w) PROVE LoopInv'
    BY <1>3 DEF Begin
  <1>4. ASSUME NEW w \in Writers, FillJoint(w) PROVE LoopInv'
    BY <1>4 DEF FillJoint, Advance
  <1>5. ASSUME NEW w \in Writers, SumJoint(w) PROVE LoopInv'
    BY <1>5 DEF SumJoint, Advance
  <1>6. ASSUME NEW w \in Writers, StoreCrc(w) PROVE LoopInv'
    BY <1>6 DEF StoreCrc
  <1>7. ASSUME NEW w \in Writers, ReadJoint(w) PROVE LoopInv'
    BY <1>7 DEF ReadJoint, Advance
  <1>8. ASSUME NEW w \in Writers, Publish(w) PROVE LoopInv'
    BY <1>8 DEF Publish
  <1>. QED
    BY <1>0, <1>1, <1>2, <1>3, <1>4, <1>5, <1>6, <1>7, <1>8 DEF Next, Apply

-----------------------------------------------------------------------------
\* What a frame may hold

\* while a writer is inside, its frame may only come to hold more
LEMMA FromGrows ==
  ASSUME TypeOK, [Next]_vars, NEW w \in Writers, Inside(w), Inside(w)'
  PROVE  From(w) \subseteq From(w)'
  <1>1. step'[w] = step[w] /\ others[w] \subseteq others'[w]
    <2>. USE DEF TypeOK, Inside
    <2>0. CASE UNCHANGED vars
      BY <2>0 DEF vars
    <2>1. CASE Activate
      BY <2>1 DEF Activate
    <2>2. ASSUME NEW r \in Resets, SafeExit(r)
          PROVE  step'[w] = step[w] /\ others[w] \subseteq others'[w]
      BY <2>2 DEF SafeExit
    <2>3. ASSUME NEW v \in Writers, Begin(v)
          PROVE  step'[w] = step[w] /\ others[w] \subseteq others'[w]
      BY <2>3 DEF Begin
    <2>4. ASSUME NEW v \in Writers, FillJoint(v) \/ SumJoint(v) \/ StoreCrc(v) \/ ReadJoint(v)
          PROVE  step'[w] = step[w] /\ others[w] \subseteq others'[w]
      BY <2>4 DEF FillJoint, SumJoint, StoreCrc, ReadJoint
    <2>5. ASSUME NEW v \in Writers, Publish(v)
          PROVE  step'[w] = step[w] /\ others[w] \subseteq others'[w]
      BY <2>5 DEF Publish
    <2>. QED  BY <2>0, <2>1, <2>2, <2>3, <2>4, <2>5 DEF Next, Apply
  <1>. QED  BY <1>1 DEF From, Command

LEMMA OwnInFrom ==
  ASSUME NEW w \in Writers
  PROVE  Command(w, step[w]) \in From(w)
  BY DEF From

\* a thread that is inside together with w writes what w's frame may hold
LEMMA OtherInFrom ==
  ASSUME TypeOK, Overlap, NEW v \in Writers, NEW w \in Writers,
         Inside(v), Inside(w)
  PROVE  Command(v, step[v]) \in From(w)
  <1>1. CASE v = w
    BY <1>1, OwnInFrom
  <1>2. CASE v # w
    <2>1. <<v, step[v]>> \in others[w] \X (0..Steps)
      BY <1>2 DEF Overlap, TypeOK
    <2>. QED  BY <2>1 DEF From
  <1>. QED  BY <1>1, <1>2

\* the buffer: what is filled stays within the frames of all who are inside
LEMMA FillStep ==
  TypeOK /\ Rewound /\ Overlap /\ FillInv /\ [Next]_vars => FillInv'
  <1>. SUFFICES ASSUME TypeOK, Rewound, Overlap, FillInv, [Next]_vars,
                       NEW w \in Writers, NEW j \in Filled(w)'
                PROVE  q'[j] \in From(w)'
    BY DEF FillInv
  <1>. USE DEF TypeOK, Filled, Rewound
  <1>1. Inside(w)'
    BY DEF Inside
  <1>2. Inside(w) => From(w) \subseteq From(w)'
    BY <1>1, FromGrows
  <1>3. SUFFICES Inside(w) /\ q'[j] \in From(w)
    BY <1>2
  <1>. USE DEF FillInv
  <1>4. CASE UNCHANGED vars
    BY <1>4 DEF vars, Inside
  <1>5. CASE Activate
    BY <1>5 DEF Activate, Inside
  <1>6. ASSUME NEW r \in Resets, SafeExit(r) PROVE Inside(w) /\ q'[j] \in From(w)
    BY <1>6 DEF SafeExit, Inside
  <1>7. ASSUME NEW v \in Writers, Begin(v) PROVE Inside(w) /\ q'[j] \in From(w)
    BY <1>7 DEF Begin, Inside
  <1>8. ASSUME NEW v \in Writers, FillJoint(v) PROVE Inside(w) /\ q'[j] \in From(w)
    <2>1. Inside(w) /\ Inside(v)
      BY <1>8, <1>1 DEF FillJoint, Advance, Inside
    <2>2. Command(v, step[v]) \in From(w)
      BY <2>1, OtherInFrom
    <2>3. CASE j = at[v]
      BY <1>8, <2>1, <2>2, <2>3 DEF FillJoint
    <2>4. CASE j # at[v]
      <3>1. j \in Filled(w)
        BY <1>8, <2>1, <2>4 DEF FillJoint, Advance, Joints
      <3>2. q'[j] = q[j]
        BY <1>8, <2>4 DEF FillJoint
      <3>. QED  BY <2>1, <3>1, <3>2
    <2>. QED  BY <2>3, <2>4
  <1>9. ASSUME NEW v \in Writers, SumJoint(v) PROVE Inside(w) /\ q'[j] \in From(w)
    BY <1>9 DEF SumJoint, Advance, Inside
  <1>10. ASSUME NEW v \in Writers, StoreCrc(v) PROVE Inside(w) /\ q'[j] \in From(w)
    BY <1>10 DEF StoreCrc, Inside
  <1>11. ASSUME NEW v \in Writers, ReadJoint(v) PROVE Inside(w) /\ q'[j] \in From(w)
    BY <1>11 DEF ReadJoint, Advance, Inside
  <1>12. ASSUME NEW v \in Writers, Publish(v) PROVE Inside(w) /\ q'[j] \in From(w)
    BY <1>12 DEF Publish, Inside
  <1>. QED
    BY <1>4, <1>5, <1>6, <1>7, <1>8, <1>9, <1>10, <1>11, <1>12 DEF Next, Apply

\* the sum: it goes over what is filled
LEMMA SumStep ==
  TypeOK /\ Rewound /\ FillInv /\ SumInv /\ [Next]_vars => SumInv'
  <1>. SUFFICES ASSUME TypeOK, Rewound, FillInv, SumInv, [Next]_vars,
                       NEW w \in Writers, NEW j \in Summed(w)'
                PROVE  sum'[w][j] \in From(w)'
    BY DEF SumInv
  <1>. USE DEF TypeOK, Summed, Rewound
  <1>1. Inside(w)'
    BY DEF Inside
  <1>2. Inside(w) => From(w) \subseteq From(w)'
    BY <1>1, FromGrows
  <1>3. SUFFICES Inside(w) /\ sum'[w][j] \in From(w)
    BY <1>2
  <1>. USE DEF SumInv
  <1>4. CASE UNCHANGED vars
    BY <1>4 DEF vars, Inside
  <1>5. CASE Activate
    BY <1>5 DEF Activate, Inside
  <1>6. ASSUME NEW r \in Resets, SafeExit(r) PROVE Inside(w) /\ sum'[w][j] \in From(w)
    BY <1>6 DEF SafeExit, Inside
  <1>7. ASSUME NEW v \in Writers, Begin(v) PROVE Inside(w) /\ sum'[w][j] \in From(w)
    BY <1>7 DEF Begin, Inside
  <1>8. ASSUME NEW v \in Writers, FillJoint(v) PROVE Inside(w) /\ sum'[w][j] \in From(w)
    BY <1>8 DEF FillJoint, Advance, Inside
  <1>9. ASSUME NEW v \in Writers, SumJoint(v) PROVE Inside(w) /\ sum'[w][j] \in From(w)
    <2>1. Inside(w)
      BY <1>9, <1>1 DEF SumJoint, Advance, Inside
    <2>2. CASE v = w /\ j = at[w]
      <3>1. j \in Filled(w) /\ sum'[w][j] = q[j]
        BY <1>9, <2>2 DEF SumJoint, Filled
      <3>. QED  BY <2>1, <3>1 DEF FillInv
    <2>3. CASE ~(v = w /\ j = at[w])
      <3>1. j \in Summed(w)
        BY <1>9, <2>3 DEF SumJoint, Advance, Joints
      <3>2. sum'[w][j] = sum[w][j]
        BY <1>9, <2>3 DEF SumJoint
      <3>. QED  BY <2>1, <3>1, <3>2
    <2>. QED  BY <2>2, <2>3
  <1>10. ASSUME NEW v \in Writers, StoreCrc(v) PROVE Inside(w) /\ sum'[w][j] \in From(w)
    BY <1>10 DEF StoreCrc, Inside
  <1>11. ASSUME NEW v \in Writers, ReadJoint(v) PROVE Inside(w) /\ sum'[w][j] \in From(w)
    BY <1>11 DEF ReadJoint, Advance, Inside
  <1>12. ASSUME NEW v \in Writers, Publish(v) PROVE Inside(w) /\ sum'[w][j] \in From(w)
    BY <1>12 DEF Publish, Inside
  <1>. QED
    BY <1>4, <1>5, <1>6, <1>7, <1>8, <1>9, <1>10, <1>11, <1>12 DEF Next, Apply

\* the frame: it is read out of what is filled
LEMMA OutStep ==
  TypeOK /\ Rewound /\ FillInv /\ OutInv /\ [Next]_vars => OutInv'
  <1>. SUFFICES ASSUME TypeOK, Rewound, FillInv, OutInv, [Next]_vars,
                       NEW w \in Writers, NEW j \in Serialised(w)'
                PROVE  out'[w][j] \in From(w)'
    BY DEF OutInv
  <1>. USE DEF TypeOK, Serialised, Rewound
  <1>1. Inside(w)'
    BY DEF Inside
  <1>2. Inside(w) => From(w) \subseteq From(w)'
    BY <1>1, FromGrows
  <1>3. SUFFICES Inside(w) /\ out'[w][j] \in From(w)
    BY <1>2
  <1>. USE DEF OutInv
  <1>4. CASE UNCHANGED vars
    BY <1>4 DEF vars, Inside
  <1>5. CASE Activate
    BY <1>5 DEF Activate, Inside
  <1>6. ASSUME NEW r \in Resets, SafeExit(r) PROVE Inside(w) /\ out'[w][j] \in From(w)
    BY <1>6 DEF SafeExit, Inside
  <1>7. ASSUME NEW v \in Writers, Begin(v) PROVE Inside(w) /\ out'[w][j] \in From(w)
    BY <1>7 DEF Begin, Inside
  <1>8. ASSUME NEW v \in Writers, FillJoint(v) PROVE Inside(w) /\ out'[w][j] \in From(w)
    BY <1>8 DEF FillJoint, Advance, Inside
  <1>9. ASSUME NEW v \in Writers, ReadJoint(v) PROVE Inside(w) /\ out'[w][j] \in From(w)
    <2>1. Inside(w)
      BY <1>9, <1>1 DEF ReadJoint, Advance, Inside
    <2>2. CASE v = w /\ j = at[w]
      <3>1. j \in Filled(w) /\ out'[w][j] = q[j]
        BY <1>9, <2>2 DEF ReadJoint, Filled
      <3>. QED  BY <2>1, <3>1 DEF FillInv
    <2>3. CASE ~(v = w /\ j = at[w])
      <3>1. j \in Serialised(w)
        BY <1>9, <2>3 DEF ReadJoint, Advance, Joints
      <3>2. out'[w][j] = out[w][j]
        BY <1>9, <2>3 DEF ReadJoint
      <3>. QED  BY <2>1, <3>1, <3>2
    <2>. QED  BY <2>2, <2>3
  <1>10. ASSUME NEW v \in Writers, StoreCrc(v) PROVE Inside(w) /\ out'[w][j] \in From(w)
    BY <1>10 DEF StoreCrc, Inside
  <1>11. ASSUME NEW v \in Writers, SumJoint(v) PROVE Inside(w) /\ out'[w][j] \in From(w)
    BY <1>11 DEF SumJoint, Advance, Inside
  <1>12. ASSUME NEW v \in Writers, Publish(v) PROVE Inside(w) /\ out'[w][j] \in From(w)
    BY <1>12 DEF Publish, Inside
  <1>. QED
    BY <1>4, <1>5, <1>6, <1>7, <1>8, <1>9, <1>10, <1>11, <1>12 DEF Next, Apply

LEMMA AloneFrom ==
  ASSUME NEW w \in Writers, others[w] = {}
  PROVE  From(w) = {Command(w, step[w])}
  BY DEF From

\* the CRC: who is alone has stored its own, and nobody else stores one meanwhile
LEMMA CrcStep ==
  TypeOK /\ Overlap /\ SumInv /\ CrcInv /\ [Next]_vars => CrcInv'
  <1>. SUFFICES ASSUME TypeOK, Overlap, SumInv, CrcInv, [Next]_vars,
                       NEW w \in Writers,
                       pc'[w] \in {"read", "write"}, others'[w] = {}
                PROVE  crc' = Uniform(Command(w, step'[w]))
    BY DEF CrcInv, Uniform, Command
  <1>. USE DEF TypeOK
  <1>1. CASE UNCHANGED vars
    BY <1>1 DEF vars, CrcInv
  <1>2. CASE Activate
    BY <1>2 DEF Activate, CrcInv
  <1>3. ASSUME NEW r \in Resets, SafeExit(r) PROVE crc' = Uniform(Command(w, step'[w]))
    BY <1>3 DEF SafeExit, CrcInv
  <1>4. ASSUME NEW v \in Writers, Begin(v) PROVE crc' = Uniform(Command(w, step'[w]))
    BY <1>4 DEF Begin, CrcInv
  <1>5. ASSUME NEW v \in Writers, FillJoint(v) PROVE crc' = Uniform(Command(w, step'[w]))
    BY <1>5 DEF FillJoint, Advance, CrcInv
  <1>6. ASSUME NEW v \in Writers, SumJoint(v) PROVE crc' = Uniform(Command(w, step'[w]))
    BY <1>6 DEF SumJoint, Advance, CrcInv
  <1>7. ASSUME NEW v \in Writers, StoreCrc(v) PROVE crc' = Uniform(Command(w, step'[w]))
    <2>1. others[w] = {} /\ step' = step /\ crc' = sum[v] /\ pc[v] = "store"
      BY <1>7 DEF StoreCrc
    <2>2. v = w
      <3>1. SUFFICES ASSUME v # w PROVE FALSE
        OBVIOUS
      <3>2. Inside(v) /\ Inside(w)
        BY <1>7, <3>1 DEF StoreCrc, Inside
      <3>. QED  BY <2>1, <3>1, <3>2 DEF Overlap
    <2>3. \A j \in Joints : sum[w][j] = Command(w, step[w])
      BY <2>1, <2>2, AloneFrom DEF SumInv, Summed
    <2>4. sum[w] = [j \in Joints |-> Command(w, step[w])]
      BY <2>3
    <2>. QED  BY <2>1, <2>2, <2>4 DEF Uniform
  <1>8. ASSUME NEW v \in Writers, ReadJoint(v) PROVE crc' = Uniform(Command(w, step'[w]))
    BY <1>8 DEF ReadJoint, Advance, CrcInv
  <1>9. ASSUME NEW v \in Writers, Publish(v) PROVE crc' = Uniform(Command(w, step'[w]))
    BY <1>9 DEF Publish, CrcInv
  <1>. QED
    BY <1>1, <1>2, <1>3, <1>4, <1>5, <1>6, <1>7, <1>8, <1>9 DEF Next, Apply

\* a frame that nobody overlaps
LEMMA WholeFrame ==
  ASSUME TypeOK, OutInv, CrcInv, NEW w \in Writers, pc[w] = "write", others[w] = {}
  PROVE  out[w] = Uniform(Command(w, step[w])) /\ crc = out[w]
  <1>1. \A j \in Joints : out[w][j] = Command(w, step[w])
    BY AloneFrom DEF OutInv, Serialised
  <1>2. out[w] = Uniform(Command(w, step[w]))
    BY <1>1 DEF TypeOK, Uniform
  <1>. QED  BY <1>2 DEF CrcInv

\* only the last step of a reset brings the system to rest
LEMMA RestStep ==
  TypeOK /\ OutInv /\ CrcInv /\ LoopInv /\ RestInv /\ [Next]_vars => RestInv'
  <1>. SUFFICES ASSUME TypeOK, OutInv, CrcInv, LoopInv, RestInv, [Next]_vars,
                       ~active', clean', NEW s \in Resets, pc'[s] = "done",
                       \A r \in Resets : pc'[r] \in {"none", "done"}
                PROVE  robot' = Uniform(DefaultPose)
    BY DEF RestInv, Uniform, DefaultPose
  <1>. USE BufferAssumption DEF TypeOK, RestInv, LoopInv, Inside, Writers, BufferAssumption
  <1>1. CASE UNCHANGED vars
    BY <1>1 DEF vars
  <1>2. CASE Activate
    BY <1>2 DEF Activate
  <1>3. ASSUME NEW r \in Resets, SafeExit(r) PROVE robot' = Uniform(DefaultPose)
    BY <1>3 DEF SafeExit
  <1>4. ASSUME NEW v \in Writers, Begin(v) PROVE robot' = Uniform(DefaultPose)
    BY <1>4 DEF Begin
  <1>5. ASSUME NEW v \in Writers, FillJoint(v) PROVE robot' = Uniform(DefaultPose)
    BY <1>5 DEF FillJoint, Advance
  <1>6. ASSUME NEW v \in Writers, SumJoint(v) PROVE robot' = Uniform(DefaultPose)
    BY <1>6 DEF SumJoint, Advance
  <1>7. ASSUME NEW v \in Writers, StoreCrc(v) PROVE robot' = Uniform(DefaultPose)
    BY <1>7 DEF StoreCrc
  <1>8. ASSUME NEW v \in Writers, ReadJoint(v) PROVE robot' = Uniform(DefaultPose)
    BY <1>8 DEF ReadJoint, Advance
  <1>9. ASSUME NEW v \in Writers, Publish(v) PROVE robot' = Uniform(DefaultPose)
    <2>1. v \in Resets
      BY <1>9 DEF Publish
    <2>2. step[v] = Steps
      BY <1>9, <2>1 DEF Publish, IsLast
    <2>3. others[v] = {} /\ pc[v] = "write"
      BY <1>9 DEF Publish
    <2>4. out[v] = Uniform(Command(v, step[v])) /\ crc = out[v]
      BY <2>1, <2>3, WholeFrame
    <2>5. Command(v, step[v]) = DefaultPose
      BY <2>1, <2>2 DEF Command
    <2>. QED  BY <1>9, <2>4, <2>5 DEF Publish
  <1>. QED
    BY <1>1, <1>2, <1>3, <1>4, <1>5, <1>6, <1>7, <1>8, <1>9 DEF Next, Apply

-----------------------------------------------------------------------------
LEMMA InitInv == Init => IInv
  <1>. SUFFICES ASSUME Init PROVE IInv
    OBVIOUS
  <1>1. TypeOK
    BY InitType
  <1>2. \A w \in Writers : pc[w] \in {"rest", "none"} /\ at[w] = 1
    BY DEF Init
  <1>3. FrameInv
    BY <1>2 DEF FrameInv, Rewound, Overlap, Inside, FillInv, SumInv, OutInv, CrcInv,
                Filled, Summed, Serialised
  <1>4. LoopInv /\ RestInv
    BY <1>2 DEF LoopInv, RestInv, Inside, Writers
  <1>. QED  BY <1>1, <1>3, <1>4 DEF IInv

LEMMA InvStep == IInv /\ [Next]_vars => IInv'
  BY TypeStep, RewoundStep, OverlapStep, FillStep, SumStep, OutStep, CrcStep,
     LoopStep, RestStep DEF IInv, FrameInv

LEMMA Invariance == Spec => []IInv
  BY InitInv, InvStep, PTL DEF Spec

\* However many threads share low_cmd_ without its mutex, and wherever they
\* interrupt each other, a frame holds nothing but commands of threads that were
\* in applyPositionControl together with its writer.
THEOREM Mixed == Spec => []MixedOnlyByOverlap
  <1>1. IInv => MixedOnlyByOverlap
    <2>. SUFFICES ASSUME IInv, NEW w \in Writers, NEW j \in Joints, pc[w] = "write"
                  PROVE  \/ out[w][j] = Command(w, step[w])
                         \/ \E v \in others[w] :
                              out[w][j] \in {Command(v, k) : k \in 0..Steps}
      BY DEF MixedOnlyByOverlap
    <2>1. out[w][j] \in From(w)
      BY DEF IInv, FrameInv, OutInv, Serialised
    <2>. QED  BY <2>1 DEF From
  <1>. QED  BY <1>1, Invariance, PTL

\* A frame without overlap reaches the robot whole and with its own CRC.
THEOREM Undisturbed == Spec => []UndisturbedIsAccepted
  <1>1. IInv => UndisturbedIsAccepted
    BY WholeFrame DEF IInv, FrameInv, UndisturbedIsAccepted
  <1>. QED  BY <1>1, Invariance, PTL

\* After a safe exit and the end of all resets the robot has accepted the default
\* pose, if nobody overlapped the last frame.
THEOREM AtDefault == Spec => []SettledAtDefault
  <1>1. IInv => SettledAtDefault
    BY DEF IInv, RestInv, SettledAtDefault, Settled
  <1>. QED  BY <1>1, Invariance, PTL

-----------------------------------------------------------------------------
\* Who is in applyPositionControl

LEMMA AccessStep == TypeOK /\ LoopInv /\ [Next]_vars => [Access!Next]_(Access!accessVars)
  <1>. DEFINE started == {r \in Resets : pc[r] \notin {"none", "done"}}
              inside == {w \in Writers : Inside(w)}
  <1>. SUFFICES ASSUME TypeOK, LoopInv, [Next]_vars
                PROVE  [Access!Next]_(Access!accessVars)
    OBVIOUS
  <1>. USE DEF Writers
  <1>1. CASE UNCHANGED vars
    BY <1>1 DEF vars, Access!accessVars, Inside
  <1>2. CASE Activate
    <2>1. Access!Arm
      BY <1>2 DEF Activate, Access!Arm, Inside
    <2>. QED  BY <2>1 DEF Access!Next
  <1>3. ASSUME NEW r \in Resets, SafeExit(r) PROVE [Access!Next]_(Access!accessVars)
    <2>1. pc[r] = "none" /\ pc' = [pc EXCEPT ![r] = "rest"] /\ ~active'
          /\ \A w \in Loops : ~Inside(w)
      BY <1>3 DEF SafeExit, TypeOK
    <2>2. started' = started \cup {r} /\ r \notin started
      BY <2>1 DEF TypeOK
    <2>3. inside' = inside
      BY <2>1 DEF TypeOK, Inside
    <2>4. Access!SafeExit(r)
      BY <2>1, <2>2, <2>3 DEF Access!SafeExit
    <2>. QED  BY <2>4 DEF Access!Next
  <1>4. ASSUME NEW w \in Writers, Begin(w) PROVE [Access!Next]_(Access!accessVars)
    <2>1. pc[w] = "rest" /\ pc' = [pc EXCEPT ![w] = "fill"] /\ UNCHANGED active
      BY <1>4 DEF Begin
    <2>2. inside' = inside \cup {w} /\ w \notin inside
      BY <2>1 DEF TypeOK, Inside
    <2>3. started' = started
      BY <2>1 DEF TypeOK
    <2>4. IF w \in Loops THEN active ELSE w \in started
      BY <1>4, <2>1 DEF Begin
    <2>5. Access!Enter(w)
      BY <2>1, <2>2, <2>3, <2>4 DEF Access!Enter
    <2>. QED  BY <2>5 DEF Access!Next
  <1>5. ASSUME NEW w \in Writers, FillJoint(w) \/ SumJoint(w) \/ StoreCrc(w) \/ ReadJoint(w)
        PROVE  [Access!Next]_(Access!accessVars)
    <2>1. /\ pc[w] \in {"fill", "sum", "store", "read"} /\ UNCHANGED active
          /\ \E p \in {"fill", "sum", "store", "read", "write"} : pc' = [pc EXCEPT ![w] = p]
      BY <1>5 DEF FillJoint, SumJoint, StoreCrc, ReadJoint, Advance, TypeOK
    <2>2. PICK p \in {"fill", "sum", "store", "read", "write"} : pc' = [pc EXCEPT ![w] = p]
      BY <2>1
    <2>3. inside' = inside /\ started' = started
      BY <2>1, <2>2 DEF TypeOK, Inside
    <2>. QED  BY <2>1, <2>3 DEF Access!accessVars
  <1>6. ASSUME NEW w \in Writers, Publish(w) PROVE [Access!Next]_(Access!accessVars)
    <2>1. /\ pc[w] = "write" /\ UNCHANGED active
          /\ pc' = [pc EXCEPT ![w] = IF IsLast(w) THEN "done" ELSE "rest"]
      BY <1>6 DEF Publish
    <2>2. inside' = inside \ {w} /\ w \in inside
      BY <2>1 DEF TypeOK, Inside
    <2>3. started' \in {started} \cup {started \ {r} : r \in {w} \cap Resets}
      <3>1. CASE IsLast(w)
        <4>1. started' = started \ {w} /\ w \in Resets
          BY <2>1, <3>1 DEF TypeOK, IsLast
        <4>. QED  BY <4>1
      <3>2. CASE ~IsLast(w)
        <4>1. started' = started
          BY <2>1, <3>2 DEF TypeOK
        <4>. QED  BY <4>1
      <3>. QED  BY <3>1, <3>2
    <2>4. Access!Leave(w)
      BY <2>1, <2>2, <2>3 DEF Access!Leave
    <2>. QED  BY <2>4 DEF Access!Next
  <1>. QED  BY <1>1, <1>2, <1>3, <1>4, <1>5, <1>6 DEF Next, Apply

\* The threads of this module enter and leave as MotorAccess says, with no other
\* freedom: it is what PolicyNode is shown to do.
THEOREM BufferFollowsAccess == Spec => AccessSpec
  <1>1. Init => Access!Init
    <2>. SUFFICES ASSUME Init PROVE Access!Init
      OBVIOUS
    <2>1. \A r \in Resets : pc[r] = "none"
      BY BufferAssumption DEF BufferAssumption, Init, Writers
    <2>2. \A w \in Writers : ~Inside(w)
      BY DEF Init, Inside
    <2>3. active = FALSE
      BY DEF Init
    <2>. QED  BY <2>1, <2>2, <2>3 DEF Access!Init
  <1>2. IInv /\ [Next]_vars => [Access!Next]_(Access!accessVars)
    BY AccessStep DEF IInv
  <1>. QED  BY <1>1, <1>2, Invariance, PTL DEF Spec, AccessSpec, Access!Spec
=============================================================================
