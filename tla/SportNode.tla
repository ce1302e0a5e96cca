------------------------------ MODULE SportNode ------------------------------
(***************************************************************************)
(* The sport node of Go2/Go2W: every /cmd_vel becomes one Move call of the *)
(* sport service, which blocks the executor until it returns or times out; *)
(* its return code is only logged. The control loop, with the stick and    *)
(* the stale timeout, has no timer (it is commented out), and the gamepad  *)
(* is updated for nobody.                                                  *)
(*                                                                         *)
(* The service is external. It takes requests in the order they were sent, *)
(* executes or loses each of them, and may do so after the call that sent  *)
(* it has timed out. A velocity is in units of the maximum.                *)
(***************************************************************************)
EXTENDS Integers, Sequences

VARIABLES
  inbox,   \* the node's /cmd_vel subscription
  phase,   \* constructor, spin, destructor, gone
  call,    \* number of the message whose Move is under way, 0 for none
  handled, \* history: number of the last message whose Move returned
  service, \* requests the service has not got to
  ran,     \* history: the last request the robot executed
  lost,    \* history: number of the last request that was lost
  robot    \* the velocity the robot was last told

\* last_ros_cmd_time_ and sent_stop_ are only read by the control loop
nodeVars == <<inbox, phase, call, handled>>
serviceVars == <<service, ran, lost, robot>>
sportVars == <<nodeVars, serviceVars>>

NoRequest == [no |-> 0, v |-> 0]

SportInit ==
  /\ inbox = <<>> /\ phase = "construct" /\ call = 0 /\ handled = 0
  /\ service = <<>> /\ ran = NoRequest /\ lost = 0 /\ robot = 0

\* StandUp, whatever it returns, then the subscription
Construct ==
  /\ phase = "construct"
  /\ phase' = "spin"
  /\ UNCHANGED <<inbox, call, handled, serviceVars>>

Clamp(v) == IF v < -1 THEN -1 ELSE IF v > 1 THEN 1 ELSE v

\* the queue from the wrong end
NewestFirst ==
  /\ phase = "spin" /\ call = 0 /\ inbox # <<>>
  /\ call' = inbox[Len(inbox)].no
  /\ service' = Append(service, [no |-> call', v |-> Clamp(inbox[Len(inbox)].v)])
  /\ inbox' = SubSeq(inbox, 1, Len(inbox) - 1)
  /\ UNCHANGED <<phase, handled, ran, lost, robot>>

OnTwist ==
  /\ phase = "spin" /\ call = 0 /\ inbox # <<>>
  /\ call' = Head(inbox).no
  /\ service' = Append(service, [no |-> call', v |-> Clamp(Head(inbox).v)])
  /\ inbox' = Tail(inbox)
  /\ UNCHANGED <<phase, handled, ran, lost, robot>>

\* the reply, an error or the timeout
MoveReturns ==
  /\ call # 0
  /\ call' = 0 /\ handled' = call
  /\ UNCHANGED <<inbox, phase, serviceVars>>

\* spin returns, between two callbacks
Interrupt ==
  /\ phase = "spin" /\ call = 0
  /\ phase' = "stop"
  /\ UNCHANGED <<inbox, call, handled, serviceVars>>

\* the destructor without its call
LeaveMoving ==
  /\ phase = "stop"
  /\ phase' = "gone"
  /\ UNCHANGED <<inbox, call, handled, serviceVars>>

\* StopMove in the destructor, whatever it returns
StopMove ==
  /\ phase = "stop"
  /\ phase' = "gone"
  /\ service' = Append(service, [no |-> handled + 1, v |-> 0])
  /\ UNCHANGED <<inbox, call, handled, ran, lost, robot>>

Serve(executed) ==
  /\ service # <<>>
  /\ service' = Tail(service)
  /\ IF executed
     THEN ran' = Head(service) /\ robot' = Head(service).v /\ UNCHANGED lost
     ELSE lost' = Head(service).no /\ UNCHANGED <<ran, robot>>
  /\ UNCHANGED nodeVars

Served == \E executed \in BOOLEAN : Serve(executed)

SportNext == Construct \/ OnTwist \/ MoveReturns \/ Interrupt \/ StopMove \/ Served

SportFairness ==
  /\ WF_sportVars(Construct) /\ WF_sportVars(OnTwist)
  /\ WF_sportVars(MoveReturns) /\ WF_sportVars(StopMove) /\ WF_sportVars(Served)
=============================================================================
