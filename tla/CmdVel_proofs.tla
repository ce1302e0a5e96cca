----------------------------- MODULE CmdVel_proofs -----------------------------
(***************************************************************************)
(* /cmd_vel for any queue depth, number of messages and velocities: the    *)
(* newest message is kept, the robot executes messages in order, and a     *)
(* sport node that is gone leaves a robot that stands still.               *)
(***************************************************************************)
EXTENDS CmdVel, SequenceTheorems, TLAPS

USE CmdVelAssumption DEF CmdVelAssumption

-----------------------------------------------------------------------------
\* Queues

\* what taking the first element leaves
LEMMA TailFacts ==
  ASSUME NEW S, NEW s \in Seq(S), s # <<>>
  PROVE  /\ Head(s) = s[1] /\ Head(s) \in S
         /\ Len(s) \in Nat \ {0} /\ 1 \in 1..Len(s) /\ Len(s) \in 1..Len(s)
         /\ Tail(s) \in Seq(S) /\ Len(Tail(s)) = Len(s) - 1
         /\ \A i \in 1..Len(Tail(s)) : i + 1 \in 1..Len(s) /\ Tail(s)[i] = s[i + 1]
         /\ Tail(s) = <<>> => Len(s) = 1
         /\ Tail(s) # <<>> => Tail(s)[Len(Tail(s))] = s[Len(s)]
  <1>1. Head(s) \in S /\ Tail(s) \in Seq(S) /\ Len(Tail(s)) = Len(s) - 1
        /\ \A i \in 1..Len(Tail(s)) : Tail(s)[i] = s[i + 1]
    BY HeadTailProperties
  <1>2. Len(s) \in Nat \ {0}
    BY EmptySeq
  <1>3. Head(s) = s[1]
    OBVIOUS
  <1>4. \A i \in 1..Len(Tail(s)) : i + 1 \in 1..Len(s)
    BY <1>1, <1>2
  <1>5. Tail(s) = <<>> => Len(Tail(s)) = 0
    BY EmptySeq
  <1>6. Tail(s) # <<>> => Len(Tail(s)) \in 1..Len(Tail(s))
    <2>1. Tail(s) # <<>> => Len(Tail(s)) \in Nat \ {0}
      BY <1>1, EmptySeq
    <2>. QED  BY <2>1
  <1>7. Tail(s) # <<>> => Tail(s)[Len(Tail(s))] = s[Len(s)]
    BY <1>1, <1>2, <1>6
  <1>8. Tail(s) = <<>> => Len(s) = 1
    BY <1>1, <1>2, <1>5
  <1>. QED  BY <1>1, <1>2, <1>3, <1>4, <1>7, <1>8

\* what appending leaves
LEMMA AppendFacts ==
  ASSUME NEW S, NEW s \in Seq(S), NEW e \in S
  PROVE  /\ Append(s, e) \in Seq(S) /\ Len(Append(s, e)) = Len(s) + 1
         /\ Append(s, e) # <<>> /\ Len(s) \in Nat
         /\ \A i \in 1..Len(s) : Append(s, e)[i] = s[i]
         /\ Append(s, e)[Len(s) + 1] = e
  OBVIOUS

\* the messages of a queue are in the order of their publication
Sorted(s) == \A i, j \in 1..Len(s) : i < j => s[i].no < s[j].no

\* a message that is delivered is the last one, and nothing else is added
LEMMA DeliverFacts ==
  ASSUME NEW S, NEW s \in Seq(S), NEW e \in S, Len(s) <= Depth
  PROVE  /\ Deliver(s, e) \in Seq(S) /\ Len(Deliver(s, e)) <= Depth
         /\ Deliver(s, e) # <<>> /\ Deliver(s, e)[Len(Deliver(s, e))] = e
  <1>1. CASE Len(s) < Depth
    BY <1>1, AppendFacts DEF Deliver
  <1>2. CASE ~(Len(s) < Depth)
    <2>1. s # <<>>
      BY <1>2, EmptySeq
    <2>2. Tail(s) \in Seq(S) /\ Len(Tail(s)) = Len(s) - 1 /\ Len(s) \in Nat
      BY <2>1, TailFacts
    <2>. QED  BY <1>2, <2>2, AppendFacts DEF Deliver
  <1>. QED  BY <1>1, <1>2

-----------------------------------------------------------------------------
\* Types

LEMMA ClampType ==
  ASSUME NEW v \in Int
  PROVE  Aliengo!Clamp(v) \in -1..1 /\ Sport!Clamp(v) \in -1..1
  BY DEF Aliengo!Clamp, Sport!Clamp

LEMMA TwistType ==
  ASSUME NEW v \in Twists \cup {-1, 0, 1}
  PROVE  v \in Int
  <1>1. CASE v \in Twists
    BY <1>1, CmdVelAssumption DEF CmdVelAssumption
  <1>2. CASE v \in {-1, 0, 1}
    BY <1>2
  <1>. QED  BY <1>1, <1>2

LEMMA MessageParts ==
  ASSUME NEW m \in Message
  PROVE  m.no \in 0..Messages /\ m.v \in Int
  <1>1. m.no \in 0..Messages /\ m.v \in Twists \cup {-1, 0, 1}
    BY DEF Message
  <1>. QED  BY <1>1, TwistType

LEMMA InitType == Init => TypeOK
  <1>. SUFFICES ASSUME Init PROVE TypeOK
    OBVIOUS
  <1>1. <<>> \in Seq(Message) /\ Len(<<>>) = 0 /\ <<>> \in Seq(Request)
    BY EmptySeq
  <1>. QED
    BY <1>1 DEF Init, Aliengo!AliengoInit, Sport!SportInit, Aliengo!Released,
       Aliengo!Keys, Sport!NoRequest, Message, Request, TypeOK

LEMMA PublishType ==
  ASSUME TypeOK, NEW v \in Twists, Publish(v)
  PROVE  TypeOK'
  <1>1. latest' \in Message
    BY DEF Publish, TypeOK, Message
  <1>2. Deliver(aInbox, latest') \in Seq(Message) /\ Len(Deliver(aInbox, latest')) <= Depth
    BY <1>1, DeliverFacts DEF TypeOK
  <1>3. Deliver(sInbox, latest') \in Seq(Message) /\ Len(Deliver(sInbox, latest')) <= Depth
    BY <1>1, DeliverFacts DEF TypeOK
  <1>4. aInbox' \in Seq(Message) /\ Len(aInbox') <= Depth
    BY <1>2 DEF Publish
  <1>5. sInbox' \in Seq(Message) /\ Len(sInbox') <= Depth
    BY <1>3 DEF Publish, TypeOK
  <1>. QED  BY <1>1, <1>4, <1>5 DEF Publish, TypeOK

LEMMA AliengoType ==
  ASSUME TypeOK, Aliengo!AliengoNext, UNCHANGED <<latest, sportVars>>
  PROVE  TypeOK'
  <1>. USE DEF sportVars, Aliengo!nodeVars, Aliengo!padVars
  <1>1. CASE Aliengo!OnTwist
    <2>1. aInbox # <<>> /\ aInbox \in Seq(Message)
      BY <1>1 DEF Aliengo!OnTwist, TypeOK
    <2>2. Head(aInbox) \in Message /\ Tail(aInbox) \in Seq(Message)
          /\ Len(Tail(aInbox)) = Len(aInbox) - 1 /\ Len(aInbox) \in Nat
      BY <2>1, TailFacts
    <2>3. Head(aInbox).no \in 0..Messages /\ Head(aInbox).v \in Int
      BY <2>2, MessageParts
    <2>4. cmd' \in [no : 0..Messages, v : -1..1]
      BY <1>1, <2>3, ClampType DEF Aliengo!OnTwist
    <2>. QED  BY <1>1, <2>2, <2>4 DEF Aliengo!OnTwist, TypeOK
  <1>2. CASE Aliengo!Tick
    <2>1. PICK l2 \in BOOLEAN, stick \in Sticks : Aliengo!ControlLoop(l2, stick)
      BY <1>2 DEF Aliengo!Tick
    <2>2. cmd.v \in Int /\ Aliengo!Joy(l2, stick) \in Int
      BY DEF TypeOK, Aliengo!Joy
    <2>3. applied' \in Int
      BY <2>1, <2>2 DEF Aliengo!ControlLoop
    <2>. QED  BY <2>1, <2>3 DEF Aliengo!ControlLoop, TypeOK
  <1>3. CASE Aliengo!TimePasses
    BY <1>3 DEF Aliengo!TimePasses, TypeOK
  <1>4. CASE Aliengo!Pad
    BY <1>4 DEF Aliengo!Pad, Aliengo!RecvBegins, Aliengo!RecvEnds, TypeOK
  <1>. QED  BY <1>1, <1>2, <1>3, <1>4 DEF Aliengo!AliengoNext

LEMMA SportType ==
  ASSUME TypeOK, Sport!SportNext, UNCHANGED <<latest, aliengoVars>>
  PROVE  TypeOK'
  <1>. USE DEF aliengoVars, Sport!nodeVars, Sport!serviceVars
  <1>1. CASE Sport!Construct
    BY <1>1 DEF Sport!Construct, TypeOK
  <1>2. CASE Sport!OnTwist
    <2>1. sInbox # <<>> /\ sInbox \in Seq(Message)
      BY <1>2 DEF Sport!OnTwist, TypeOK
    <2>2. Head(sInbox) \in Message /\ Tail(sInbox) \in Seq(Message)
          /\ Len(Tail(sInbox)) = Len(sInbox) - 1 /\ Len(sInbox) \in Nat
      BY <2>1, TailFacts
    <2>3. call' \in 0..Messages /\ Sport!Clamp(Head(sInbox).v) \in -1..1
      <3>1. Head(sInbox).no \in 0..Messages /\ Head(sInbox).v \in Int
        BY <2>2, MessageParts
      <3>. QED  BY <1>2, <3>1, ClampType DEF Sport!OnTwist
    <2>4. [no |-> call', v |-> Sport!Clamp(Head(sInbox).v)] \in Request
      BY <2>3 DEF Request
    <2>5. service' \in Seq(Request)
      BY <1>2, <2>4, AppendFacts DEF Sport!OnTwist, TypeOK
    <2>. QED  BY <1>2, <2>2, <2>3, <2>5 DEF Sport!OnTwist, TypeOK
  <1>3. CASE Sport!MoveReturns
    BY <1>3 DEF Sport!MoveReturns, TypeOK
  <1>4. CASE Sport!Interrupt
    BY <1>4 DEF Sport!Interrupt, TypeOK
  <1>5. CASE Sport!StopMove
    <2>1. [no |-> handled + 1, v |-> 0] \in Request
      BY DEF TypeOK, Request
    <2>2. service' \in Seq(Request)
      BY <1>5, <2>1, AppendFacts DEF Sport!StopMove, TypeOK
    <2>. QED  BY <1>5, <2>2 DEF Sport!StopMove, TypeOK
  <1>6. CASE Sport!Served
    <2>1. PICK executed \in BOOLEAN : Sport!Serve(executed)
      BY <1>6 DEF Sport!Served
    <2>2. service # <<>> /\ service \in Seq(Request)
      BY <2>1 DEF Sport!Serve, TypeOK
    <2>3. Head(service) \in Request /\ Tail(service) \in Seq(Request)
      BY <2>2, TailFacts
    <2>4. Head(service).no \in 0..(Messages + 1) /\ Head(service).v \in -1..1
      BY <2>3 DEF Request
    <2>. QED  BY <2>1, <2>3, <2>4 DEF Sport!Serve, TypeOK
  <1>. QED  BY <1>1, <1>2, <1>3, <1>4, <1>5, <1>6 DEF Sport!SportNext

LEMMA StutterType == TypeOK /\ UNCHANGED vars => TypeOK'
  BY DEF vars, aliengoVars, sportVars, TypeOK

\* Every variable keeps its type: no velocity that is applied to the Aliengo from
\* /cmd_vel or sent to the sport service exceeds its limit.
THEOREM TypeCorrect == Spec => []TypeOK
  <1>1. TypeOK /\ [Next]_vars => TypeOK'
    BY PublishType, AliengoType, SportType, StutterType DEF Next
  <1>. QED  BY <1>1, InitType, PTL DEF Spec

-----------------------------------------------------------------------------
\* The newest message

\* before its subscription the sport node has no messages
Subscribed == phase = "construct" => sInbox = <<>>

LEMMA NextKept ==
  TypeOK /\ NewestKept /\ Subscribed /\ [Next]_vars => (NewestKept /\ Subscribed)'
  <1>. SUFFICES ASSUME TypeOK, NewestKept, Subscribed, [Next]_vars
                PROVE  (NewestKept /\ Subscribed)'
    OBVIOUS
  <1>. USE DEF NewestKept, Subscribed
  <1>1. ASSUME NEW v \in Twists, Publish(v) PROVE (NewestKept /\ Subscribed)'
    <2>1. latest' \in Message
      BY <1>1 DEF Publish, TypeOK, Message
    <2>2. aInbox' # <<>> /\ aInbox'[Len(aInbox')] = latest'
      <3>1. aInbox \in Seq(Message) /\ Len(aInbox) <= Depth /\ aInbox' = Deliver(aInbox, latest')
        BY <1>1 DEF Publish, TypeOK
      <3>2. Deliver(aInbox, latest') # <<>>
            /\ Deliver(aInbox, latest')[Len(Deliver(aInbox, latest'))] = latest'
        BY <2>1, <3>1, DeliverFacts
      <3>. QED  BY <3>1, <3>2
    <2>3. phase # "construct" => sInbox' # <<>> /\ sInbox'[Len(sInbox')] = latest'
      <3>1. sInbox \in Seq(Message) /\ Len(sInbox) <= Depth
            /\ (phase # "construct" => sInbox' = Deliver(sInbox, latest'))
        BY <1>1 DEF Publish, TypeOK
      <3>2. Deliver(sInbox, latest') # <<>>
            /\ Deliver(sInbox, latest')[Len(Deliver(sInbox, latest'))] = latest'
        BY <2>1, <3>1, DeliverFacts
      <3>. QED  BY <3>1, <3>2
    <2>. QED  BY <1>1, <2>2, <2>3 DEF Publish
  <1>2. CASE Aliengo!AliengoNext /\ UNCHANGED <<latest, sportVars>>
    <2>. USE <1>2 DEF sportVars, Aliengo!nodeVars, Aliengo!padVars
    <2>1. CASE Aliengo!OnTwist
      <3>1. aInbox # <<>> /\ aInbox \in Seq(Message)
        BY <2>1 DEF Aliengo!OnTwist, TypeOK
      <3>2. /\ Tail(aInbox) = <<>> => Head(aInbox) = latest
            /\ Tail(aInbox) # <<>> => Tail(aInbox)[Len(Tail(aInbox))] = latest
        BY <3>1, TailFacts
      <3>. QED  BY <2>1, <3>1, <3>2 DEF Aliengo!OnTwist
    <2>2. CASE Aliengo!Tick \/ Aliengo!TimePasses \/ Aliengo!Pad
      BY <2>2 DEF Aliengo!Tick, Aliengo!ControlLoop, Aliengo!TimePasses, Aliengo!Pad,
         Aliengo!RecvBegins, Aliengo!RecvEnds
    <2>. QED  BY <2>1, <2>2 DEF Aliengo!AliengoNext
  <1>3. CASE Sport!SportNext /\ UNCHANGED <<latest, aliengoVars>>
    <2>. USE <1>3 DEF aliengoVars, Sport!nodeVars, Sport!serviceVars
    <2>1. CASE Sport!OnTwist
      <3>1. sInbox # <<>> /\ sInbox \in Seq(Message) /\ phase = "spin"
        BY <2>1 DEF Sport!OnTwist, TypeOK
      <3>2. Tail(sInbox) # <<>> => Tail(sInbox)[Len(Tail(sInbox))] = latest
        BY <3>1, TailFacts
      <3>. QED  BY <2>1, <3>1, <3>2 DEF Sport!OnTwist
    <2>2. CASE Sport!Construct
      BY <2>2 DEF Sport!Construct
    <2>3. CASE Sport!MoveReturns \/ Sport!Interrupt \/ Sport!StopMove
      BY <2>3 DEF Sport!MoveReturns, Sport!Interrupt, Sport!StopMove
    <2>4. CASE Sport!Served
      BY <2>4 DEF Sport!Served, Sport!Serve
    <2>. QED  BY <2>1, <2>2, <2>3, <2>4 DEF Sport!SportNext
  <1>4. CASE UNCHANGED vars
    BY <1>4 DEF vars, aliengoVars, sportVars
  <1>. QED  BY <1>1, <1>2, <1>3, <1>4 DEF Next

\* However many messages are evicted while a call blocks, the newest is in the
\* queue or was taken, for any depth of the queue.
THEOREM NewestIsKept == Spec => []NewestKept
  <1>1. Init => NewestKept /\ Subscribed
    BY DEF Init, Aliengo!AliengoInit, Sport!SportInit, NewestKept, Subscribed
  <1>. QED  BY <1>1, NextKept, TypeCorrect, PTL DEF Spec

-----------------------------------------------------------------------------
\* The order of execution

LEMMA SortedTail ==
  ASSUME NEW S, NEW s \in Seq(S), s # <<>>, Sorted(s)
  PROVE  /\ Sorted(Tail(s))
         /\ \A i \in 1..Len(Tail(s)) : s[1].no < Tail(s)[i].no
  <1>1. Len(Tail(s)) \in Nat /\ Len(s) \in Nat
    BY TailFacts
  <1>2. ASSUME NEW i \in 1..Len(Tail(s)), NEW j \in 1..Len(Tail(s)), i < j
        PROVE  Tail(s)[i].no < Tail(s)[j].no
    <2>1. Tail(s)[i] = s[i + 1] /\ i + 1 \in 1..Len(s)
      BY TailFacts
    <2>2. Tail(s)[j] = s[j + 1] /\ j + 1 \in 1..Len(s)
      BY TailFacts
    <2>3. i + 1 < j + 1
      BY <1>1, <1>2
    <2>. QED  BY <2>1, <2>2, <2>3 DEF Sorted
  <1>3. ASSUME NEW i \in 1..Len(Tail(s)) PROVE s[1].no < Tail(s)[i].no
    <2>1. Tail(s)[i] = s[i + 1] /\ i + 1 \in 1..Len(s) /\ 1 \in 1..Len(s)
      BY TailFacts
    <2>2. 1 < i + 1
      BY <1>1
    <2>. QED  BY <2>1, <2>2 DEF Sorted
  <1>. QED  BY <1>2, <1>3 DEF Sorted

LEMMA SortedAppend ==
  ASSUME NEW S, NEW s \in Seq(S), NEW e \in S, Sorted(s),
         \A i \in 1..Len(s) : s[i].no < e.no
  PROVE  /\ Sorted(Append(s, e))
         /\ \A i \in 1..Len(Append(s, e)) :
              Append(s, e)[i] = e \/ (i \in 1..Len(s) /\ Append(s, e)[i] = s[i])
  <1>. DEFINE a == Append(s, e)
  <1>1. Len(a) = Len(s) + 1 /\ Len(s) \in Nat /\ a[Len(s) + 1] = e
        /\ \A i \in 1..Len(s) : a[i] = s[i]
    BY AppendFacts
  <1>. HIDE DEF a
  <1>2. \A i \in 1..Len(a) : i = Len(s) + 1 \/ i \in 1..Len(s)
    BY <1>1
  <1>3. ASSUME NEW i \in 1..Len(a), NEW j \in 1..Len(a), i < j PROVE a[i].no < a[j].no
    <2>1. i \in 1..Len(s)
      BY <1>1, <1>3
    <2>2. CASE j \in 1..Len(s)
      BY <1>1, <1>3, <2>1, <2>2 DEF Sorted
    <2>3. CASE j = Len(s) + 1
      BY <1>1, <2>1, <2>3
    <2>. QED  BY <1>2, <2>2, <2>3
  <1>4. Sorted(a) /\ \A i \in 1..Len(a) : a[i] = e \/ (i \in 1..Len(s) /\ a[i] = s[i])
    BY <1>1, <1>2, <1>3 DEF Sorted
  <1>. QED  BY <1>4 DEF a

\* a subscription stays sorted when a newer message is delivered
LEMMA SortedDeliver ==
  ASSUME NEW s \in Seq(Message), Len(s) <= Depth, Sorted(s), NEW e \in Message,
         NEW lo \in Int, NEW hi \in Int, lo <= hi, e.no = hi + 1,
         \A i \in 1..Len(s) : lo < s[i].no /\ s[i].no <= hi
  PROVE  /\ Sorted(Deliver(s, e))
         /\ \A i \in 1..Len(Deliver(s, e)) :
              lo < Deliver(s, e)[i].no /\ Deliver(s, e)[i].no <= e.no
  <1>. DEFINE t == IF Len(s) < Depth THEN s ELSE Tail(s)
  <1>1. t \in Seq(Message) /\ Sorted(t)
        /\ \A i \in 1..Len(t) : lo < t[i].no /\ t[i].no <= hi
    <2>1. CASE Len(s) < Depth
      BY <2>1
    <2>2. CASE ~(Len(s) < Depth)
      <3>1. s # <<>>
        BY <2>2, EmptySeq
      <3>2. Tail(s) \in Seq(Message)
            /\ \A i \in 1..Len(Tail(s)) : i + 1 \in 1..Len(s) /\ Tail(s)[i] = s[i + 1]
        BY <3>1, TailFacts
      <3>3. Sorted(Tail(s))
        BY <3>1, SortedTail
      <3>. QED  BY <2>2, <3>2, <3>3
    <2>. QED  BY <2>1, <2>2
  <1>2. Deliver(s, e) = Append(t, e)
    BY DEF Deliver
  <1>. HIDE DEF t
  <1>3. \A i \in 1..Len(t) : t[i].no < e.no
    <2>. TAKE i \in 1..Len(t)
    <2>1. t[i] \in Message /\ t[i].no <= hi
      BY <1>1, ElementOfSeq
    <2>2. t[i].no \in Int
      BY <2>1, MessageParts
    <2>. QED  BY <2>1, <2>2
  <1>4. /\ Sorted(Append(t, e))
        /\ \A i \in 1..Len(Append(t, e)) :
             Append(t, e)[i] = e \/ (i \in 1..Len(t) /\ Append(t, e)[i] = t[i])
    BY <1>1, <1>3, SortedAppend
  <1>5. ASSUME NEW i \in 1..Len(Append(t, e))
        PROVE  lo < Append(t, e)[i].no /\ Append(t, e)[i].no <= e.no
    <2>1. CASE Append(t, e)[i] = e
      BY <2>1
    <2>2. CASE i \in 1..Len(t) /\ Append(t, e)[i] = t[i]
      <3>1. t[i].no < e.no /\ t[i].no \in Int
        BY <1>1, <1>3, <2>2, ElementOfSeq, MessageParts
      <3>. QED  BY <1>1, <2>2, <3>1
    <2>. QED  BY <1>4, <2>1, <2>2
  <1>. QED  BY <1>2, <1>4, <1>5

\* number of the last message the sport node has taken from its queue
Taken == IF call = 0 THEN handled ELSE call

\* outside its spin the node calls nothing
Calls == (phase # "spin" => call = 0) /\ handled <= Taken /\ Taken <= latest.no

\* requests are in order, after the one that ran
Requests == Sorted(service) /\ \A i \in 1..Len(service) : ran.no < service[i].no

\* of a node that is not gone: what it sent, took and is to take
Ahead ==
  phase # "gone" =>
    /\ ran.no <= Taken
    /\ \A i \in 1..Len(service) : service[i].no <= Taken
    /\ Sorted(sInbox)
    /\ \A i \in 1..Len(sInbox) : Taken < sInbox[i].no /\ sInbox[i].no <= latest.no

\* the request of the destructor is the last one
Stopped ==
  phase = "gone" =>
    /\ service = <<>> => robot = 0 \/ lost = handled + 1
    /\ service # <<>> => service[Len(service)] = [no |-> handled + 1, v |-> 0]

Order == TypeOK /\ Subscribed /\ Calls /\ Requests /\ Ahead /\ Stopped

LEMMA InitOrder == Init => Order
  <1>. SUFFICES ASSUME Init PROVE Order
    OBVIOUS
  <1>1. TypeOK
    BY InitType
  <1>2. Len(service) = 0 /\ Len(sInbox) = 0
    BY EmptySeq DEF Init, Sport!SportInit
  <1>. QED
    BY <1>1, <1>2 DEF Init, Sport!SportInit, Sport!NoRequest, Order, Subscribed,
       Calls, Taken, Requests, Ahead, Stopped, Sorted

LEMMA PublishOrder ==
  ASSUME Order, NEW v \in Twists, Publish(v)
  PROVE  Order'
  <1>. USE DEF Order
  <1>1. TypeOK'
    BY PublishType
  <1>2. latest' \in Message /\ latest'.no = latest.no + 1
    BY DEF Publish, TypeOK, Message
  <1>3. latest.no \in Int /\ Taken \in Int /\ Taken' = Taken
    BY DEF TypeOK, Message, Publish, Taken
  <1>4. Calls'
    BY <1>2, <1>3 DEF Calls, Publish, TypeOK
  <1>5. Ahead'
    <2>1. CASE phase = "construct"
      <3>1. Len(sInbox) = 0 /\ sInbox' = sInbox
        BY <2>1, EmptySeq DEF Publish, Subscribed
      <3>. QED  BY <1>3, <2>1, <3>1 DEF Ahead, Publish, Sorted
    <2>2. CASE phase \notin {"construct", "gone"}
      <3>1. sInbox \in Seq(Message) /\ Len(sInbox) <= Depth /\ Sorted(sInbox)
            /\ Taken <= latest.no /\ sInbox' = Deliver(sInbox, latest')
            /\ \A i \in 1..Len(sInbox) : Taken < sInbox[i].no /\ sInbox[i].no <= latest.no
        BY <2>2 DEF Ahead, Publish, Calls, TypeOK
      <3>2. Sorted(Deliver(sInbox, latest'))
            /\ \A i \in 1..Len(Deliver(sInbox, latest')) :
                 Taken < Deliver(sInbox, latest')[i].no
                 /\ Deliver(sInbox, latest')[i].no <= latest'.no
        BY <1>2, <1>3, <3>1, SortedDeliver
      <3>3. Sorted(sInbox')
            /\ \A i \in 1..Len(sInbox') : Taken' < sInbox'[i].no /\ sInbox'[i].no <= latest'.no
        BY <1>3, <3>1, <3>2 DEF Sorted
      <3>. QED  BY <1>3, <2>2, <3>3 DEF Ahead, Publish
    <2>3. CASE phase = "gone"
      BY <2>3 DEF Ahead, Publish
    <2>. QED  BY <2>1, <2>2, <2>3
  <1>. QED  BY <1>1, <1>4, <1>5 DEF Publish, Subscribed, Requests, Stopped, Sorted

LEMMA AliengoOrder ==
  ASSUME Order, Aliengo!AliengoNext, UNCHANGED <<latest, sportVars>>
  PROVE  Order'
  <1>1. TypeOK'
    BY AliengoType DEF Order
  <1>2. UNCHANGED <<latest, sInbox, phase, call, handled, service, ran, lost, robot>>
    BY DEF sportVars
  <1>. QED
    BY <1>1, <1>2 DEF Order, Subscribed, Calls, Taken, Requests, Ahead, Stopped, Sorted

LEMMA OnTwistOrder ==
  ASSUME Order, TypeOK', Sport!OnTwist, UNCHANGED latest
  PROVE  Order'
  <1>. USE DEF Order
  <1>. DEFINE m == Head(sInbox)
             r == [no |-> call', v |-> Sport!Clamp(m.v)]
  <1>1. sInbox # <<>> /\ sInbox \in Seq(Message) /\ phase = "spin" /\ call = 0
    BY DEF Sport!OnTwist, TypeOK
  <1>2. m = sInbox[1] /\ m \in Message /\ 1 \in 1..Len(sInbox)
    BY <1>1, TailFacts
  <1>3. m.no \in 0..Messages /\ m.v \in Int
    BY <1>2, MessageParts
  <1>4. call' = m.no /\ sInbox' = Tail(sInbox) /\ service' = Append(service, r)
        /\ UNCHANGED <<phase, handled, ran, lost, robot>>
    BY DEF Sport!OnTwist
  <1>5. Taken = handled /\ handled \in Int /\ latest.no \in Int /\ ran.no \in Int
    BY <1>1 DEF Taken, TypeOK, Message, Request
  <1>6. handled < m.no /\ m.no <= latest.no /\ ran.no <= handled
    BY <1>1, <1>2, <1>5 DEF Ahead
  <1>7. Taken' = m.no
    BY <1>3, <1>4, <1>5, <1>6 DEF Taken, TypeOK
  <1>8. r \in Request
    BY <1>3, <1>4, ClampType DEF Request
  <1>. HIDE DEF m, r
  <1>9. service \in Seq(Request) /\ Sorted(service)
        /\ \A i \in 1..Len(service) : service[i].no <= handled /\ ran.no < service[i].no
    BY <1>1, <1>5 DEF TypeOK, Requests, Ahead
  <1>10. \A i \in 1..Len(service) : service[i].no \in Int
    <2>1. \A i \in 1..Len(service) : service[i] \in Request
      BY <1>9, ElementOfSeq
    <2>. QED  BY <2>1 DEF Request
  <1>11. r.no = m.no
    BY <1>4 DEF r
  <1>12. /\ Sorted(Append(service, r))
         /\ \A i \in 1..Len(Append(service, r)) :
              Append(service, r)[i] = r
              \/ (i \in 1..Len(service) /\ Append(service, r)[i] = service[i])
    <2>1. \A i \in 1..Len(service) : service[i].no < r.no
      BY <1>3, <1>5, <1>6, <1>9, <1>10, <1>11
    <2>. QED  BY <1>8, <1>9, <2>1, SortedAppend
  <1>13. Sorted(service')
         /\ \A i \in 1..Len(service') : service'[i].no <= m.no /\ ran.no < service'[i].no
    BY <1>3, <1>4, <1>5, <1>6, <1>9, <1>10, <1>11, <1>12 DEF Sorted
  <1>14. Sorted(sInbox')
         /\ \A i \in 1..Len(sInbox') : m.no < sInbox'[i].no /\ sInbox'[i].no <= latest.no
    <2>1. Sorted(Tail(sInbox)) /\ \A i \in 1..Len(Tail(sInbox)) : m.no < Tail(sInbox)[i].no
      BY <1>1, <1>2, SortedTail DEF Ahead
    <2>2. \A i \in 1..Len(Tail(sInbox)) :
            i + 1 \in 1..Len(sInbox) /\ Tail(sInbox)[i] = sInbox[i + 1]
      BY <1>1, TailFacts
    <2>3. \A i \in 1..Len(sInbox) : sInbox[i].no <= latest.no
      BY <1>1 DEF Ahead
    <2>. QED  BY <1>4, <2>1, <2>2, <2>3 DEF Sorted
  <1>15. Calls'
    BY <1>1, <1>3, <1>4, <1>5, <1>6, <1>7 DEF Calls
  <1>16. Requests'
    BY <1>4, <1>13 DEF Requests, Sorted
  <1>17. Ahead'
    BY <1>3, <1>4, <1>5, <1>6, <1>7, <1>13, <1>14 DEF Ahead, Sorted
  <1>18. Stopped' /\ Subscribed'
    BY <1>1, <1>4 DEF Stopped, Subscribed
  <1>. QED  BY <1>15, <1>16, <1>17, <1>18

LEMMA StopMoveOrder ==
  ASSUME Order, TypeOK', Sport!StopMove, UNCHANGED latest
  PROVE  Order'
  <1>. USE DEF Order
  <1>. DEFINE r == [no |-> handled + 1, v |-> 0]
  <1>1. phase = "stop" /\ call = 0 /\ phase' = "gone" /\ service' = Append(service, r)
        /\ UNCHANGED <<sInbox, call, handled, ran, lost, robot>>
    BY DEF Sport!StopMove, Calls
  <1>2. handled \in 0..Messages /\ Taken = handled /\ Taken' = handled
        /\ ran.no \in Int /\ ran.no <= handled /\ latest.no \in Int
    BY <1>1 DEF Taken, TypeOK, Ahead, Request, Message
  <1>3. r \in Request /\ r.no = handled + 1
    BY <1>2 DEF Request
  <1>. HIDE DEF r
  <1>4. service \in Seq(Request) /\ Sorted(service)
        /\ \A i \in 1..Len(service) : service[i].no <= handled /\ ran.no < service[i].no
    BY <1>1, <1>2 DEF TypeOK, Requests, Ahead
  <1>5. \A i \in 1..Len(service) : service[i].no < r.no
    <2>1. \A i \in 1..Len(service) : service[i].no \in Int
      <3>1. \A i \in 1..Len(service) : service[i] \in Request
        BY <1>4, ElementOfSeq
      <3>. QED  BY <3>1 DEF Request
    <2>. QED  BY <1>2, <1>3, <1>4, <2>1
  <1>6. /\ Sorted(Append(service, r))
        /\ \A i \in 1..Len(Append(service, r)) :
             Append(service, r)[i] = r
             \/ (i \in 1..Len(service) /\ Append(service, r)[i] = service[i])
    BY <1>3, <1>4, <1>5, SortedAppend
  <1>7. ran.no < r.no
    BY <1>2, <1>3
  <1>8. \A i \in 1..Len(Append(service, r)) : ran.no < Append(service, r)[i].no
    BY <1>4, <1>6, <1>7
  <1>9. Requests'
    BY <1>1, <1>6, <1>8 DEF Requests, Sorted
  <1>10. service' # <<>> /\ service'[Len(service')] = r
    BY <1>1, <1>3, <1>4, AppendFacts
  <1>11. Stopped'
    BY <1>1, <1>10 DEF Stopped, r
  <1>. QED  BY <1>1, <1>2, <1>9, <1>11 DEF Calls, Ahead, Subscribed

LEMMA ServedOrder ==
  ASSUME Order, TypeOK', Sport!Served, UNCHANGED latest
  PROVE  Order'
  <1>. USE DEF Order
  <1>1. PICK executed \in BOOLEAN : Sport!Serve(executed)
    BY DEF Sport!Served
  <1>2. service # <<>> /\ service \in Seq(Request) /\ service' = Tail(service)
        /\ UNCHANGED <<sInbox, phase, call, handled>>
    BY <1>1 DEF Sport!Serve, Sport!nodeVars, TypeOK
  <1>3. Head(service) = service[1] /\ 1 \in 1..Len(service) /\ service[1] \in Request
    BY <1>2, TailFacts
  <1>4. \/ ran' = service[1] /\ robot' = service[1].v /\ UNCHANGED lost
        \/ lost' = service[1].no /\ UNCHANGED <<ran, robot>>
    BY <1>1, <1>3 DEF Sport!Serve
  <1>5. Sorted(Tail(service)) /\ \A i \in 1..Len(Tail(service)) : service[1].no < Tail(service)[i].no
    BY <1>2, SortedTail DEF Requests
  <1>6. \A i \in 1..Len(Tail(service)) :
          i + 1 \in 1..Len(service) /\ Tail(service)[i] = service[i + 1]
    BY <1>2, TailFacts
  <1>7. Taken' = Taken
    BY <1>2 DEF Taken
  <1>8. Requests'
    BY <1>2, <1>4, <1>5, <1>6 DEF Requests, Sorted
  <1>9. Ahead'
    BY <1>2, <1>3, <1>4, <1>6, <1>7 DEF Ahead, Sorted
  <1>10. Stopped'
    <2>. SUFFICES ASSUME phase = "gone"
                  PROVE  /\ service' = <<>> => robot' = 0 \/ lost' = handled + 1
                         /\ service' # <<>> => service'[Len(service')] = [no |-> handled + 1, v |-> 0]
      BY <1>2 DEF Stopped
    <2>1. service[Len(service)] = [no |-> handled + 1, v |-> 0]
      BY <1>2 DEF Stopped
    <2>2. /\ Tail(service) = <<>> => Len(service) = 1
          /\ Tail(service) # <<>> => Tail(service)[Len(Tail(service))] = service[Len(service)]
      BY <1>2, TailFacts
    <2>. QED  BY <1>2, <1>4, <2>1, <2>2
  <1>. QED  BY <1>2, <1>7, <1>8, <1>9, <1>10 DEF Calls, Subscribed

LEMMA SportOrder ==
  ASSUME Order, Sport!SportNext, UNCHANGED <<latest, aliengoVars>>
  PROVE  Order'
  <1>1. TypeOK' /\ UNCHANGED latest
    BY SportType DEF Order
  <1>2. CASE Sport!Construct
    <2>1. Len(sInbox) = 0 /\ UNCHANGED <<sInbox, call, handled, service, ran, lost, robot>>
          /\ phase = "construct" /\ phase' = "spin"
      BY <1>2, EmptySeq DEF Sport!Construct, Sport!serviceVars, Order, Subscribed
    <2>. QED
      BY <1>1, <2>1 DEF Order, Subscribed, Calls, Taken, Requests, Ahead, Stopped, Sorted
  <1>3. CASE Sport!MoveReturns
    <2>1. UNCHANGED <<sInbox, phase, service, ran, lost, robot>> /\ phase = "spin"
          /\ Taken' = Taken /\ handled' = Taken /\ Taken \in Int
      BY <1>3 DEF Sport!MoveReturns, Sport!serviceVars, Order, Calls, Taken, TypeOK
    <2>. QED  BY <1>1, <2>1 DEF Order, Subscribed, Calls, Requests, Ahead, Stopped, Sorted
  <1>4. CASE Sport!Interrupt
    <2>1. UNCHANGED <<sInbox, call, handled, service, ran, lost, robot>> /\ call = 0
          /\ phase = "spin" /\ phase' = "stop" /\ Taken' = Taken
      BY <1>4 DEF Sport!Interrupt, Sport!serviceVars, Taken
    <2>. QED  BY <1>1, <2>1 DEF Order, Subscribed, Calls, Requests, Ahead, Stopped, Sorted
  <1>. QED
    BY <1>1, <1>2, <1>3, <1>4, OnTwistOrder, StopMoveOrder, ServedOrder DEF Sport!SportNext

LEMMA OrderHolds == Spec => []Order
  <1>1. Order /\ UNCHANGED vars => Order'
    <2>. SUFFICES ASSUME Order, UNCHANGED vars PROVE Order'
      OBVIOUS
    <2>1. TypeOK'
      BY StutterType DEF Order
    <2>. QED
      BY <2>1 DEF vars, sportVars, Order, Subscribed, Calls, Taken, Requests, Ahead,
         Stopped, Sorted
  <1>2. Order /\ [Next]_vars => Order'
    BY <1>1, PublishOrder, AliengoOrder, SportOrder DEF Next
  <1>. QED  BY <1>2, InitOrder, PTL DEF Spec

\* Once the service has got to every request of a node that is gone, the robot
\* stands still, or it was StopMove that was lost.
THEOREM GoneNodeStops == Spec => []GoneStops
  <1>1. Order => GoneStops
    BY DEF Order, Stopped, GoneStops
  <1>. QED  BY <1>1, OrderHolds, PTL

\* one ascending sequence, then a later one
LEMMA AscendingConcat ==
  ASSUME NEW s \in Seq(Int), NEW t \in Seq(Int), Ascending(s), Ascending(t),
         \A i \in 1..Len(s), j \in 1..Len(t) : s[i] < t[j]
  PROVE  s \o t \in Seq(Int) /\ Ascending(s \o t)
  <1>. DEFINE c == s \o t
  <1>1. c \in Seq(Int) /\ Len(c) = Len(s) + Len(t) /\ Len(s) \in Nat /\ Len(t) \in Nat
        /\ \A i \in 1..Len(c) : c[i] = IF i <= Len(s) THEN s[i] ELSE t[i - Len(s)]
    BY ConcatProperties, LenProperties
  <1>. HIDE DEF c
  <1>2. ASSUME NEW i \in 1..Len(c), NEW j \in 1..Len(c), i < j PROVE c[i] < c[j]
    <2>1. CASE j <= Len(s)
      <3>1. i \in 1..Len(s) /\ j \in 1..Len(s)
        BY <1>1, <1>2, <2>1
      <3>2. c[i] = s[i] /\ c[j] = s[j]
        BY <1>1, <1>2, <2>1
      <3>. QED  BY <1>2, <3>1, <3>2 DEF Ascending
    <2>2. CASE i <= Len(s) /\ ~(j <= Len(s))
      <3>1. i \in 1..Len(s) /\ j - Len(s) \in 1..Len(t)
        BY <1>1, <2>2
      <3>. QED  BY <1>1, <2>2, <3>1
    <2>3. CASE ~(i <= Len(s))
      <3>1. i - Len(s) \in 1..Len(t) /\ j - Len(s) \in 1..Len(t) /\ i - Len(s) < j - Len(s)
        BY <1>1, <1>2, <2>3
      <3>2. c[i] = t[i - Len(s)] /\ c[j] = t[j - Len(s)]
        BY <1>1, <1>2, <2>3
      <3>. QED  BY <3>1, <3>2 DEF Ascending
    <2>. QED  BY <2>1, <2>2, <2>3
  <1>. QED  BY <1>1, <1>2 DEF Ascending, c

LEMMA NumbersFacts ==
  ASSUME NEW S, NEW s \in Seq(S), \A m \in S : m.no \in Int, Sorted(s)
  PROVE  /\ Numbers(s) \in Seq(Int) /\ Len(Numbers(s)) = Len(s)
         /\ \A i \in 1..Len(s) : Numbers(s)[i] = s[i].no /\ s[i].no \in Int
         /\ Ascending(Numbers(s))
  <1>1. Len(s) \in Nat /\ \A i \in 1..Len(s) : s[i].no \in Int
    BY LenProperties, ElementOfSeq
  <1>2. Numbers(s) = [i \in 1..Len(s) |-> s[i].no]
    BY DEF Numbers
  <1>3. Numbers(s) \in Seq(Int) /\ Len(Numbers(s)) = Len(s)
    BY <1>1, <1>2, IsASeq
  <1>. QED  BY <1>1, <1>2, <1>3 DEF Ascending, Sorted

\* Requests that time out, are lost or are executed late never let the robot run
\* an older message after a newer one, nor one of them twice.
THEOREM ExecutesInOrder == Spec => []SportInOrder
  <1>1. ASSUME Order PROVE SportInOrder
    <2>. USE <1>1 DEF Order
    <2>. DEFINE box == IF phase = "gone" THEN <<>> ELSE sInbox
               a == <<ran.no>>
               b == Numbers(service)
               c == Numbers(box)
    <2>1. ran.no \in Int /\ Taken \in Int /\ service \in Seq(Request) /\ Sorted(service)
      BY DEF TypeOK, Request, Taken, Requests
    <2>2. box \in Seq(Message) /\ Sorted(box)
          /\ \A i \in 1..Len(box) : phase # "gone" /\ Taken < box[i].no
      <3>1. CASE phase = "gone"
        BY <3>1, EmptySeq DEF Sorted
      <3>2. CASE phase # "gone"
        BY <3>2 DEF TypeOK, Ahead
      <3>. QED  BY <3>1, <3>2
    <2>3. (\A m \in Request : m.no \in Int) /\ (\A m \in Message : m.no \in Int)
      BY DEF Request, Message
    <2>. HIDE DEF box
    <2>4. /\ b \in Seq(Int) /\ Len(b) = Len(service) /\ Ascending(b)
          /\ \A i \in 1..Len(b) : b[i] = service[i].no /\ ran.no < b[i] /\ b[i] \in Int
      BY <2>1, <2>3, NumbersFacts DEF Requests
    <2>5. /\ c \in Seq(Int) /\ Len(c) = Len(box) /\ Ascending(c)
          /\ \A i \in 1..Len(c) : phase # "gone" /\ Taken < c[i] /\ c[i] \in Int
      BY <2>2, <2>3, NumbersFacts
    <2>6. a \in Seq(Int) /\ Len(a) = 1 /\ a[1] = ran.no /\ Ascending(a)
      BY <2>1 DEF Ascending
    <2>7. \A j \in 1..Len(c) : ran.no < c[j] /\ \A i \in 1..Len(b) : b[i] < c[j]
      <3>. TAKE j \in 1..Len(c)
      <3>1. phase # "gone" /\ Taken < c[j] /\ c[j] \in Int
        BY <2>5
      <3>2. ran.no <= Taken /\ \A i \in 1..Len(service) : service[i].no <= Taken
        BY <3>1 DEF Ahead
      <3>3. ASSUME NEW i \in 1..Len(b) PROVE b[i] < c[j]
        <4>1. b[i] <= Taken /\ b[i] \in Int
          BY <2>4, <3>2
        <4>. QED  BY <2>1, <3>1, <4>1
      <3>. QED  BY <2>1, <3>1, <3>2, <3>3
    <2>. HIDE DEF a, b, c
    <2>8. a \o b \in Seq(Int) /\ Ascending(a \o b)
      <3>1. \A i \in 1..Len(a), j \in 1..Len(b) : a[i] < b[j]
        BY <2>4, <2>6
      <3>. QED  BY <2>4, <2>6, <3>1, AscendingConcat
    <2>9. \A i \in 1..Len(a \o b), j \in 1..Len(c) : (a \o b)[i] < c[j]
      <3>1. Len(a \o b) = 1 + Len(b) /\ Len(b) \in Nat
            /\ \A i \in 1..Len(a \o b) : (a \o b)[i] = IF i <= 1 THEN a[i] ELSE b[i - 1]
        <4>1. \A i \in 1..(Len(a) + Len(b)) :
                (a \o b)[i] = IF i <= Len(a) THEN a[i] ELSE b[i - Len(a)]
          BY <2>4, <2>6, ConcatProperties
        <4>2. Len(a \o b) = Len(a) + Len(b) /\ Len(b) \in Nat
          BY <2>4, <2>6, ConcatProperties, LenProperties
        <4>. QED  BY <2>6, <4>1, <4>2
      <3>. TAKE i \in 1..Len(a \o b), j \in 1..Len(c)
      <3>2. CASE i = 1
        BY <2>6, <2>7, <3>1, <3>2
      <3>3. CASE i # 1
        <4>1. i - 1 \in 1..Len(b) /\ (a \o b)[i] = b[i - 1]
          BY <3>1, <3>3
        <4>. QED  BY <2>7, <4>1
      <3>. QED  BY <3>2, <3>3
    <2>10. Ascending((a \o b) \o c)
      BY <2>5, <2>8, <2>9, AscendingConcat
    <2>11. Numbers(<<>>) = <<>>
      BY EmptySeq DEF Numbers
    <2>12. c = IF phase = "gone" THEN <<>> ELSE Numbers(sInbox)
      BY <2>11 DEF c, box
    <2>. QED  BY <2>10, <2>12 DEF a, b, SportInOrder, Ahead, Taken
  <1>. QED  BY <1>1, OrderHolds, PTL
=============================================================================
