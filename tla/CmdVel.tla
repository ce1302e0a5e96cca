-------------------------------- MODULE CmdVel --------------------------------
(***************************************************************************)
(* /cmd_vel with an Aliengo node and a sport node subscribed to it. Each   *)
(* subscription keeps the last Depth messages that its node has not taken. *)
(* The keyboard simulator, or any other publisher, sends a bounded number  *)
(* of messages and then falls silent.                                      *)
(***************************************************************************)
EXTENDS Integers, Sequences

CONSTANTS
  Depth,     \* rclcpp::QoS(10)
  Messages,  \* bound: messages published
  Twists,    \* velocities a message may carry
  Timeout, Sticks

ASSUME CmdVelAssumption ==
  /\ Depth \in Nat \ {0} /\ Messages \in Nat
  /\ Twists \subseteq Int /\ Timeout \in Nat
  /\ Sticks \subseteq Int /\ 0 \in Sticks

VARIABLES
  latest,  \* history: the last message published
  aInbox, cmd, age, key, incoming, applied,
  sInbox, phase, call, handled, service, ran, lost, robot

Aliengo == INSTANCE AliengoVelocity WITH inbox <- aInbox
Sport == INSTANCE SportNode WITH inbox <- sInbox

aliengoVars == <<aInbox, cmd, age, key, incoming, applied>>
sportVars == <<sInbox, phase, call, handled, service, ran, lost, robot>>
vars == <<latest, aliengoVars, sportVars>>

Init ==
  /\ latest = [no |-> 0, v |-> 0]
  /\ Aliengo!AliengoInit /\ Sport!SportInit

\* a full subscription refuses the new message
RefuseNewest(box, m) == IF Len(box) < Depth THEN Append(box, m) ELSE box

\* KEEP_LAST
Deliver(box, m) == Append(IF Len(box) < Depth THEN box ELSE Tail(box), m)

\* the sport node subscribes at the end of its constructor
Publish(v) ==
  /\ latest.no < Messages
  /\ latest' = [no |-> latest.no + 1, v |-> v]
  /\ aInbox' = Deliver(aInbox, latest')
  /\ sInbox' = IF phase = "construct" THEN sInbox ELSE Deliver(sInbox, latest')
  /\ UNCHANGED <<cmd, age, key, incoming, applied>>
  /\ UNCHANGED <<phase, call, handled, service, ran, lost, robot>>

Next ==
  \/ \E v \in Twists : Publish(v)
  \/ Aliengo!AliengoNext /\ UNCHANGED <<latest, sportVars>>
  \/ Sport!SportNext /\ UNCHANGED <<latest, aliengoVars>>

Spec == Init /\ [][Next]_vars
FairSpec == Spec /\ Aliengo!AliengoFairness /\ Sport!SportFairness

-----------------------------------------------------------------------------
\* Properties

Message == [no : 0..Messages, v : Twists \cup {-1, 0, 1}]
Request == [no : 0..(Messages + 1), v : -1..1]

TypeOK ==
  /\ latest \in Message
  /\ aInbox \in Seq(Message) /\ Len(aInbox) <= Depth
  /\ sInbox \in Seq(Message) /\ Len(sInbox) <= Depth
  /\ cmd \in [no : 0..Messages, v : -1..1] /\ age \in 0..(Timeout + 1)
  /\ key \in Aliengo!Keys /\ incoming \in Aliengo!Keys /\ applied \in Int
  /\ phase \in {"construct", "spin", "stop", "gone"}
  /\ call \in 0..Messages /\ handled \in 0..Messages
  /\ service \in Seq(Request) /\ ran \in Request
  /\ lost \in 0..(Messages + 1) /\ robot \in -1..1

\* numbers of the messages a node has seen and is to see, in that order
Ascending(s) == \A i, j \in 1..Len(s) : i < j => s[i] < s[j]
Numbers(box) == [i \in 1..Len(box) |-> box[i].no]

\* However long a Move call blocks and whatever is evicted meanwhile, the newest
\* message is not lost: a node holds it in its queue, or has taken it.
NewestKept ==
  /\ aInbox = <<>> => cmd.no = latest.no
  /\ aInbox # <<>> => aInbox[Len(aInbox)] = latest
  /\ phase # "construct" /\ sInbox # <<>> => sInbox[Len(sInbox)] = latest

\* The robot executes messages in the order of their publication, and each at
\* most once, although calls time out, requests are lost or executed late, and
\* messages are evicted.
SportInOrder ==
  /\ Ascending(<<ran.no>> \o Numbers(service) \o
               (IF phase = "gone" THEN <<>> ELSE Numbers(sInbox)))
  /\ phase # "gone" => ran.no <= IF call = 0 THEN handled ELSE call

\* A node that is gone leaves a robot that stands still once the service has got
\* to all requests, late ones of the spinning node included, unless StopMove
\* itself was lost.
GoneStops ==
  phase = "gone" /\ service = <<>> => robot = 0 \/ lost = handled + 1

\* After the last message the sport robot does what it says, unless that request
\* was lost: it goes on with it for as long as the node spins.
SportFollowsLatest ==
  <>[](phase = "spin") =>
    <>[](\/ handled = 0
         \/ /\ handled = latest.no /\ service = <<>>
            /\ ran.no = handled => robot = Sport!Clamp(latest.v))

Idle(k) == k.l2 \/ k.stick = 0

\* A silent /cmd_vel does not keep the Aliengo moving: once the pad stays where it
\* is with the stick released, or L2 held, the command ends at zero. (While it
\* goes from one of these to the other, a copy may join the new stick to the old
\* L2.)
AliengoSilenceStops ==
  <>[](incoming = key /\ Idle(key)) => <>[](applied = 0)
=============================================================================
