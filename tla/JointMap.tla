------------------------------- MODULE JointMap -------------------------------
(***************************************************************************)
(* The two joint orders. joint_idx_sdk2policy of the policy configuration  *)
(* names, for each policy index, the robot joint it observes;              *)
(* compute_pol2rob_from_sdk2policy turns it into joint_idx_policy2sdk,     *)
(* which names, for each robot joint, the policy output that commands it.  *)
(* Indices count from 0 as in the code. The configuration is any list of   *)
(* the right length: FromFile checks nothing else.                         *)
(***************************************************************************)
EXTENDS Integers

CONSTANTS
  N,         \* act_size
  Entries    \* integers a configuration may name

ASSUME JointAssumption == N \in Nat /\ Entries \subseteq Int

Joints == 0..(N - 1)

VARIABLES
  sdk2policy,  \* joint_idx_sdk2policy
  pol2rob,     \* joint_idx_policy2sdk under construction
  pi,          \* loop counter
  warned       \* an entry was logged as out of range

vars == <<sdk2policy, pol2rob, pi, warned>>

Init ==
  /\ sdk2policy \in [Joints -> Entries]
  /\ pol2rob = [r \in Joints |-> r]
  /\ pi = 0
  /\ warned = FALSE

\* one too many
OneTooMany(ri) == ri >= 0 /\ ri <= N

InRange(ri) == ri >= 0 /\ ri < N

\* the other branch of the test only logs
Warn == warned' = (warned \/ ~InRange(sdk2policy[pi]))

\* the copy instead of the inverse
CopyEntry ==
  /\ pi < N
  /\ pol2rob' = IF InRange(sdk2policy[pi])
                THEN [pol2rob EXCEPT ![pi] = sdk2policy[pi]] ELSE pol2rob
  /\ pi' = pi + 1
  /\ Warn /\ UNCHANGED sdk2policy

\* the entry itself, unchecked
UncheckedEntry ==
  /\ pi < N
  /\ pol2rob' = [pol2rob EXCEPT ![pi] = sdk2policy[pi]]
  /\ pi' = pi + 1
  /\ Warn /\ UNCHANGED sdk2policy

\* one iteration: an entry out of range is logged and skipped ("keeping identity")
Entry ==
  /\ pi < N
  /\ pol2rob' = IF InRange(sdk2policy[pi])
                THEN [pol2rob EXCEPT ![sdk2policy[pi]] = pi] ELSE pol2rob
  /\ pi' = pi + 1
  /\ Warn /\ UNCHANGED sdk2policy

Next == Entry

Spec == Init /\ [][Next]_vars

-----------------------------------------------------------------------------
\* Properties

Done == pi = N

\* each joint is observed by exactly one policy index
Permutation ==
  /\ \A p \in Joints : sdk2policy[p] \in Joints
  /\ \A p, q \in Joints : sdk2policy[p] = sdk2policy[q] => p = q
  /\ \A r \in Joints : \E p \in Joints : sdk2policy[p] = r

\* The counter stays within the list, and whatever the configuration the index
\* that BaseRobotControl::controlLoop uses into the outputs is within bounds.
TypeOK ==
  /\ sdk2policy \in [Joints -> Entries]
  /\ pol2rob \in [Joints -> Joints]
  /\ pi \in 0..N
  /\ warned \in BOOLEAN

\* With a permutation the policy output that commands a joint is the one whose
\* observation slot shows that joint: observation and action orders agree.
OrdersAgree ==
  Done /\ Permutation =>
    \A r, p \in Joints : pol2rob[r] = p <=> sdk2policy[p] = r

\* With any configuration, a joint that some policy index observes is commanded
\* by an output that observes it, and any other joint by the output of its own
\* number.
ObservedOrIdentity ==
  Done => \A r \in Joints :
    IF \E p \in Joints : sdk2policy[p] = r
    THEN sdk2policy[pol2rob[r]] = r
    ELSE pol2rob[r] = r
=============================================================================
