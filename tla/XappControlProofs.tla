-------------------------- MODULE XappControlProofs --------------------------
(***************************************************************************)
(* Theorems about run-scoped RAN control, for every set of E2 nodes, UEs   *)
(* and every bound.                                                        *)
(***************************************************************************)
EXTENDS XappControl, FiniteSetTheorems, SequenceTheorems, TLAPS

-----------------------------------------------------------------------------
(* The policy in force and its marker file.                                *)

LEMMA InForceStep ==
    ASSUME InForceIsOnDisk, [Next]_vars
    PROVE  InForceIsOnDisk'
  <1> USE DEF InForceIsOnDisk, Free, procVars, rcVars, portVars, envVars
  <1>1. CASE on_policy \/ open_marker \/ write_marker
    BY <1>1 DEF on_policy, open_marker, write_marker
  <1>2. CASE clear_marker
    BY <1>2 DEF clear_marker
  <1>3. CASE unlink
    BY <1>3 DEF unlink
  <1>4. CASE Launch
    BY <1>4 DEF Launch
  <1>5. CASE tick_step
    BY <1>5 DEF tick_step
  <1>6. CASE Refused \/ send_apply \/ stopped
    BY <1>6 DEF Refused, send_apply, stopped, Begin
  <1>7. CASE tick_admin_lost \/ on_boot \/ on_boot_raises
    BY <1>7 DEF tick_admin_lost, SendRevert, on_boot, on_boot_raises
  <1>8. CASE Command
    BY <1>8 DEF Command, start_run, replace_run, ran_policy, run_stop,
                stop_run, SendRevert, Begin
  <1>9. CASE Outcome \/ AnswerLost
    BY <1>9 DEF Outcome, on_control, expire_controls, AnswerLost
  <1>10. CASE terminate \/ Crash
    BY <1>10 DEF terminate, stop_run, SendRevert, Crash
  <1>11. CASE E2Changes \/ AdminChanges \/ UNCHANGED vars
    BY <1>11 DEF E2Changes, AdminChanges, vars
  <1> QED BY <1>1, <1>2, <1>3, <1>4, <1>5, <1>6, <1>7, <1>8, <1>9, <1>10,
             <1>11 DEF Next, MainStep

(* While the process lives, the marker on disk names the policy in force,  *)
(* but for the moment it is being written: on_policy writes it before the  *)
(* control goes out, _revert removes it with the policy, and the revert of *)
(* an older process's policy leaves it alone, however often E2 nodes come  *)
(* and go and sends fail.                                                  *)
THEOREM InForceIsOnDiskHolds == Spec => []InForceIsOnDisk
  <1>1. Init => InForceIsOnDisk
    BY DEF Init, InForceIsOnDisk
  <1>2. InForceIsOnDisk /\ [Next]_vars => InForceIsOnDisk'
    BY InForceStep
  <1> QED BY <1>1, <1>2, PTL DEF Spec

-----------------------------------------------------------------------------
(* What the variables range over.                                           *)

Shape ==
    /\ policy \in Policy \cup {NoPolicy}
    /\ stale \in Target \cup {NoTarget}
    /\ marker \in Target \cup {NoTarget, Torn}
    /\ capped \subseteq Target
    /\ connected \subseteq Gnb
    /\ wanted \in Gnb \cup {None}
    /\ request \in Request
    /\ closing \in Closing \cup {NotClosing}
    /\ ends \in Nat

(* The node a policy is sent to, or the one a leftover is reverted on, is   *)
(* an E2 node.                                                              *)
LEMMA NodesAreGnb ==
    ASSUME Shape
    PROVE  NodeChoice \subseteq Gnb /\ (stale # NoTarget => StaleNode \subseteq Gnb)
  BY DEF Shape, NodeChoice, StaleNode, Target

LEMMA NewPolicyIsPolicy ==
    ASSUME Shape, request \in Parses, NEW p \in NewPolicy
    PROVE  p \in Policy /\ p # NoPolicy /\ p.target[2] = request.ue
  <1>1. PICK g \in NodeChoice :
          p = [target |-> <<g, request.ue>>, steps |-> request.steps]
    BY DEF NewPolicy
  <1>2. g \in Gnb /\ g # None
    BY NodesAreGnb, ControlAssumption
  <1>3. request.ue \in Ue /\ request.steps \in 0..MaxSteps
    BY DEF Parses
  <1>4. p \in Policy
    BY <1>1, <1>2, <1>3 DEF Policy, Target
  <1>5. p.target = <<g, request.ue>> /\ NoPolicy.target = <<None, None>>
    BY <1>1 DEF NoPolicy, NoTarget
  <1>6. <<g, request.ue>> # <<None, None>>
    BY <1>2
  <1> QED BY <1>4, <1>5, <1>6

LEMMA ShapeStep ==
    ASSUME Shape, up /\ doing \in {"write", "apply"} => policy # NoPolicy,
           [Next]_vars
    PROVE  Shape'
  <1> USE ControlAssumption DEF Shape, Free, procVars, rcVars, portVars, envVars
  <1>1. CASE on_policy \/ open_marker \/ write_marker
    <2>1. CASE on_policy
      <3>1. policy' \in Policy
        BY <2>1, NewPolicyIsPolicy DEF on_policy
      <3>2. capped' \subseteq Target
        BY <2>1 DEF on_policy, Send, AfterCap
      <3> QED BY <2>1, <3>1, <3>2 DEF on_policy, Request
    <2>2. CASE open_marker
      BY <2>2 DEF open_marker
    <2>3. CASE write_marker
      BY <2>3 DEF write_marker, Policy
    <2> QED BY <1>1, <2>1, <2>2, <2>3
  <1>2. CASE send_apply
    <2>1. policy.target \in Target
      BY <1>2 DEF send_apply, Policy
    <2>2. capped' \subseteq Target
      BY <1>2, <2>1 DEF send_apply, Send, AfterCap
    <2> QED BY <1>2, <2>2 DEF send_apply
  <1>3. CASE tick_step
    <2>1. policy \in Policy /\ policy.steps > 0 /\ policy' = [policy EXCEPT !.steps = @ - 1]
      BY <1>3 DEF tick_step
    <2>2. policy' \in Policy
      <3>1. policy.target \in Target /\ policy.steps - 1 \in 0..MaxSteps
        BY <2>1 DEF Policy
      <3>2. policy' = [target |-> policy.target, steps |-> policy.steps - 1]
        BY <2>1 DEF Policy
      <3> HIDE DEF Shape
      <3> QED BY <3>1, <3>2 DEF Policy
    <2>3. capped' \subseteq Target
      BY <1>3, <2>1 DEF tick_step, Policy, Send, AfterCap
    <2> QED BY <1>3, <2>2, <2>3 DEF tick_step
  <1>4. CASE \E p \in Params : start_run(p) \/ replace_run(p)
    <2>1. PICK p \in Params : start_run(p) \/ replace_run(p)
      BY <1>4
    <2>2. p.node \in Gnb \cup {None} /\ p.policy \in Request
      BY DEF Params
    <2>3. CASE start_run(p)
      BY <2>2, <2>3 DEF start_run, Begin
    <2>4. CASE replace_run(p)
      <3>1. [to |-> "start", params |-> p] \in Closing
        BY DEF Closing
      <3>2. capped' \subseteq Target
        BY <2>4 DEF replace_run, stop_run, SendRevert, Send, AfterCap
      <3> QED BY <2>4, <3>1, <3>2 DEF replace_run, stop_run, SendRevert
    <2> QED BY <2>1, <2>3, <2>4
  <1>5. CASE run_stop \/ terminate
    <2>1. ReturnTo("idle") \in Closing /\ ReturnTo("exit") \in Closing
      BY DEF Closing
    <2>2. capped' \subseteq Target
      BY <1>5 DEF run_stop, terminate, stop_run, SendRevert, Send, AfterCap
    <2>3. CASE run_stop \/ stop_run(ReturnTo("exit"))
      BY <2>1, <2>2, <2>3 DEF run_stop, stop_run, SendRevert
    <2>4. CASE terminate /\ ~stop_run(ReturnTo("exit"))
      BY <2>4 DEF terminate
    <2> QED BY <1>5, <2>3, <2>4 DEF terminate
  <1>6. CASE \E p \in Parses \cup {Invalid} : ran_policy(p)
    BY <1>6 DEF ran_policy, Request
  <1>7. CASE stopped
    <2>1. ASSUME closing.to = "start"
          PROVE  /\ closing.params.node \in Gnb \cup {None}
                 /\ closing.params.policy \in Request
      <3>1. closing \in [to : {"start"}, params : Params]
        BY <2>1 DEF Closing, NotClosing, ReturnTo
      <3> QED BY <3>1 DEF Params
    <2>2. wanted' \in Gnb \cup {None} /\ request' \in Request
      BY <1>7, <2>1 DEF stopped, Begin
    <2>3. ends' \in {ends, ends + 1} /\ closing' = NotClosing
      BY <1>7 DEF stopped
    <2> QED BY <1>7, <2>2, <2>3 DEF stopped
  <1>8. CASE tick_admin_lost
    BY <1>8 DEF tick_admin_lost, SendRevert, Send, AfterCap
  <1>9. CASE on_boot
    BY <1>9 DEF on_boot, AfterCap
  <1>10. CASE Refused \/ clear_marker \/ unlink \/ on_boot_raises
    BY <1>10 DEF Refused, Request, clear_marker, unlink, on_boot_raises
  <1>11. CASE Outcome \/ AnswerLost
    BY <1>11 DEF Outcome, on_control, expire_controls, AnswerLost
  <1>12. CASE Crash \/ Launch
    BY <1>12 DEF Crash, Launch, Request
  <1>13. CASE E2Changes \/ AdminChanges \/ UNCHANGED vars
    BY <1>13 DEF E2Changes, AdminChanges, vars
  <1> QED BY <1>1, <1>2, <1>3, <1>4, <1>5, <1>6, <1>7, <1>8, <1>9, <1>10,
             <1>11, <1>12, <1>13 DEF Next, MainStep, Command

-----------------------------------------------------------------------------
(* The outcomes owed and the queue of the adapter.                          *)

CountedAt(s) == {i \in DOMAIN s : s[i] # "boot"}

(* Never more entries are counted than there are.                           *)
LEMMA CountedBounds ==
    ASSUME NEW s \in Seq(Actions)
    PROVE  /\ IsFiniteSet(CountedAt(s))
           /\ Counted(s) = Cardinality(CountedAt(s))
           /\ Counted(s) \in 0..Len(s)
  <1>1. Len(s) \in Nat /\ DOMAIN s = 1..Len(s)
    OBVIOUS
  <1>2. IsFiniteSet(1..Len(s)) /\ Cardinality(1..Len(s)) = Len(s)
    <2>1. /\ IsFiniteSet(1..Len(s))
          /\ Cardinality(1..Len(s)) = IF 1 > Len(s) THEN 0 ELSE Len(s) - 1 + 1
      BY <1>1, FS_Interval
    <2> QED BY <1>1, <2>1
  <1>3. CountedAt(s) \in SUBSET (1..Len(s))
    BY <1>1 DEF CountedAt
  <1>4. IsFiniteSet(CountedAt(s)) /\ Cardinality(CountedAt(s)) <= Len(s)
    BY <1>2, <1>3, FS_Subset
  <1>5. Cardinality(CountedAt(s)) \in Nat
    BY <1>4, FS_CardinalityType
  <1>6. Counted(s) = Cardinality(CountedAt(s))
    BY DEF Counted, CountedAt
  <1> QED BY <1>1, <1>4, <1>5, <1>6

(* An entry that joins the queue is counted unless it is for a leftover.    *)
LEMMA CountedAppend ==
    ASSUME NEW s \in Seq(Actions), NEW a \in Actions
    PROVE  Counted(Append(s, a)) = Counted(s) + Counts(a)
  <1>1. /\ Append(s, a) \in Seq(Actions) /\ Len(s) \in Nat
        /\ DOMAIN Append(s, a) = (DOMAIN s) \cup {Len(s) + 1}
        /\ Append(s, a)[Len(s) + 1] = a
        /\ \A i \in DOMAIN s : Append(s, a)[i] = s[i]
        /\ Len(s) + 1 \notin DOMAIN s
    OBVIOUS
  <1>2. CountedAt(Append(s, a)) =
            IF a = "boot" THEN CountedAt(s) ELSE CountedAt(s) \cup {Len(s) + 1}
    BY <1>1 DEF CountedAt
  <1>3. Len(s) + 1 \notin CountedAt(s)
    BY <1>1 DEF CountedAt
  <1>4. Cardinality(CountedAt(s) \cup {Len(s) + 1}) = Cardinality(CountedAt(s)) + 1
    BY <1>3, CountedBounds, FS_AddElement
  <1>5. /\ Counted(s) = Cardinality(CountedAt(s)) /\ Counted(s) \in 0..Len(s)
        /\ Counted(Append(s, a)) = Cardinality(CountedAt(Append(s, a)))
    BY <1>1, CountedBounds
  <1>6. Counted(s) + 0 = Counted(s)
    BY <1>1, <1>5
  <1> QED BY <1>2, <1>4, <1>5, <1>6 DEF Counts

(* Taking the oldest entry: those left are the others, one place further on. *)
LEMMA CountedTail ==
    ASSUME NEW s \in Seq(Actions), s # <<>>
    PROVE  /\ Head(s) \in Actions /\ Tail(s) \in Seq(Actions)
           /\ Len(Tail(s)) = Len(s) - 1
           /\ Counted(Tail(s)) = Counted(s) - Counts(Head(s))
  <1>1. /\ Head(s) \in Actions /\ Tail(s) \in Seq(Actions) /\ Len(s) \in Nat \ {0}
        /\ Len(Tail(s)) = Len(s) - 1
        /\ DOMAIN Tail(s) = 1..(Len(s) - 1) /\ DOMAIN s = 1..Len(s)
        /\ Head(s) = s[1]
        /\ \A i \in DOMAIN Tail(s) : Tail(s)[i] = s[i + 1]
    BY HeadTailProperties
  <1> DEFINE Moved == CountedAt(s) \ {1}
  <1>2. IsFiniteSet(CountedAt(Tail(s))) /\ IsFiniteSet(CountedAt(s))
    BY <1>1, CountedBounds
  <1>3. Cardinality(CountedAt(Tail(s))) = Cardinality(Moved)
    <2>1. DEFINE step == [i \in CountedAt(Tail(s)) |-> i + 1]
    <2>2. step \in Bijection(CountedAt(Tail(s)), Moved)
      <3>1. step \in [CountedAt(Tail(s)) -> Moved]
        BY <1>1 DEF CountedAt
      <3>2. \A i, j \in CountedAt(Tail(s)) : step[i] = step[j] => i = j
        BY <1>1 DEF CountedAt
      <3>3. ASSUME NEW j \in Moved PROVE \E i \in CountedAt(Tail(s)) : step[i] = j
        <4>1. j - 1 \in CountedAt(Tail(s)) /\ (j - 1) + 1 = j
          BY <1>1 DEF CountedAt
        <4> QED BY <4>1
      <3> HIDE DEF step, Moved
      <3> QED BY <3>1, <3>2, <3>3 DEF Bijection, Injection, Surjection, IsInjective
    <2>3. ExistsBijection(CountedAt(Tail(s)), Moved)
      BY <2>2 DEF ExistsBijection
    <2> HIDE DEF Moved
    <2> QED BY <1>2, <2>3, FS_Bijection
  <1>4. Cardinality(Moved) = IF 1 \in CountedAt(s) THEN Cardinality(CountedAt(s)) - 1
                                                 ELSE Cardinality(CountedAt(s))
    BY <1>2, FS_RemoveElement
  <1>5. 1 \in CountedAt(s) <=> Head(s) # "boot"
    BY <1>1 DEF CountedAt
  <1>6. /\ Counted(s) = Cardinality(CountedAt(s)) /\ Counted(s) \in 0..Len(s)
        /\ Counted(Tail(s)) = Cardinality(CountedAt(Tail(s)))
    BY <1>1, CountedBounds
  <1>7. Counted(s) - 0 = Counted(s)
    BY <1>1, <1>6
  <1> QED BY <1>1, <1>3, <1>4, <1>5, <1>6, <1>7 DEF Counts

(* The wait at a stop looks at owed, the adapter at its queue: owed is never *)
(* above the entries the queue counts, and below them only by sends that    *)
(* raised and whose entry stayed.                                           *)
Counters ==
    /\ pending \in Seq(Actions) /\ Len(pending) <= MaxPending
    /\ unanswered \in 0..MaxPending
    /\ owed \in Int
    /\ owed <= Counted(pending) /\ Counted(pending) <= owed + MaxExtra
    /\ ~SendsRaise => owed = Counted(pending)

(* A send adds its entry to the queue and to owed, or to the queue alone.   *)
LEMMA SendCounters ==
    ASSUME Counters, NEW a \in Actions, SendOk(a) \/ SendRaises(a)
    PROVE  Counters'
  <1> USE ControlAssumption DEF Counters, Room
  <1>1. /\ pending' = Append(pending, a) /\ Len(pending) + 1 <= MaxPending
        /\ \/ /\ owed' = owed + Counts(a)
              /\ unanswered' \in {unanswered, unanswered + 1}
              /\ unanswered' <= MaxPending
           \/ /\ SendsRaise /\ owed' = owed /\ unanswered' = unanswered
              /\ owed - Counted(pending) > -MaxExtra
    BY DEF SendOk, SendRaises
  <1>2. pending' \in Seq(Actions) /\ Len(pending') = Len(pending) + 1
    BY <1>1
  <1>3. Counted(pending') = Counted(pending) + Counts(a) /\ Counts(a) \in 0..1
    BY <1>1, CountedAppend DEF Counts
  <1>4. Counted(pending) \in Nat
    BY CountedBounds
  <1> QED BY <1>1, <1>2, <1>3, <1>4

(* An outcome takes the oldest entry from the queue and from owed.          *)
LEMMA DoneCounters ==
    ASSUME Counters, pending # <<>>, pending' = Tail(pending),
           NEW ok \in BOOLEAN, Done(Head(pending), ok),
           unanswered' \in 0..MaxPending
    PROVE  Counters'
  <1> USE ControlAssumption DEF Counters
  <1>1. /\ Head(pending) \in Actions /\ pending' \in Seq(Actions)
        /\ Len(pending') = Len(pending) - 1 /\ Len(pending) \in Nat
        /\ Counted(pending') = Counted(pending) - Counts(Head(pending))
    BY CountedTail
  <1>2. owed' = owed - Counts(Head(pending)) /\ Counts(Head(pending)) \in 0..1
    BY DEF Done, Counts
  <1>3. Counted(pending) \in Nat
    BY CountedBounds
  <1> QED BY <1>1, <1>2, <1>3

LEMMA CountersStep ==
    ASSUME Counters, [Next]_vars
    PROVE  Counters'
  <1> USE DEF rcVars, portVars, envVars, procVars
  <1>1. ASSUME UNCHANGED <<owed, pending, unanswered>>
        PROVE  Counters'
    BY <1>1 DEF Counters
  <1>2. CASE \E a \in Actions : SendOk(a) \/ SendRaises(a)
    BY <1>2, SendCounters
  <1>3. CASE \E ok \in BOOLEAN : on_control(ok)
    <2>1. PICK ok \in BOOLEAN : on_control(ok)
      BY <1>3
    <2>2. unanswered' \in 0..MaxPending
      BY <2>1, ControlAssumption DEF on_control, Counters
    <2>3. CASE pending = <<>>
      BY <2>1, <2>2, <2>3 DEF on_control, Counters
    <2>4. CASE pending # <<>>
      BY <2>1, <2>2, <2>4, DoneCounters DEF on_control
    <2> QED BY <2>3, <2>4
  <1>4. CASE expire_controls
    <2>1. /\ pending # <<>> /\ pending' = Tail(pending)
          /\ Done(Head(pending), FALSE) /\ unanswered' = unanswered
      BY <1>4 DEF expire_controls
    <2>2. unanswered' \in 0..MaxPending
      BY <2>1 DEF Counters
    <2> QED BY <2>1, <2>2, DoneCounters
  <1>5. CASE AnswerLost
    <2>1. unanswered' \in 0..MaxPending /\ UNCHANGED <<owed, pending>>
      BY <1>5, ControlAssumption DEF AnswerLost, Counters
    <2> QED BY <2>1 DEF Counters
  <1>6. CASE Launch
    <2>1. owed' = 0 /\ pending' = <<>> /\ unanswered' = unanswered
      BY <1>6 DEF Launch
    <2>2. <<>> \in Seq(Actions) /\ Len(<<>>) = 0
      OBVIOUS
    <2>3. Counted(<<>>) \in 0..Len(<<>>)
      BY <2>2, CountedBounds
    <2>4. Counted(<<>>) = 0
      BY <2>2, <2>3
    <2> QED BY <2>1, <2>2, <2>4, ControlAssumption DEF Counters
  <1>7. CASE on_policy \/ send_apply \/ tick_step \/ tick_admin_lost
    BY <1>1, <1>2, <1>7
    DEF on_policy, send_apply, tick_step, tick_admin_lost, SendRevert, Send, Actions
  <1>8. CASE on_boot \/ on_boot_raises
    BY <1>2, <1>8 DEF on_boot, on_boot_raises, Actions
  <1>9. CASE Command
    BY <1>1, <1>2, <1>9
    DEF Command, start_run, replace_run, ran_policy, run_stop, stop_run,
        SendRevert, Send, Actions
  <1>10. CASE \/ Refused \/ open_marker \/ write_marker \/ clear_marker
              \/ unlink \/ stopped
    BY <1>1, <1>10
    DEF Refused, open_marker, write_marker, clear_marker, unlink, stopped
  <1>11. CASE terminate \/ Crash
    BY <1>1, <1>2, <1>11
    DEF terminate, stop_run, SendRevert, Send, Crash, Actions
  <1>12. CASE E2Changes \/ AdminChanges \/ UNCHANGED vars
    BY <1>1, <1>12 DEF E2Changes, AdminChanges, vars
  <1> QED BY <1>3, <1>4, <1>5, <1>6, <1>7, <1>8, <1>9, <1>10, <1>11, <1>12
          DEF Next, MainStep, Outcome

(* The rest of the type: what the main thread is in the middle of.          *)
Middle ==
    /\ up \in BOOLEAN /\ active \in BOOLEAN /\ adminLost \in BOOLEAN
    /\ unsent \in BOOLEAN
    /\ doing \in {"idle", "policy", "mark", "write", "apply", "clear", "unlink",
                 "wait"}
    /\ pstate \in {None, "pending", "applied", "failed", "reverted"}
    /\ ends <= MaxEnds
    /\ up /\ closing.to = "exit" => ends < MaxEnds
    /\ up /\ doing \in {"mark", "write", "apply", "clear"} => policy # NoPolicy

PStates == {None, "pending", "applied", "failed", "reverted"}

LEMMA SendPstate ==
    ASSUME NEW a, NEW t, NEW cap, NEW ps \in PStates, Send(a, t, cap, ps)
    PROVE  pstate' \in PStates /\ unsent' \in BOOLEAN
  BY DEF Send, PStates

LEMMA MiddleStep ==
    ASSUME Shape, Middle, [Next]_vars
    PROVE  Middle'
  <1> USE DEF Free, procVars, rcVars, portVars, envVars
  <1>00. ends \in Nat /\ MaxEnds \in Nat
    BY ControlAssumption DEF Shape
  <1>0. pstate \in PStates
    BY DEF Middle, PStates
  <1>1. CASE on_policy \/ open_marker \/ write_marker
    <2>1. CASE on_policy
      <3>1. policy' # NoPolicy
        BY <2>1, NewPolicyIsPolicy DEF on_policy
      <3>2. pstate' \in PStates /\ unsent' \in BOOLEAN
        BY <2>1, SendPstate DEF on_policy, PStates, Middle
      <3> QED BY <2>1, <3>1, <3>2 DEF on_policy, Middle, PStates
    <2>2. CASE open_marker
      BY <2>2 DEF open_marker, Middle
    <2>3. CASE write_marker
      BY <2>3 DEF write_marker, Middle
    <2> QED BY <1>1, <2>1, <2>2, <2>3
  <1>2. CASE send_apply
    <2>1. pstate' \in PStates /\ unsent' \in BOOLEAN
      BY <1>0, <1>2, SendPstate DEF send_apply
    <2> QED BY <1>2, <2>1 DEF send_apply, Middle, PStates
  <1>3. CASE tick_step
    <2>1. pstate' \in PStates /\ unsent' \in BOOLEAN
      BY <1>0, <1>3, SendPstate DEF tick_step
    <2> QED BY <1>3, <2>1 DEF tick_step, Middle, PStates
  <1>4. ASSUME NEW then, stop_run(then), then.to = "exit" => ends < MaxEnds
        PROVE  Middle'
    <2>1. pstate' \in PStates /\ unsent' \in BOOLEAN
      BY <1>0, <1>4, SendPstate DEF stop_run, SendRevert, Middle
    <2> QED BY <1>4, <2>1 DEF stop_run, SendRevert, Middle, PStates
  <1>5. CASE tick_admin_lost
    <2>1. pstate' \in PStates /\ unsent' \in BOOLEAN
      BY <1>0, <1>5, SendPstate DEF tick_admin_lost, SendRevert
    <2> QED BY <1>5, <2>1 DEF tick_admin_lost, SendRevert, Middle, PStates
  <1>6. CASE run_stop \/ (\E p \in Params : replace_run(p)) \/ terminate
    <2>1. CASE run_stop
      BY <1>4, <2>1 DEF run_stop, ReturnTo
    <2>2. CASE \E p \in Params : replace_run(p)
      BY <1>4, <2>2 DEF replace_run
    <2>3. CASE terminate /\ stop_run(ReturnTo("exit"))
      BY <1>4, <2>3 DEF terminate
    <2>4. CASE terminate /\ ~stop_run(ReturnTo("exit"))
      <3>1. ends' = ends + 1 /\ ends < MaxEnds /\ ~up'
        BY <2>4 DEF terminate
      <3>2. ends' <= MaxEnds
        BY <1>00, <3>1
      <3> QED BY <2>4, <3>1, <3>2 DEF terminate, Middle
    <2> QED BY <1>6, <2>1, <2>2, <2>3, <2>4
  <1>7. CASE (\E p \in Params : start_run(p)) \/ (\E p \in Parses \cup {Invalid} : ran_policy(p))
    BY <1>7 DEF start_run, ran_policy, Begin, Middle
  <1>8. CASE stopped
    <2>1. closing' = NotClosing /\ NotClosing.to = "nowhere"
      BY <1>8 DEF stopped, NotClosing, ReturnTo
    <2>2. ends' <= MaxEnds
      <3>1. \/ ends' = ends /\ ends <= MaxEnds
            \/ ends' = ends + 1 /\ ends < MaxEnds
        BY <1>8 DEF stopped, Begin, Middle
      <3> QED BY <1>00, <3>1
    <2>3. doing' \in {"idle", "policy"} /\ active' \in BOOLEAN /\ up' \in BOOLEAN
      BY <1>8 DEF stopped, Begin, Middle
    <2> QED BY <1>8, <2>1, <2>2, <2>3 DEF stopped, Middle
  <1>9. CASE Crash
    <2>1. ends' = ends + 1 /\ ends < MaxEnds /\ ~up'
      BY <1>9 DEF Crash
    <2>2. ends' <= MaxEnds
      BY <1>00, <2>1
    <2> QED BY <1>9, <2>1, <2>2 DEF Crash, Middle
  <1>10. CASE Launch
    <2>1. closing'.to = "nowhere"
      BY <1>10 DEF Launch, NotClosing, ReturnTo
    <2> QED BY <1>10, <2>1 DEF Launch, Middle
  <1>11. CASE Refused \/ clear_marker \/ unlink
    BY <1>11 DEF Refused, clear_marker, unlink, Middle
  <1>12. CASE on_boot \/ on_boot_raises
    BY <1>12 DEF on_boot, on_boot_raises, Middle
  <1>13. CASE Outcome \/ AnswerLost
    <2>1. pstate' \in PStates
      BY <1>0, <1>13 DEF Outcome, on_control, expire_controls, AnswerLost, Done, PStates
    <2>2. UNCHANGED <<up, active, adminLost, doing, ends, closing, policy, unsent>>
      BY <1>13 DEF Outcome, on_control, expire_controls, AnswerLost
    <2> QED BY <2>1, <2>2 DEF Middle, PStates
  <1>14. CASE E2Changes \/ AdminChanges \/ UNCHANGED vars
    <2>1. adminLost' \in BOOLEAN /\ unsent' = unsent
      BY <1>14 DEF E2Changes, AdminChanges, vars, Middle
    <2> QED BY <1>14, <2>1 DEF E2Changes, AdminChanges, vars, Middle
  <1> QED BY <1>1, <1>2, <1>3, <1>5, <1>6, <1>7, <1>8, <1>9, <1>10, <1>11,
             <1>12, <1>13, <1>14 DEF Next, MainStep, Command

-----------------------------------------------------------------------------
ControlInv == Shape /\ Middle /\ Counters

(* The inductive invariant of the type and the counters, from Init on.      *)
THEOREM ControlInvHolds == Spec => []ControlInv
  <1>1. Init => ControlInv
    <2>1. <<>> \in Seq(Actions) /\ Len(<<>>) = 0
      OBVIOUS
    <2>2. Counted(<<>>) \in 0..Len(<<>>)
      BY <2>1, CountedBounds
    <2>3. Counted(<<>>) = 0
      BY <2>1, <2>2
    <2>4. NotClosing.to = "nowhere"
      BY DEF NotClosing, ReturnTo
    <2>5. Init => Counters
      BY <2>1, <2>3, ControlAssumption DEF Init, Counters
    <2>6. Init => Shape
      BY DEF Init, Shape, Request
    <2>7. Init => ends <= MaxEnds
      BY ControlAssumption DEF Init
    <2> QED BY <2>4, <2>5, <2>6, <2>7 DEF Init, ControlInv, Middle
  <1>2. ControlInv /\ [Next]_vars => ControlInv'
    <2> SUFFICES ASSUME ControlInv, [Next]_vars PROVE ControlInv'
      OBVIOUS
    <2>1. Counters' /\ Middle'
      BY CountersStep, MiddleStep DEF ControlInv
    <2>2. Shape'
      BY ShapeStep DEF ControlInv, Middle
    <2> QED BY <2>1, <2>2 DEF ControlInv
  <1> QED BY <1>1, <1>2, PTL DEF Spec

(* Every variable keeps its shape and the counters their bounds: a wait for *)
(* outcomes, a failed send or a restart never leaves sent - acked - failed  *)
(* outside what the queue and the sends counted twice explain.              *)
THEOREM ControlTypes == Spec => []ControlTypeOK
  <1>1. ControlInv => ControlTypeOK
    <2> SUFFICES ASSUME ControlInv PROVE ControlTypeOK
      OBVIOUS
    <2>1. Counted(pending) \in 0..Len(pending) /\ Len(pending) \in Nat
      BY CountedBounds DEF ControlInv, Counters
    <2>2. owed \in (-MaxExtra)..MaxPending
      BY <2>1, ControlAssumption DEF ControlInv, Counters
    <2>3. ends \in 0..MaxEnds
      BY ControlAssumption DEF ControlInv, Shape, Middle
    <2> QED BY <2>2, <2>3 DEF ControlInv, Shape, Middle, Counters, ControlTypeOK
  <1> QED BY <1>1, ControlInvHolds, PTL

(* A stop that waits has an entry to wait for: whatever answers are lost,   *)
(* late or counted twice, an outcome is owed only while the adapter's queue *)
(* holds an entry, which expire_controls will turn into one (on_stop).      *)
THEOREM WaitIsForAnEntry == Spec => [](owed > 0 => pending # <<>>)
  <1>1. ControlInv => (owed > 0 => pending # <<>>)
    <2> SUFFICES ASSUME ControlInv, pending = <<>> PROVE ~(owed > 0)
      OBVIOUS
    <2>1. Counted(pending) \in 0..Len(pending) /\ Len(pending) = 0
      BY CountedBounds DEF ControlInv, Counters
    <2> QED BY <2>1 DEF ControlInv, Counters
  <1> QED BY <1>1, ControlInvHolds, PTL

(* Unless a send raises, the outcomes a stop waits for are exactly those of *)
(* the controls still queued, the revert of a leftover not among them.      *)
THEOREM OwedIsPending ==
    ASSUME ~SendsRaise
    PROVE  Spec => [](owed = Counted(pending))
  <1>1. ControlInv => owed = Counted(pending)
    BY DEF ControlInv, Counters
  <1> QED BY <1>1, ControlInvHolds, PTL

-----------------------------------------------------------------------------
(* How a cap can lose its last trace, with any number of E2 nodes.          *)

(* The process ends while a leftover is not yet reverted and the marker no  *)
(* longer names it: a run of this process wrote its own over it.            *)
EndsBeforeRevert(t) == up /\ ~up' /\ stale = t /\ marker # t

(* The marker of a policy is overwritten by that of a policy for the same   *)
(* UE on another E2 node.                                                   *)
MovesNode(t) ==
    /\ up /\ doing = "mark" /\ marker = t
    /\ policy.target # t /\ policy.target[2] = t[2]

(* The leftover was reverted on an E2 node other than its own.              *)
RevertedElsewhere(t) == up /\ doing = "unlink" /\ stale = t

Loses(t) ==
    \/ RevertRaised(t) \/ EndsBeforeMarker(t)
    \/ EndsBeforeRevert(t) \/ MovesNode(t) \/ RevertedElsewhere(t)

(* A marker about to be overwritten: it names no cap, or a leftover, or the *)
(* policy's own UE, or one whose revert raised.                             *)
Overwritten ==
    \A t \in capped :
        marker = t => unsent \/ stale = t \/ policy.target[2] = t[2]

(* What a handler cut between two effects still knows, and that a marker    *)
(* which is not this process's own is the one it read.                      *)
Traced ==
    /\ Shape
    /\ InForceIsOnDisk
    /\ up /\ policy = NoPolicy => marker \in {NoTarget, stale}
    /\ up /\ doing \in {"mark", "write", "apply", "clear"} => policy # NoPolicy
    /\ up /\ doing = "clear" => unsent \/ policy.target \notin capped
    /\ up /\ doing = "mark" => Overwritten
    /\ up /\ doing = "write" => marker = Torn

(* A step that leaves the policy, the leftover, the marker and the caps as  *)
(* they were neither orphans a target nor changes what is known of them.    *)
LEMMA Untouched ==
    ASSUME Traced, Shape', InForceIsOnDisk',
           UNCHANGED <<up, policy, stale, marker, unsent>>, capped' \subseteq capped,
           doing' \in {doing, "idle", "policy", "wait", "unlink"}
    PROVE  /\ Traced'
           /\ \A t \in Target : Orphan(t)' /\ ~Orphan(t) => Loses(t)
  BY DEF Traced, Overwritten, Orphan, Owned

(* What a step keeps, and what it takes to orphan a target.                 *)
LEMMA TracedStep ==
    ASSUME Traced, [Next]_vars
    PROVE  /\ Traced'
           /\ \A t \in Target : Orphan(t)' /\ ~Orphan(t) => Loses(t)
  <1> USE DEF Free, procVars, rcVars, portVars, envVars
  <1>1. Shape /\ Shape' /\ InForceIsOnDisk /\ InForceIsOnDisk'
    BY ShapeStep, InForceStep DEF Traced
  <1>2. NoTarget \notin Target /\ Torn \notin Target
    BY ControlAssumption DEF Target, NoTarget, Torn
  <1>3. CASE on_policy
    <2>1. policy' \in Policy /\ policy' # NoPolicy /\ policy'.target[2] = request.ue
      BY <1>1, <1>3, NewPolicyIsPolicy DEF on_policy
    <2>2. capped' \subseteq capped /\ UNCHANGED <<up, stale, marker>> /\ up
      BY <1>3 DEF on_policy, Send, AfterCap
    <2>3. Overwritten'
      <3>1. SUFFICES ASSUME NEW t \in capped', marker = t, stale # t,
                            policy'.target[2] # t[2]
                     PROVE  unsent'
        BY <1>3, <2>2 DEF Overwritten, on_policy
      <3>2. t \in Target
        BY <1>1 DEF Shape
      <3>3. policy # NoPolicy /\ policy.target = t
        BY <1>1, <1>2, <1>3, <2>2, <3>1, <3>2
        DEF Traced, InForceIsOnDisk, on_policy
      <3>4. Send("revert", t, FALSE, "pending")
        BY <1>3, <2>1, <3>1, <3>3 DEF on_policy
      <3> QED BY <3>1, <3>4 DEF Send, AfterCap
    <2>4. ASSUME NEW t \in Target, Orphan(t)', ~Orphan(t) PROVE FALSE
      <3>1. policy # NoPolicy /\ policy.target = t /\ marker # t
        BY <2>2, <2>4 DEF Orphan, Owned
      <3> QED BY <1>1, <1>3, <3>1 DEF InForceIsOnDisk, on_policy
    <2> QED BY <1>1, <1>3, <2>1, <2>2, <2>3, <2>4 DEF on_policy, Traced
  <1>4. CASE open_marker
    <2>1. /\ up /\ doing = "mark" /\ marker' = Torn
          /\ UNCHANGED <<up, policy, stale, capped>>
      BY <1>4 DEF open_marker
    <2>2. ASSUME NEW t \in Target, Orphan(t)', ~Orphan(t) PROVE Loses(t)
      <3>1. t \in capped /\ marker = t /\ stale # t /\ policy.target # t
        BY <2>1, <2>2 DEF Orphan, Owned, Traced
      <3> QED BY <2>1, <3>1 DEF Traced, Overwritten, Loses, RevertRaised, MovesNode
    <2> QED BY <1>1, <1>4, <2>1, <2>2 DEF open_marker, Traced
  <1>5. CASE write_marker
    <2>1. /\ up /\ doing = "write" /\ doing' = "apply"
          /\ UNCHANGED <<up, policy, stale, capped>>
      BY <1>5 DEF write_marker
    <2>2. marker = Torn /\ policy # NoPolicy
      BY <2>1 DEF Traced
    <2>3. \A t \in Target : Orphan(t)' => Orphan(t)
      BY <1>2, <2>1, <2>2 DEF Orphan, Owned
    <2> QED BY <1>1, <2>1, <2>2, <2>3 DEF Traced
  <1>6. CASE send_apply
    <2>1. /\ up /\ policy # NoPolicy /\ doing' = "idle"
          /\ UNCHANGED <<up, policy, stale, marker>>
          /\ capped' \subseteq capped \cup {policy.target}
      BY <1>6 DEF send_apply, Send, AfterCap, Traced
    <2> QED BY <1>1, <2>1 DEF Traced, Orphan, Owned
  <1>7. CASE tick_step
    <2>1. policy # NoPolicy /\ policy' # NoPolicy /\ policy'.target = policy.target
      <3>1. policy \in Policy
        BY <1>1, <1>7 DEF tick_step, Shape
      <3>2. policy.target \in Target /\ policy'.target = policy.target
        BY <1>7, <3>1 DEF tick_step, Policy
      <3> QED BY <1>2, <1>7, <3>2 DEF tick_step, NoPolicy
    <2>2. /\ up /\ doing' = "idle" /\ UNCHANGED <<up, stale, marker>>
          /\ capped' \subseteq capped \cup {policy.target}
      BY <1>7 DEF tick_step, Send, AfterCap
    <2> QED BY <1>1, <2>1, <2>2 DEF Traced, Orphan, Owned
  <1>8. CASE clear_marker
    <2>1. /\ up /\ doing = "clear" /\ doing' \in {"idle", "wait"}
          /\ UNCHANGED <<up, stale, capped>> /\ policy' = NoPolicy /\ marker' = NoTarget
      BY <1>8 DEF clear_marker
    <2>2. policy # NoPolicy /\ marker = policy.target
      BY <1>1, <2>1 DEF Traced, InForceIsOnDisk
    <2>3. ASSUME NEW t \in Target, Orphan(t)', ~Orphan(t) PROVE RevertRaised(t)
      BY <2>1, <2>2, <2>3 DEF Orphan, Owned, Traced, RevertRaised
    <2> QED BY <1>1, <2>1, <2>3 DEF Traced, Loses
  <1>9. ASSUME SendRevert, up, doing = "idle"
        PROVE  /\ Traced'
               /\ \A t \in Target : Orphan(t)' /\ ~Orphan(t) => Loses(t)
    <2>1. /\ doing' = "clear" /\ policy # NoPolicy
          /\ UNCHANGED <<up, policy, stale, marker>>
          /\ capped' \subseteq capped
          /\ unsent' \/ policy.target \notin capped'
      BY <1>9 DEF SendRevert, Send, AfterCap
    <2> QED BY <1>1, <1>9, <2>1 DEF Traced, Orphan, Owned
  <1>10. CASE \/ run_stop \/ tick_admin_lost
              \/ \E p \in Params : replace_run(p)
              \/ terminate /\ stop_run(ReturnTo("exit"))
    <2>1. \/ SendRevert /\ up /\ doing = "idle"
          \/ UNCHANGED <<up, policy, stale, marker, unsent, capped>> /\ doing' = "wait"
      BY <1>10 DEF run_stop, tick_admin_lost, replace_run, stop_run
    <2> QED BY <1>1, <1>9, <2>1, Untouched
  <1>11. CASE on_boot \/ on_boot_raises
    <2>1. /\ UNCHANGED <<up, policy, stale, marker, unsent>>
          /\ capped' \subseteq capped /\ doing' \in {doing, "unlink"}
      BY <1>11 DEF on_boot, on_boot_raises, AfterCap
    <2> QED BY <1>1, <2>1, Untouched
  <1>12. CASE unlink
    <2>1. /\ up /\ doing = "unlink" /\ doing' = "idle" /\ stale' = NoTarget
          /\ UNCHANGED <<up, policy, capped>>
          /\ marker' = (IF policy = NoPolicy THEN NoTarget ELSE marker)
      BY <1>12 DEF unlink
    <2>2. ASSUME NEW t \in Target, Orphan(t)', ~Orphan(t) PROVE stale = t
      BY <1>2, <2>1, <2>2 DEF Orphan, Owned, Traced
    <2>3. Traced'
      BY <1>1, <2>1 DEF Traced
    <2> QED BY <2>1, <2>2, <2>3 DEF Loses, RevertedElsewhere
  <1>13. CASE \/ stopped /\ ~up'
              \/ Crash
              \/ terminate /\ ~stop_run(ReturnTo("exit"))
    <2>1. up /\ ~up' /\ UNCHANGED <<policy, stale, marker, capped>>
      BY <1>13 DEF stopped, Begin, Crash, terminate
    <2>2. ASSUME NEW t \in Target, Orphan(t)', ~Orphan(t)
          PROVE  EndsBeforeRevert(t) \/ EndsBeforeMarker(t)
      <3>1. marker # t /\ (stale = t \/ (policy # NoPolicy /\ policy.target = t))
        BY <2>1, <2>2 DEF Orphan, Owned
      <3> QED BY <1>1, <2>1, <3>1
              DEF EndsBeforeRevert, EndsBeforeMarker, InForceIsOnDisk
    <2> QED BY <1>1, <2>1, <2>2 DEF Traced, Loses
  <1>14. CASE stopped /\ up'
    <2>1. UNCHANGED <<up, policy, stale, marker, capped, unsent>>
      BY <1>14 DEF stopped, Begin
    <2>2. doing' \in {"idle", "policy"}
      BY <1>14 DEF stopped, Begin
    <2> QED BY <1>1, <2>1, <2>2, Untouched
  <1>15. CASE Launch
    <2>1. /\ ~up /\ up' /\ doing' = "idle" /\ policy' = NoPolicy /\ capped' = capped
          /\ stale' = marker' /\ (marker # Torn => marker' = marker)
      BY <1>15 DEF Launch
    <2>2. \A t \in Target : Orphan(t)' => Orphan(t)
      BY <1>2, <2>1 DEF Orphan, Owned
    <2> QED BY <1>1, <2>1, <2>2 DEF Traced
  <1>16. CASE \/ \E p \in Params : start_run(p)
              \/ \E p \in Parses \cup {Invalid} : ran_policy(p)
              \/ Refused \/ Outcome \/ AnswerLost
              \/ E2Changes \/ AdminChanges \/ UNCHANGED vars
    <2>1. /\ UNCHANGED <<up, policy, stale, marker, capped, unsent>>
          /\ doing' \in {doing, "idle", "policy"}
      BY <1>16 DEF start_run, ran_policy, Begin, Refused, Outcome, on_control,
                   expire_controls, AnswerLost, E2Changes, AdminChanges, vars
    <2> QED BY <1>1, <2>1, Untouched
  <1> QED BY <1>3, <1>4, <1>5, <1>6, <1>7, <1>8, <1>10, <1>11, <1>12, <1>13,
             <1>14, <1>15, <1>16
          DEF Next, MainStep, Command, run_stop, replace_run, terminate

LEMMA TracedInit == Init => Traced
  BY DEF Init, Traced, Shape, InForceIsOnDisk, Request

(* With any number of E2 nodes and restarts a cap loses its last trace in   *)
(* one of five ways only: the send of its revert raised (_send), the        *)
(* process died while writing the marker (_write_marker), it ended before   *)
(* it reverted a leftover whose marker it had overwritten, a policy for the *)
(* same UE moved to another node, where only the UE is compared             *)
(* (rc_control.py:238), or a leftover was reverted on another node than its *)
(* own (on_boot's fallback).  No lost answer, failed apply, stop, loss of   *)
(* the admin, or crash at any other point does it.                          *)
THEOREM OrphansHaveFiveCauses ==
    Spec => [][\A t \in Target : Orphan(t)' /\ ~Orphan(t) => Loses(t)]_vars
  <1>1. Traced /\ [Next]_vars => Traced'
    BY TracedStep
  <1>2. Traced /\ [Next]_vars =>
          [\A t \in Target : Orphan(t)' /\ ~Orphan(t) => Loses(t)]_vars
    BY TracedStep
  <1> QED BY <1>1, <1>2, TracedInit, PTL DEF Spec

(* With one E2 node a leftover is reverted where it was applied, and the    *)
(* first process has none.                                                  *)
FirstEnd ==
    /\ Traced
    /\ up /\ doing = "unlink" => stale \notin capped
    /\ up /\ closing.to = "exit" => ends < MaxEnds
    /\ ends = 0 => up /\ stale = NoTarget

LEMMA FirstEndStep ==
    ASSUME FirstEnd, [Next]_vars, MaxEnds <= 1, \A g, h \in Gnb : g = h
    PROVE  /\ FirstEnd'
           /\ \A t \in Target : Orphan(t)' /\ ~Orphan(t) =>
                RevertRaised(t) \/ EndsBeforeMarker(t)
  <1> USE ControlAssumption DEF Free, procVars, rcVars, portVars, envVars
  <1>1. /\ Traced /\ Traced' /\ Shape /\ Shape' /\ ends \in Nat
        /\ \A t \in Target : Orphan(t)' /\ ~Orphan(t) => Loses(t)
    BY TracedStep DEF FirstEnd, Traced, Shape
  <1>2. NoTarget \notin Target
    BY DEF Target, NoTarget
  <1>3. \A s, t \in Target : s[2] = t[2] => s = t
    BY DEF Target
  <1>4. ASSUME NEW t \in Target, Orphan(t)', ~Orphan(t)
        PROVE  RevertRaised(t) \/ EndsBeforeMarker(t)
    <2>1. ~EndsBeforeRevert(t)
      <3>1. SUFFICES ASSUME up, ~up', stale = t PROVE FALSE
        BY DEF EndsBeforeRevert
      <3>2. ends' = ends + 1 /\ ends < MaxEnds
        BY <3>1 DEF Next, Command, start_run, replace_run, ran_policy, run_stop,
                    stop_run, SendRevert, Begin, MainStep, Refused, on_policy,
                    open_marker, write_marker, send_apply, clear_marker, unlink,
                    stopped, tick_step, tick_admin_lost, on_boot,
                    on_boot_raises, Outcome, on_control, expire_controls,
                    AnswerLost, terminate, Crash, Launch, E2Changes,
                    AdminChanges, vars, FirstEnd
      <3>3. ends = 0
        BY <1>1, <3>2
      <3> QED BY <1>2, <3>1, <3>3 DEF FirstEnd
    <2>2. ~MovesNode(t)
      <3>1. SUFFICES ASSUME up, doing = "mark", policy.target # t,
                            policy.target[2] = t[2]
                     PROVE  FALSE
        BY DEF MovesNode
      <3>2. policy \in Policy
        BY <1>1, <3>1 DEF Traced, Shape
      <3>3. policy.target \in Target
        BY <3>2 DEF Policy
      <3> QED BY <1>3, <3>1, <3>3
    <2>3. ~RevertedElsewhere(t)
      <3>1. SUFFICES ASSUME up, doing = "unlink", stale = t PROVE FALSE
        BY DEF RevertedElsewhere
      <3>2. t \notin capped
        BY <3>1 DEF FirstEnd
      <3>3. t \in capped'
        BY <1>4 DEF Orphan
      <3>4. capped' = capped
        BY <3>1, <3>2, <3>3
           DEF Next, Command, start_run, replace_run, ran_policy, run_stop,
               stop_run, MainStep, Refused, on_policy, open_marker,
               write_marker, send_apply, clear_marker, unlink, stopped,
               tick_step, tick_admin_lost, on_boot, on_boot_raises, Outcome,
               on_control, expire_controls, AnswerLost, terminate, Crash,
               Launch, E2Changes, AdminChanges, vars
      <3> QED BY <3>2, <3>3, <3>4
    <2> QED BY <1>1, <1>4, <2>1, <2>2, <2>3 DEF Loses
  <1>5. (up /\ doing = "unlink" => stale \notin capped)'
    <2>1. CASE on_boot
      <3>1. PICK g \in StaleNode : capped' = capped \ {<<g, stale[2]>>}
        BY <2>1 DEF on_boot, AfterCap
      <3>2. stale \in Target /\ g \in Gnb /\ stale' = stale
        BY <1>1, <2>1, NodesAreGnb DEF on_boot, Shape
      <3>3. <<g, stale[2]>> = stale
        BY <3>2 DEF Target
      <3> QED BY <3>1, <3>2, <3>3
    <2>2. CASE ~on_boot
      <3>1. SUFFICES ASSUME up', doing' = "unlink" PROVE stale' \notin capped'
        OBVIOUS
      <3>2. up /\ doing = "unlink" /\ UNCHANGED <<stale, capped>>
        BY <2>2, <3>1
           DEF Next, Command, start_run, replace_run, ran_policy, run_stop,
               stop_run, SendRevert, Begin, MainStep, Refused, on_policy,
               open_marker, write_marker, send_apply, clear_marker, unlink,
               stopped, tick_step, tick_admin_lost, on_boot_raises, Outcome,
               on_control, expire_controls, AnswerLost, terminate, Crash,
               Launch, E2Changes, AdminChanges, vars
      <3> QED BY <3>2 DEF FirstEnd
    <2> QED BY <2>1, <2>2
  <1>6. /\ up' /\ closing'.to = "exit" => ends' < MaxEnds
        /\ ends' = 0 => up' /\ stale' = NoTarget
    <2>1. CASE UNCHANGED <<up, ends, closing, stale>>
      BY <2>1 DEF FirstEnd
    <2>2. CASE \/ run_stop
               \/ \E p \in Params : replace_run(p)
               \/ terminate /\ stop_run(ReturnTo("exit"))
      <3>1. UNCHANGED <<up, ends, stale>>
        BY <2>2 DEF run_stop, replace_run, terminate, stop_run, SendRevert
      <3>2. CASE run_stop
        BY <3>1, <3>2 DEF run_stop, stop_run, ReturnTo, FirstEnd
      <3>3. CASE \E p \in Params : replace_run(p)
        BY <3>1, <3>3 DEF replace_run, stop_run, FirstEnd
      <3>4. CASE terminate
        BY <3>1, <3>4 DEF terminate, FirstEnd
      <3> QED BY <2>2, <3>2, <3>3, <3>4
    <2>3. CASE \/ stopped \/ Crash
               \/ terminate /\ ~stop_run(ReturnTo("exit"))
      BY <1>1, <2>3 DEF stopped, Begin, Crash, terminate, FirstEnd, NotClosing, ReturnTo
    <2>4. CASE Launch \/ unlink
      BY <2>4 DEF Launch, unlink, FirstEnd, NotClosing, ReturnTo
    <2>5. CASE \/ \E p \in Params : start_run(p)
               \/ \E p \in Parses \cup {Invalid} : ran_policy(p)
               \/ Refused \/ on_policy \/ open_marker \/ write_marker
               \/ send_apply \/ clear_marker
               \/ tick_step \/ tick_admin_lost \/ on_boot \/ on_boot_raises
               \/ Outcome \/ AnswerLost
               \/ E2Changes \/ AdminChanges \/ UNCHANGED vars
      BY <2>1, <2>5
         DEF start_run, ran_policy, Begin, Refused, on_policy, open_marker,
             write_marker, send_apply, clear_marker, tick_step,
             tick_admin_lost, SendRevert, on_boot, on_boot_raises, Outcome,
             on_control, expire_controls, AnswerLost, E2Changes, AdminChanges,
             vars
    <2>6. CASE terminate
      BY <2>2, <2>3, <2>6
    <2> QED BY <2>2, <2>3, <2>4, <2>5, <2>6 DEF Next, Command, MainStep
  <1> QED BY <1>1, <1>4, <1>5, <1>6 DEF FirstEnd

(* A policy outlives its run without a trace only where nothing was left to *)
(* undo it with: with one E2 node and a process that ends at most once, a   *)
(* cap loses its last trace only if the send of its revert raised or the    *)
(* process died within the write of the marker.                             *)
THEOREM CapSlipsOnlySoHolds ==
    ASSUME MaxEnds <= 1, \A g, h \in Gnb : g = h
    PROVE  Spec => CapSlipsOnlySo
  <1>1. Init => FirstEnd
    BY TracedInit DEF Init, FirstEnd, NotClosing, ReturnTo
  <1>2. FirstEnd /\ [Next]_vars => FirstEnd'
    BY FirstEndStep
  <1>3. FirstEnd /\ [Next]_vars =>
          [\A t \in Target : Orphan(t)' /\ ~Orphan(t) =>
             RevertRaised(t) \/ EndsBeforeMarker(t)]_vars
    BY FirstEndStep
  <1> QED BY <1>1, <1>2, <1>3, PTL DEF Spec, CapSlipsOnlySo
=============================================================================
