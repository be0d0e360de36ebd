------------------------- MODULE ControlPlaneProofs -------------------------
(***************************************************************************)
(* Theorems about the admin service and its nodes together, for every      *)
(* number of runs, nodes, zones and process ends, and every capacity of    *)
(* the queues: the composition is a behaviour of Orchestrator, so all that *)
(* is proved of the admin alone holds of it among real nodes; a node       *)
(* records only runs of its own zone and profile; and a report is filed    *)
(* under a run its node recorded, for the nodes that name their last run.  *)
(***************************************************************************)
EXTENDS ControlPlane, OrchestratorProofs, SequenceTheorems

-----------------------------------------------------------------------------
(* The inductive invariant.                                                *)

(* The runs a node may record: those of its zone that it serves.           *)
Meant(n) ==
    {r \in Run : /\ state[r] # Absent
                 /\ kind[r].zone = NodeZone[n]
                 /\ serves(n, kind[r].profile)}

(* What may be on its way to a node.                                       *)
DownFrames(n) ==
    {Frame("start", r) : r \in Meant(n)}
      \cup {Frame("stop", r) : r \in Run}
      \cup {Frame("welcome", r) : r \in Meant(n) \cup {NoRun}}

UpTypes == {"status", "goodbye"}

(* What may be on its way from it: a report only of a run it recorded,     *)
(* unless it names none once stopped.                                      *)
UpFrames(n) ==
    {f \in [type : UpTypes, run : Named, running : BOOLEAN, report : BOOLEAN] :
        f.report => n \in forgets \/ f.run \in recorded[n]}

NodeOK(n) ==
    /\ node[n].run \in Named
    /\ node[n].recording => node[n].run \in recorded[n]
    /\ recorded[n] \subseteq Meant(n)

FramesOK(n) ==
    /\ down[n] \in Seq(DownFrames(n))
    /\ up[n] \in Seq(UpFrames(n))

Shapes ==
    /\ NodesTypeOK
    /\ DOMAIN down = Node
    /\ DOMAIN up = Node
    /\ DOMAIN recorded = Node

(* The targets a suspended start has left are of the run's zone.           *)
TargetsMeant == \A t \in tasks : t.op = "start" => \A n \in t.left : t.run \in Meant(n)

(* A report is filed under a run its node recorded, if the node keeps      *)
(* naming its last run.                                                    *)
NamedReportsBelong ==
    \A n \in Node \ forgets : \A r \in Run : n \in reports[r] => r \in recorded[n]

CPInv ==
    /\ TypeOK
    /\ Shapes
    /\ \A n \in Node : NodeOK(n) /\ FramesOK(n)
    /\ TargetsMeant
    /\ NamedReportsBelong

-----------------------------------------------------------------------------
(* What a run is meant for stays so.                                       *)

Grows ==
    /\ Named \subseteq Named'
    /\ \A n \in Node : Meant(n) \subseteq Meant(n)'

(* Such a step is a step of the admin.                                     *)
LEMMA LivesIsNext == Lives => [Next]_vars
  BY DEF Lives, Next

(* While the admin lives, no run is forgotten and none changes its zone.   *)
LEMMA LivesGrows ==
    ASSUME TypeOK, Lives
    PROVE  Grows
  <1>1. \A r \in Run : state[r] # Absent => state'[r] # Absent /\ kind'[r] = kind[r]
    <2> SUFFICES ASSUME NEW q \in Run, state[q] # Absent
                 PROVE  state'[q] # Absent /\ kind'[q] = kind[q]
      OBVIOUS
    <2>0. "draft" # Absent /\ "starting" # Absent /\ "removed" # Absent
          /\ \A s \in OCCUPIES_SLOT \cup {"stopped", "failed"} : s # Absent
      BY DEF Absent, OCCUPIES_SLOT
    <2>1. ASSUME NEW r \in Run, NEW k \in RunKinds, Created(r, k)
          PROVE  state'[q] # Absent /\ kind'[q] = kind[q]
      BY <2>1, <2>0 DEF Created, TypeOK
    <2>2. ASSUME NEW r \in Run, Started(r) PROVE state'[q] # Absent /\ kind'[q] = kind[q]
      BY <2>2, <2>0 DEF Started, TypeOK
    <2>3. ASSUME NEW r \in Run, Removed(r) PROVE state'[q] # Absent /\ kind'[q] = kind[q]
      BY <2>3, <2>0 DEF Removed, TypeOK
    <2>4. ASSUME NEW r \in Run, NEW s, Moved(r, s)
          PROVE  state'[q] # Absent /\ kind'[q] = kind[q]
      BY <2>4, <2>0 DEF Moved, TypeOK
    <2> QED BY <2>1, <2>2, <2>3, <2>4, LivingStep
  <1> QED BY <1>1 DEF Grows, Named, Meant

(* What may be on its way only grows with it.                              *)
LEMMA FramesGrow ==
    ASSUME Grows, NEW n \in Node, forgets' = forgets, recorded[n] \subseteq recorded'[n]
    PROVE  /\ \A s \in Seq(DownFrames(n)) : s \in Seq(DownFrames(n)')
           /\ \A s \in Seq(UpFrames(n)) : s \in Seq(UpFrames(n)')
  <1>1. DownFrames(n) \subseteq DownFrames(n)'
    BY DEF Grows, DownFrames
  <1>2. UpFrames(n) \subseteq UpFrames(n)'
    BY DEF Grows, UpFrames
  <1> QED BY <1>1, <1>2, SeqMonotonic

-----------------------------------------------------------------------------
(* A step of the composition is a step of the admin, or none of its.       *)

(* What the head of an outbound queue may be, and what is left behind it.  *)
LEMMA HeadOfUp ==
    ASSUME CPInv, NEW n \in Node, up[n] # <<>>
    PROVE  /\ Head(up[n]).run \in Named
           /\ Head(up[n]).running \in BOOLEAN
           /\ Head(up[n]).report \in BOOLEAN
           /\ Head(up[n]).report => n \in forgets \/ Head(up[n]).run \in recorded[n]
           /\ Tail(up[n]) \in Seq(UpFrames(n))
  <1>1. up[n] \in Seq(UpFrames(n))
    BY DEF CPInv, FramesOK
  <1>2. Head(up[n]) \in UpFrames(n) /\ Tail(up[n]) \in Seq(UpFrames(n))
    BY <1>1, HeadTailProperties
  <1> QED BY <1>2 DEF UpFrames

(* The same of what waits at a node.                                       *)
LEMMA HeadOfDown ==
    ASSUME CPInv, NEW n \in Node, down[n] # <<>>
    PROVE  /\ Head(down[n]) \in DownFrames(n)
           /\ Tail(down[n]) \in Seq(DownFrames(n))
  <1>1. down[n] \in Seq(DownFrames(n))
    BY DEF CPInv, FramesOK
  <1> QED BY <1>1, HeadTailProperties

(* Whatever the nodes and the network do, the admin sees a frame it might  *)
(* have been sent by anybody, or nothing.                                  *)
LEMMA ComposedLives ==
    ASSUME CPInv, [NextAll]_allVars
    PROVE  Lives
  <1>1. CASE AdminStep
    BY <1>1 DEF AdminStep, Create, Remove, Supervise, Start, OperatorStop, AutoStop, Continue,
                Lives, Operator, Supervisor, Broadcasts, Clock
  <1>2. CASE NodeStep
    <2> PICK n \in Node :
          \/ HandleStatus(n) \/ Connect(n) \/ Attach(n) \/ Break(n) \/ Notice(n) \/ Reap(n)
          \/ _drain_admin(n) \/ _report_status(n)
          \/ HandleGoodbye(n) \/ finish(n) \/ WelcomeRaises(n) \/ Exit(n)
      BY <1>2 DEF NodeStep
    <2>1. CASE HandleStatus(n)
      BY <2>1, HeadOfUp DEF HandleStatus, Lives, Frames
    <2>2. CASE HandleGoodbye(n)
      BY <2>2, HeadOfUp DEF HandleGoodbye, Lives, Frames
    <2>3. CASE Connect(n)
      <3>1. node[n].run \in Named /\ node[n].recording \in BOOLEAN
        BY DEF CPInv, Shapes, NodesTypeOK, NodeOK
      <3> QED BY <2>3, <3>1 DEF Connect, Lives, Frames
    <2>4. CASE Attach(n)
      BY <2>4 DEF Attach, Lives, Frames
    <2>5. CASE Notice(n)
      BY <2>5 DEF Notice, Lives, Frames, Clock
    <2>6. CASE Reap(n)
      BY <2>6 DEF Reap, Lives, Frames
    <2>7. CASE Break(n) \/ _drain_admin(n) \/ _report_status(n)
      BY <2>7 DEF Break, _drain_admin, _report_status, Lives
    <2>8. CASE finish(n) \/ WelcomeRaises(n) \/ Exit(n)
      BY <2>8 DEF finish, WelcomeRaises, Finish, Exit, Lives
    <2> QED BY <2>1, <2>2, <2>3, <2>4, <2>5, <2>6, <2>7, <2>8
  <1>3. CASE UNCHANGED allVars
    BY <1>3 DEF allVars, Lives
  <1> QED BY <1>1, <1>2, <1>3 DEF NextAll

-----------------------------------------------------------------------------
(* Suspended starts.                                                       *)

(* A start begins with targets of its zone, and its targets only shrink.   *)
LEMMA TargetsStep ==
    ASSUME TypeOK, TargetsMeant, Lives, Grows
    PROVE  TargetsMeant'
  <1>1. ASSUME tasks' \subseteq tasks PROVE TargetsMeant'
    BY <1>1 DEF TargetsMeant, TypeOK, Grows
  <1>2. ASSUME NEW t, tasks' = tasks \cup {t}, t.op # "start" PROVE TargetsMeant'
    BY <1>2 DEF TargetsMeant, TypeOK, Grows
  <1>3. ASSUME NEW r, NEW n, NEW by, Stop(r, n, by) PROVE TargetsMeant'
    <2>1. CASE n = NoNode
      BY <1>3, <2>1, <1>1 DEF Stop, Broadcast
    <2>2. CASE n # NoNode
      <3> PICK op \in {"stop", "stop again"} :
            Broadcast(op, r, Members(r), n, by, advance(state[r], "stop"))
        BY <1>3 DEF Stop
      <3>1. tasks' = tasks \cup {Task(op, r, Members(r) \ {n}, by)}
        BY <2>2 DEF Broadcast
      <3>2. Task(op, r, Members(r) \ {n}, by).op # "start"
        BY DEF Task
      <3> QED BY <3>1, <3>2, <1>2
    <2> QED BY <2>1, <2>2
  <1>4. ASSUME NEW r \in Run, NEW n, act_start(r, n) PROVE TargetsMeant'
    <2>1. CASE n = NoNode
      BY <1>4, <2>1, <1>1 DEF act_start, Broadcast
    <2>2. CASE n # NoNode
      <3>1. tasks' = tasks \cup {Task("start", r, InZone(r) \ {n}, "operator")}
        BY <1>4, <2>2 DEF act_start, Broadcast
      <3>2. state'[r] # Absent /\ kind' = kind
        BY <1>4, ActionsInTable DEF act_start, MayAct, TypeOK, Absent
      <3>3. \A m \in InZone(r) : r \in Meant(m)'
        BY <3>2 DEF InZone, Meant, serves
      <3> QED BY <3>1, <3>3 DEF TargetsMeant, TypeOK, Grows, Task
    <2> QED BY <2>1, <2>2
  <1>5. CASE Operator
    <2> PICK r \in Run :
          \/ \E k \in RunKinds : create_run(r, k)
          \/ act_start_refused(r) \/ act_remove(r)
          \/ \E n \in Node \cup {NoNode} : act_start(r, n) \/ act_stop(r, n)
      BY <1>5 DEF Operator
    <2>1. ASSUME NEW k \in RunKinds, create_run(r, k) PROVE TargetsMeant'
      BY <2>1, <1>1 DEF create_run
    <2>2. CASE act_start_refused(r) \/ act_remove(r)
      BY <2>2, <1>1 DEF act_start_refused, act_remove
    <2> QED BY <2>1, <2>2, <1>3, <1>4 DEF act_stop
  <1>6. ASSUME NEW t \in tasks, NEW n, Resume(t, n) PROVE TargetsMeant'
    <2>1. CASE n = NoNode
      BY <1>6, <2>1, <1>1 DEF Resume
    <2>2. CASE n # NoNode
      <3>1. tasks' = (tasks \ {t}) \cup {Task(t.op, t.run, t.left \ {n}, t.by)}
        BY <1>6, <2>2 DEF Resume
      <3>2. t.left \subseteq Node
        BY DEF TypeOK
      <3> QED BY <3>1, <3>2 DEF TargetsMeant, TypeOK, Grows, Task
    <2> QED BY <2>1, <2>2
  <1>7. CASE Frames
    BY <1>7, <1>1 DEF Frames, on_hello, on_status, on_goodbye, attach_node, touch,
                      detach_current, detach_stale
  <1>8. CASE Clock
    BY <1>8, <1>1 DEF Clock, OfflineTimeout, StartTimeout, StopTimeout
  <1>9. CASE Supervisor
    <2> PICK r \in Run : _supervise_run(r) \/ \E n \in Node \cup {NoNode} : _auto_stop(r, n)
      BY <1>9 DEF Supervisor
    <2>1. CASE _supervise_run(r)
      <3>1. tasks' = tasks \/ tasks' = tasks \cup {Task("fail", r, Members(r), "supervisor")}
        BY <2>1 DEF _supervise_run
      <3>2. Task("fail", r, Members(r), "supervisor").op # "start"
        BY DEF Task
      <3> QED BY <3>1, <3>2, <1>1, <1>2
    <2> QED BY <2>1, <1>3 DEF _auto_stop
  <1>10. CASE Journal \/ UNCHANGED vars
    BY <1>10, <1>1 DEF Journal, vars
  <1> QED BY <1>5, <1>6, <1>7, <1>8, <1>9, <1>10 DEF Lives, Broadcasts

-----------------------------------------------------------------------------
(* What the nodes hold, step by step.                                      *)

NodesOK == \A m \in Node : NodeOK(m) /\ FramesOK(m)

(* A node that did not move is as it was.                                  *)
LEMMA Unmoved ==
    ASSUME CPInv, Grows, NEW m \in Node, forgets' = forgets,
           node'[m] = node[m], recorded'[m] = recorded[m]
    PROVE  /\ NodeOK(m)'
           /\ down'[m] = down[m] => down'[m] \in Seq(DownFrames(m)')
           /\ up'[m] = up[m] => up'[m] \in Seq(UpFrames(m)')
  <1>1. NodeOK(m) /\ down[m] \in Seq(DownFrames(m)) /\ up[m] \in Seq(UpFrames(m))
    BY DEF CPInv, FramesOK
  <1>2. NodeOK(m)'
    BY <1>1 DEF NodeOK, Grows
  <1> QED BY <1>1, <1>2, FramesGrow

(* A step of the admin alone, but for a frame it writes to one node.       *)
LEMMA DeliverKeeps ==
    ASSUME CPInv, Grows, NEW n, NEW frame, UNCHANGED <<node, link, up, recorded, lifeVars>>,
           Deliver(n, frame), n \in Node => frame \in DownFrames(n)'
    PROVE  Shapes' /\ NodesOK'
  <1>1. Shapes'
    BY DEF CPInv, Shapes, NodesTypeOK, Deliver, lifeVars
  <1>2. ASSUME NEW m \in Node PROVE NodeOK(m)' /\ FramesOK(m)'
    <2>1. /\ NodeOK(m)' /\ up'[m] \in Seq(UpFrames(m)')
          /\ down[m] \in Seq(DownFrames(m)')
      <3>1. down[m] \in Seq(DownFrames(m))
        BY DEF CPInv, FramesOK
      <3> QED BY <3>1, Unmoved, FramesGrow DEF lifeVars
    <2>2. CASE down'[m] = down[m]
      BY <2>1, <2>2 DEF FramesOK
    <2>3. CASE down'[m] # down[m]
      <3>1. m = n /\ down'[m] = Append(down[m], frame)
        BY <2>3 DEF Deliver, CPInv, Shapes
      <3>2. down'[m] \in Seq(DownFrames(m)')
        BY <2>1, <3>1
      <3> QED BY <2>1, <3>2 DEF FramesOK
    <2> QED BY <2>2, <2>3
  <1> QED BY <1>1, <1>2 DEF NodesOK

(* A step of the admin alone.                                              *)
LEMMA AloneKeeps ==
    ASSUME CPInv, Grows, UNCHANGED nodeVars
    PROVE  Shapes' /\ NodesOK'
  <1>1. Shapes'
    BY DEF CPInv, Shapes, NodesTypeOK, nodeVars, lifeVars
  <1> QED BY <1>1, Unmoved DEF NodesOK, FramesOK, nodeVars, lifeVars

(* A stop goes to anybody.                                                 *)
LEMMA StopIsMeant ==
    ASSUME NEW n, NEW r \in Run
    PROVE  Frame("stop", r) \in DownFrames(n)'
  BY DEF DownFrames, Frame, Run

(* The targets a start begins with are of the run's zone.                  *)
LEMMA FirstTargets ==
    ASSUME TypeOK, NEW r \in Run, NEW n \in Node, act_start(r, n)
    PROVE  r \in Meant(n)'
  <1>1. state'[r] # Absent /\ kind' = kind
    BY ActionsInTable DEF act_start, MayAct, TypeOK, Absent
  <1>2. n \in InZone(r)
    BY ConstantsAssumption DEF act_start, Broadcast, First
  <1> QED BY <1>1, <1>2 DEF InZone, Meant, serves

(* The steps of the admin: every frame it writes is meant for its node.    *)
LEMMA AdminKeeps ==
    ASSUME CPInv, Grows, AdminStep
    PROVE  Shapes' /\ NodesOK'
  <1>1. ASSUME NEW r \in Run, NEW n, Start(r, n) PROVE Shapes' /\ NodesOK'
    <2>1. n \in Node => Frame("start", r) \in DownFrames(n)'
      BY <1>1, FirstTargets DEF Start, CPInv, DownFrames
    <2> QED BY <1>1, <2>1, DeliverKeeps DEF Start
  <1>2. ASSUME NEW r \in Run, NEW n, OperatorStop(r, n) \/ AutoStop(r, n)
        PROVE  Shapes' /\ NodesOK'
    BY <1>2, StopIsMeant, DeliverKeeps DEF OperatorStop, AutoStop
  <1>3. ASSUME NEW t \in tasks, NEW n, Continue(t, n) PROVE Shapes' /\ NodesOK'
    <2>1. t.run \in Run
      BY DEF CPInv, TypeOK
    <2>2. CASE t.op = "start"
      <3>1. n \in Node => t.run \in Meant(n)
        BY <1>3, <2>2, ConstantsAssumption DEF Continue, Resume, First, CPInv, TargetsMeant
      <3>2. n \in Node => Frame("start", t.run) \in DownFrames(n)'
        BY <3>1 DEF Grows, DownFrames
      <3> QED BY <1>3, <2>2, <3>2, DeliverKeeps DEF Continue
    <2>3. CASE t.op # "start"
      BY <1>3, <2>1, <2>3, StopIsMeant, DeliverKeeps DEF Continue
    <2> QED BY <2>2, <2>3
  <1>4. CASE UNCHANGED nodeVars
    BY <1>4, AloneKeeps
  <1> QED BY <1>1, <1>2, <1>3, <1>4 DEF AdminStep, Create, Remove, Supervise

(* A step of one node leaves the others alone.                             *)
SameNode(m) ==
    node'[m] = node[m] /\ recorded'[m] = recorded[m] /\ down'[m] = down[m] /\ up'[m] = up[m]

LEMMA OneNodeMoves ==
    ASSUME CPInv, Grows, NEW n \in Node, forgets' = forgets,
           NodeOK(n)', FramesOK(n)', \A m \in Node \ {n} : SameNode(m)
    PROVE  NodesOK'
  BY Unmoved DEF NodesOK, FramesOK, SameNode

(* What is queued may still be so after a step that records more.          *)
LEMMA QueuesStay ==
    ASSUME CPInv, Grows, NEW n \in Node, forgets' = forgets, recorded[n] \subseteq recorded'[n]
    PROVE  /\ up[n] \in Seq(UpFrames(n)')
           /\ down[n] \in Seq(DownFrames(n)')
           /\ down[n] # <<>> => Tail(down[n]) \in Seq(DownFrames(n)')
  <1>1. /\ up[n] \in Seq(UpFrames(n)) /\ down[n] \in Seq(DownFrames(n))
        /\ down[n] # <<>> => Tail(down[n]) \in Seq(DownFrames(n))
    BY HeadOfDown DEF CPInv, FramesOK
  <1> QED BY <1>1, FramesGrow

(* The client's queue takes a status or drops it.                          *)
LEMMA Published ==
    ASSUME CPInv, Grows, NEW n \in Node, forgets' = forgets, recorded[n] \subseteq recorded'[n],
           NEW s, publish_status(n, s), s \in UpFrames(n)'
    PROVE  /\ up'[n] \in Seq(UpFrames(n)')
           /\ DOMAIN up' = Node
           /\ \A m \in Node \ {n} : up'[m] = up[m]
  <1>1. up[n] \in Seq(UpFrames(n)') /\ DOMAIN up = Node
    BY QueuesStay DEF CPInv, Shapes
  <1>2. up'[n] = up[n] \/ up'[n] = Append(up[n], s)
    BY <1>1 DEF publish_status
  <1>3. up'[n] \in Seq(UpFrames(n)')
    BY <1>1, <1>2
  <1> QED BY <1>1, <1>3 DEF publish_status

(* A status or a goodbye that reports nothing, or a run its node recorded. *)
LEMMA StatusFrame ==
    ASSUME NEW n, NEW after, after.run \in Named', after.recording \in BOOLEAN,
           NEW report \in BOOLEAN, report => n \in forgets' \/ after.run \in recorded'[n]
    PROVE  Status(after, report) \in UpFrames(n)' /\ Goodbye(after, report) \in UpFrames(n)'
  BY DEF Status, Goodbye, UpFrames, UpTypes

(* What a frame leaves the node in: idle, or recording what it should.     *)
LEMMA AppliedRange ==
    ASSUME CPInv, NEW n \in Node, down[n] # <<>>,
           NEW after \in Applied(n, Head(down[n]))
    PROVE  \/ after = node[n]
           \/ \E r \in Meant(n) : after = start_run(r) \/ after = Idle(r)
           \/ after = stop_run(n)
  <1>1. Head(down[n]) \in DownFrames(n)
    BY HeadOfDown
  <1>2. CASE \E r \in Meant(n) : Head(down[n]) = Frame("start", r)
    BY <1>2 DEF Frame, Applied, StartRaised
  <1>3. CASE \E r \in Run : Head(down[n]) = Frame("stop", r)
    BY <1>3 DEF Frame, Applied
  <1>4. CASE \E r \in Meant(n) \cup {NoRun} : Head(down[n]) = Frame("welcome", r)
    BY <1>4 DEF Frame, Applied, Joins
  <1> QED BY <1>1, <1>2, <1>3, <1>4 DEF DownFrames

(* The states a node moves to keep what is asked of it.                    *)
LEMMA StatesOfNode ==
    ASSUME CPInv, Grows, NEW n \in Node
    PROVE  /\ stop_run(n).run \in Named' /\ stop_run(n).recording = FALSE
           /\ \A r \in Meant(n) : /\ start_run(r).run = r /\ start_run(r).recording = TRUE
                                  /\ Idle(r).run = r /\ Idle(r).recording = FALSE
                                  /\ r \in Named' /\ r \in Run
           /\ NoRun \in Named'
           /\ node[n].run \in Named' /\ node[n].recording \in BOOLEAN
           /\ Named' \subseteq Run \cup {NoRun}
  <1>1. node[n].run \in Named /\ node[n].recording \in BOOLEAN /\ Named \subseteq Named'
    BY DEF CPInv, NodeOK, Shapes, NodesTypeOK, Grows
  <1>2. Meant(n) \subseteq Named
    BY DEF Meant, Named
  <1>3. NoRun \in Named' /\ Named' \subseteq Run \cup {NoRun}
    BY DEF Named
  <1> QED BY <1>1, <1>2, <1>3 DEF stop_run, start_run, Idle, Meant

(* _drain_admin: the node records only what the frame may ask of it, and   *)
(* the status that follows reports only what it recorded.                  *)
LEMMA DrainKeeps ==
    ASSUME CPInv, Grows, NEW n \in Node, _drain_admin(n)
    PROVE  Shapes' /\ NodesOK'
  <1> PICK after \in Applied(n, Head(down[n])) :
        /\ node' = [node EXCEPT ![n] = after]
        /\ publish_status(n, Status(after, Reports(n, Head(down[n]))))
        /\ recorded' = [recorded EXCEPT ![n] = IF after.recording THEN @ \cup {after.run} ELSE @]
    BY DEF _drain_admin
  <1>0. /\ down[n] # <<>> /\ down' = [down EXCEPT ![n] = Tail(@)]
        /\ UNCHANGED <<vars, link, lifeVars>> /\ forgets' = forgets
    BY DEF _drain_admin, lifeVars
  <1>1. /\ after.run \in Named' /\ after.recording \in BOOLEAN /\ Named' \subseteq Run \cup {NoRun}
        /\ after.recording => after.run \in Meant(n) /\ after.run \in Run
        /\ after \in [run : Run \cup {NoRun}, recording : BOOLEAN]
    <2>1. node[n].recording => node[n].run \in Meant(n) /\ node[n].run \in Run
      BY DEF CPInv, NodeOK, Meant
    <2>2. node[n] \in [run : Run \cup {NoRun}, recording : BOOLEAN]
      BY DEF CPInv, Shapes, NodesTypeOK
    <2>3. stop_run(n) \in [run : Run \cup {NoRun}, recording : BOOLEAN]
      BY StatesOfNode, <2>2 DEF stop_run, Idle
    <2>4. \A r \in Run : {start_run(r), Idle(r)} \subseteq [run : Run \cup {NoRun}, recording : BOOLEAN]
      BY DEF start_run, Idle
    <2>5. CASE after = node[n]
      BY <2>1, <2>2, <2>5, StatesOfNode
    <2>6. ASSUME NEW r \in Meant(n), after = start_run(r) \/ after = Idle(r)
          PROVE  /\ after.run = r /\ after.run \in Named' /\ after.run \in Run
                 /\ after.recording \in BOOLEAN
                 /\ after \in [run : Run \cup {NoRun}, recording : BOOLEAN]
      <3>1. r \in Run /\ r \in Named' /\ after.run = r
        BY <2>6, StatesOfNode
      <3>2. after \in [run : Run \cup {NoRun}, recording : BOOLEAN]
        BY <2>4, <2>6, <3>1
      <3> QED BY <3>1, <3>2
    <2>7. CASE after = stop_run(n)
      BY <2>3, <2>7, StatesOfNode
    <2>8. Named' \subseteq Run \cup {NoRun} /\ Meant(n) \subseteq Run
      BY StatesOfNode
    <2> QED BY <1>0, <2>5, <2>6, <2>7, <2>8, AppliedRange
  <1>2. recorded'[n] = IF after.recording THEN recorded[n] \cup {after.run} ELSE recorded[n]
    BY DEF CPInv, Shapes
  <1>3. /\ recorded[n] \subseteq recorded'[n] /\ recorded[n] \subseteq Meant(n)
        /\ recorded'[n] \subseteq Meant(n)' /\ recorded'[n] \subseteq Run
    <2>1. recorded[n] \subseteq Meant(n) /\ Meant(n) \subseteq Meant(n)' /\ Meant(n) \subseteq Run
      BY DEF CPInv, NodeOK, Grows, Meant
    <2> QED BY <1>1, <1>2, <2>1
  <1>4. node'[n] = after
    BY DEF CPInv, Shapes, NodesTypeOK
  <1>5. NodeOK(n)'
    BY <1>1, <1>2, <1>3, <1>4 DEF NodeOK
  <1>6. Reports(n, Head(down[n])) => n \in forgets' \/ after.run \in recorded'[n]
    <2> SUFFICES ASSUME Head(down[n]).type = "stop", node[n].recording, n \notin forgets
                 PROVE  after.run \in recorded'[n]
      BY <1>0 DEF Reports
    <2>1. after = stop_run(n)
      BY DEF Applied
    <2>2. after.run = node[n].run /\ node[n].run \in recorded[n]
      BY <2>1 DEF stop_run, Idle, CPInv, NodeOK
    <2> QED BY <2>2, <1>3
  <1>7. Status(after, Reports(n, Head(down[n]))) \in UpFrames(n)'
    <2>1. Reports(n, Head(down[n])) \in BOOLEAN
      BY StatesOfNode DEF Reports
    <2> QED BY <2>1, <1>1, <1>6, StatusFrame
  <1>8. /\ up'[n] \in Seq(UpFrames(n)') /\ DOMAIN up' = Node
        /\ \A m \in Node \ {n} : up'[m] = up[m]
    BY <1>0, <1>3, <1>7, Published
  <1>9. down'[n] \in Seq(DownFrames(n)') /\ DOMAIN down' = Node
    BY <1>0, <1>3, QueuesStay DEF CPInv, Shapes
  <1>10. \A m \in Node \ {n} : SameNode(m)
    BY <1>0, <1>8 DEF SameNode, CPInv, Shapes, NodesTypeOK
  <1>11. Shapes'
    BY <1>0, <1>1, <1>2, <1>3, <1>8, <1>9 DEF CPInv, Shapes, NodesTypeOK, lifeVars
  <1> QED BY <1>0, <1>5, <1>8, <1>9, <1>10, <1>11, OneNodeMoves DEF FramesOK

(* _report_status carries no report.                                       *)
LEMMA ReportKeeps ==
    ASSUME CPInv, Grows, NEW n \in Node, _report_status(n)
    PROVE  Shapes' /\ NodesOK'
  <1>0. /\ publish_status(n, Status(node[n], FALSE))
        /\ UNCHANGED <<node, link, down, recorded, lifeVars>> /\ forgets' = forgets
    BY DEF _report_status, lifeVars
  <1>1. Status(node[n], FALSE) \in UpFrames(n)'
    BY StatesOfNode, StatusFrame
  <1>2. /\ up'[n] \in Seq(UpFrames(n)') /\ DOMAIN up' = Node
        /\ \A m \in Node \ {n} : up'[m] = up[m]
    BY <1>0, <1>1, Published
  <1>3. NodeOK(n)' /\ down'[n] \in Seq(DownFrames(n)')
    BY <1>0, Unmoved
  <1>4. Shapes'
    BY <1>0, <1>2 DEF CPInv, Shapes, NodesTypeOK, lifeVars
  <1>5. \A m \in Node \ {n} : SameNode(m)
    BY <1>0, <1>2 DEF SameNode
  <1> QED BY <1>0, <1>2, <1>3, <1>4, <1>5, OneNodeMoves DEF FramesOK

(* finish, from any state a process can be told to exit in.                *)
LEMMA FinishKeeps ==
    ASSUME CPInv, Grows, NEW n \in Node, NEW from, Finish(n, from),
           from.run \in Named, from.recording \in BOOLEAN,
           from.recording => from.run \in Meant(n),
           DOMAIN down' = Node, down'[n] \in Seq(DownFrames(n)'),
           \A m \in Node \ {n} : down'[m] = down[m]
    PROVE  Shapes' /\ NodesOK'
  <1> DEFINE last == Idle(IF n \in forgets THEN NoRun ELSE from.run)
  <1>0. /\ node' = [node EXCEPT ![n] = last]
        /\ publish_status(n, Goodbye(last, from.recording))
        /\ recorded' = [recorded EXCEPT ![n] = IF from.recording THEN @ \cup {from.run} ELSE @]
        /\ leaving' = leaving \cup {n} /\ UNCHANGED <<link, exits, forgets>>
    BY DEF Finish
  <1>1. /\ last.run \in Named' /\ last.run \in Run \cup {NoRun} /\ last.recording = FALSE
        /\ last.recording \in BOOLEAN
        /\ last \in [run : Run \cup {NoRun}, recording : BOOLEAN]
        /\ n \notin forgets => last.run = from.run
    <2>1. from.run \in Named' /\ NoRun \in Named' /\ Named' \subseteq Run \cup {NoRun}
      BY StatesOfNode DEF Grows
    <2> QED BY <2>1 DEF Idle
  <1>2. recorded'[n] = IF from.recording THEN recorded[n] \cup {from.run} ELSE recorded[n]
    BY <1>0 DEF CPInv, Shapes
  <1>3. /\ recorded[n] \subseteq recorded'[n]
        /\ recorded'[n] \subseteq Meant(n)' /\ recorded'[n] \subseteq Run
    <2>1. recorded[n] \subseteq Meant(n) /\ Meant(n) \subseteq Meant(n)' /\ Meant(n) \subseteq Run
      BY DEF CPInv, NodeOK, Grows, Meant
    <2> QED BY <1>2, <2>1
  <1>4. node'[n] = last
    BY <1>0 DEF CPInv, Shapes, NodesTypeOK
  <1>5. NodeOK(n)'
    BY <1>1, <1>3, <1>4 DEF NodeOK
  <1>6. Goodbye(last, from.recording) \in UpFrames(n)'
    <2>1. from.recording => n \in forgets' \/ last.run \in recorded'[n]
      BY <1>0, <1>1, <1>2
    <2> HIDE DEF last
    <2> QED BY <2>1, <1>1, StatusFrame
  <1>7. /\ up'[n] \in Seq(UpFrames(n)') /\ DOMAIN up' = Node
        /\ \A m \in Node \ {n} : up'[m] = up[m]
    <2> HIDE DEF last
    <2> QED BY <1>0, <1>3, <1>6, Published
  <1> HIDE DEF last
  <1>8. \A m \in Node \ {n} : SameNode(m)
    BY <1>0, <1>7 DEF SameNode, CPInv, Shapes, NodesTypeOK
  <1>9. Shapes'
    BY <1>0, <1>1, <1>2, <1>3, <1>7 DEF CPInv, Shapes, NodesTypeOK
  <1> QED BY <1>0, <1>5, <1>7, <1>8, <1>9, OneNodeMoves DEF FramesOK

(* An end that is asked for, and one that a start out of a welcome brings. *)
LEMMA EndKeeps ==
    ASSUME CPInv, Grows, NEW n \in Node, finish(n) \/ WelcomeRaises(n)
    PROVE  Shapes' /\ NodesOK'
  <1>1. CASE finish(n)
    <2>1. down'[n] \in Seq(DownFrames(n)') /\ down' = down /\ Finish(n, node[n])
      <3>1. Finish(n, node[n]) /\ down' = down
        BY <1>1 DEF finish
      <3>2. forgets' = forgets /\ recorded[n] \subseteq recorded'[n]
        BY <3>1 DEF Finish, CPInv, Shapes
      <3> QED BY <3>1, <3>2, QueuesStay
    <2>2. node[n].run \in Named /\ node[n].recording \in BOOLEAN
          /\ (node[n].recording => node[n].run \in Meant(n))
      BY DEF CPInv, NodeOK, Shapes, NodesTypeOK
    <2> QED BY <2>1, <2>2, FinishKeeps DEF CPInv, Shapes
  <1>2. CASE WelcomeRaises(n)
    <2> DEFINE r == Head(down[n]).run
    <2>1. /\ down[n] # <<>> /\ Head(down[n]).type = "welcome" /\ r # NoRun
          /\ down' = [down EXCEPT ![n] = Tail(@)]
      BY <1>2 DEF WelcomeRaises, Joins
    <2>2. PICK from \in StartRaised(n, r) \cup {start_run(r)} : Finish(n, from)
      BY <1>2 DEF WelcomeRaises
    <2>3. r \in Meant(n)
      <3>1. Head(down[n]) \in DownFrames(n)
        BY <2>1, HeadOfDown
      <3> QED BY <2>1, <3>1 DEF DownFrames, Frame
    <2>4. from = stop_run(n) \/ from = Idle(r) \/ from = start_run(r)
      BY <2>2 DEF StartRaised
    <2>5. from.run \in Named /\ from.recording \in BOOLEAN
          /\ (from.recording => from.run \in Meant(n))
      <3>1. node[n].run \in Named /\ NoRun \in Named /\ r \in Named
        BY <2>3 DEF CPInv, NodeOK, Named, Meant
      <3> HIDE DEF r
      <3>2. CASE from = stop_run(n)
        BY <3>1, <3>2 DEF stop_run, Idle
      <3>3. CASE from = Idle(r)
        BY <3>1, <3>3 DEF Idle
      <3>4. CASE from = start_run(r)
        BY <2>3, <3>1, <3>4 DEF start_run
      <3> QED BY <2>4, <3>2, <3>3, <3>4
    <2>6. forgets' = forgets /\ recorded[n] \subseteq recorded'[n]
      BY <2>2 DEF Finish, CPInv, Shapes
    <2>7. /\ DOMAIN down' = Node /\ down'[n] \in Seq(DownFrames(n)')
          /\ \A m \in Node \ {n} : down'[m] = down[m]
      BY <2>1, <2>6, QueuesStay DEF CPInv, Shapes
    <2> QED BY <2>2, <2>5, <2>7, FinishKeeps
  <1> QED BY <1>1, <1>2

(* A process that is gone takes its queues along, and records nothing.     *)
LEMMA ExitKeeps ==
    ASSUME CPInv, Grows, NEW n \in Node, Exit(n)
    PROVE  Shapes' /\ NodesOK'
  <1>0. /\ exits < MaxExits /\ exits' = exits + 1
        /\ node' = [node EXCEPT ![n] = Idle(NoRun)] /\ link' = [link EXCEPT ![n] = FALSE]
        /\ down' = [down EXCEPT ![n] = <<>>] /\ up' = [up EXCEPT ![n] = <<>>]
        /\ leaving' = leaving \ {n} /\ recorded' = recorded /\ forgets' = forgets
    BY DEF Exit
  <1>1. Idle(NoRun) \in [run : Run \cup {NoRun}, recording : BOOLEAN]
    BY DEF Idle
  <1>2. exits' \in 0..MaxExits
    BY <1>0, NodesAssumption DEF CPInv, Shapes, NodesTypeOK
  <1>3. Shapes'
    BY <1>0, <1>1, <1>2 DEF CPInv, Shapes, NodesTypeOK
  <1>4. node'[n] = Idle(NoRun) /\ down'[n] = <<>> /\ up'[n] = <<>>
    BY <1>0 DEF CPInv, Shapes, NodesTypeOK
  <1>5. NodeOK(n)'
    <2>1. recorded[n] \subseteq Meant(n) /\ Meant(n) \subseteq Meant(n)'
      BY DEF CPInv, NodeOK, Grows
    <2>2. node'[n].run = NoRun /\ node'[n].recording = FALSE
      BY <1>4 DEF Idle
    <2>3. NoRun \in Named'
      BY DEF Named
    <2> QED BY <1>0, <2>1, <2>2, <2>3 DEF NodeOK
  <1>6. FramesOK(n)'
    BY <1>4, EmptySeq DEF FramesOK
  <1>7. \A m \in Node \ {n} : SameNode(m)
    BY <1>0 DEF SameNode, CPInv, Shapes, NodesTypeOK
  <1> QED BY <1>0, <1>3, <1>5, <1>6, <1>7, OneNodeMoves

(* What survives a break is a part of what was queued.                     *)
LEMMA BreakKeeps ==
    ASSUME CPInv, Grows, NEW n \in Node, Break(n)
    PROVE  Shapes' /\ NodesOK'
  <1> PICK kept \in 0..Len(down[n]), lost \in 0..Len(up[n]) :
        /\ down' = [down EXCEPT ![n] = SubSeq(@, 1, kept)]
        /\ up' = [up EXCEPT ![n] = SubSeq(@, lost + 1, Len(@))]
    BY DEF Break
  <1>0. /\ UNCHANGED <<node, recorded, lifeVars>> /\ forgets' = forgets
        /\ link' = [link EXCEPT ![n] = FALSE]
    BY DEF Break, lifeVars
  <1>1. down[n] \in Seq(DownFrames(n)') /\ up[n] \in Seq(UpFrames(n)')
    BY <1>0, QueuesStay
  <1>2. SubSeq(down[n], 1, kept) \in Seq(DownFrames(n)')
    <2>1. Len(down[n]) \in Nat /\ \A i \in 1..Len(down[n]) : down[n][i] \in DownFrames(n)'
      BY <1>1, LenProperties, ElementOfSeq
    <2> QED BY <2>1, SubSeqProperties
  <1>3. SubSeq(up[n], lost + 1, Len(up[n])) \in Seq(UpFrames(n)')
    <2>1. Len(up[n]) \in Nat /\ \A i \in 1..Len(up[n]) : up[n][i] \in UpFrames(n)'
      BY <1>1, LenProperties, ElementOfSeq
    <2> QED BY <2>1, SubSeqProperties
  <1>4. down'[n] \in Seq(DownFrames(n)') /\ up'[n] \in Seq(UpFrames(n)')
    BY <1>2, <1>3 DEF CPInv, Shapes
  <1>5. NodeOK(n)'
    BY <1>0, Unmoved
  <1>6. Shapes'
    BY <1>0 DEF CPInv, Shapes, NodesTypeOK, lifeVars
  <1>7. \A m \in Node \ {n} : SameNode(m)
    BY <1>0 DEF SameNode, CPInv, Shapes
  <1> QED BY <1>0, <1>4, <1>5, <1>6, <1>7, OneNodeMoves DEF FramesOK

(* The run a welcome offers is one the node may record.                    *)
LEMMA WelcomeKeeps ==
    ASSUME CPInv, Grows, NEW n \in Node, Connect(n) \/ Attach(n)
    PROVE  Shapes' /\ NodesOK'
  <1>0. /\ UNCHANGED <<node, up, recorded, lifeVars>> /\ forgets' = forgets
        /\ link' \in [Node -> BOOLEAN]
        /\ down' = down \/ Welcome(n)
    BY DEF Connect, Attach, lifeVars, CPInv, Shapes, NodesTypeOK
  <1>1. CASE down' = down
    <2>1. Shapes'
      BY <1>0, <1>1 DEF CPInv, Shapes, NodesTypeOK, lifeVars
    <2> QED BY <1>0, <1>1, <2>1, Unmoved DEF NodesOK, FramesOK
  <1>2. CASE Welcome(n)
    <2> PICK r \in IF Offered(n) = {} THEN {NoRun} ELSE Offered(n) :
          down' = [down EXCEPT ![n] = Append(@, Frame("welcome", r))]
      BY <1>2 DEF Welcome
    <2>1. Absent \notin OCCUPIES_SLOT
      BY DEF Absent, OCCUPIES_SLOT
    <2>2. r \in Meant(n) \cup {NoRun}
      BY <2>1 DEF Offered, ActiveRunIn, ActiveRuns, Meant
    <2>3. Frame("welcome", r) \in DownFrames(n)'
      BY <2>2 DEF DownFrames, Grows
    <2>4. down[n] \in Seq(DownFrames(n)')
      BY <1>0, QueuesStay
    <2>5. Append(down[n], Frame("welcome", r)) \in Seq(DownFrames(n)')
      BY <2>3, <2>4
    <2>6. down'[n] \in Seq(DownFrames(n)') /\ DOMAIN down' = Node
          /\ \A m \in Node \ {n} : down'[m] = down[m]
      BY <2>5 DEF CPInv, Shapes
    <2>7. NodeOK(n)' /\ up'[n] \in Seq(UpFrames(n)')
      BY <1>0, Unmoved
    <2>8. Shapes'
      BY <1>0, <2>6 DEF CPInv, Shapes, NodesTypeOK, lifeVars
    <2>9. \A m \in Node \ {n} : SameNode(m)
      BY <1>0, <2>6 DEF SameNode
    <2> QED BY <1>0, <2>6, <2>7, <2>8, <2>9, OneNodeMoves DEF FramesOK
  <1> QED BY <1>0, <1>1, <1>2

(* The admin takes a frame off its queue.                                  *)
LEMMA HandleKeeps ==
    ASSUME CPInv, Grows, NEW n \in Node, HandleStatus(n) \/ HandleGoodbye(n)
    PROVE  Shapes' /\ NodesOK'
  <1>0. up[n] # <<>> /\ UNCHANGED <<node, recorded, lifeVars>> /\ forgets' = forgets
    BY DEF HandleStatus, HandleGoodbye, lifeVars
  <1>1. link' \in [Node -> BOOLEAN]
    BY DEF HandleStatus, HandleGoodbye, CPInv, Shapes, NodesTypeOK
  <1>2. up'[n] \in Seq(UpFrames(n)') /\ DOMAIN up' = Node
        /\ \A m \in Node \ {n} : up'[m] = up[m]
    <2>1. up' = [up EXCEPT ![n] = Tail(@)] \/ up' = [up EXCEPT ![n] = <<>>]
      BY DEF HandleStatus, HandleGoodbye
    <2>2. Tail(up[n]) \in Seq(UpFrames(n)')
      BY <1>0, HeadOfUp, FramesGrow
    <2>3. <<>> \in Seq(UpFrames(n)')
      BY EmptySeq
    <2> QED BY <2>1, <2>2, <2>3 DEF CPInv, Shapes
  <1>3. down'[n] \in Seq(DownFrames(n)') /\ DOMAIN down' = Node
        /\ \A m \in Node \ {n} : down'[m] = down[m]
    <2>1. down[n] \in Seq(DownFrames(n)') /\ <<>> \in Seq(DownFrames(n)')
      BY <1>0, QueuesStay, EmptySeq
    <2>2. CASE HandleGoodbye(n)
      BY <2>1, <2>2 DEF HandleGoodbye, CPInv, Shapes
    <2>3. CASE HandleStatus(n)
      <3>1. IF LateStop(n, Head(up[n]).run, Head(up[n]).running)
            THEN Deliver(n, Frame("stop", Head(up[n]).run)) ELSE UNCHANGED down
        BY <2>3 DEF HandleStatus
      <3>2. CASE down' = down
        BY <2>1, <3>2 DEF CPInv, Shapes
      <3>3. ASSUME LateStop(n, Head(up[n]).run, Head(up[n]).running),
                   Deliver(n, Frame("stop", Head(up[n]).run))
            PROVE  down'[n] \in Seq(DownFrames(n)') /\ DOMAIN down' = Node
                   /\ \A m \in Node \ {n} : down'[m] = down[m]
        <4>1. Head(up[n]).run \in Run
          BY <1>0, <3>3, HeadOfUp DEF LateStop, Named
        <4>2. Frame("stop", Head(up[n]).run) \in DownFrames(n)'
          BY <4>1, StopIsMeant
        <4>3. Append(down[n], Frame("stop", Head(up[n]).run)) \in Seq(DownFrames(n)')
          BY <2>1, <4>2
        <4> QED BY <2>1, <3>3, <4>3 DEF Deliver, CPInv, Shapes
      <3> QED BY <3>1, <3>2, <3>3
    <2> QED BY <2>2, <2>3
  <1>4. NodeOK(n)'
    BY <1>0, Unmoved
  <1>5. Shapes'
    BY <1>0, <1>1, <1>2, <1>3 DEF CPInv, Shapes, NodesTypeOK, lifeVars
  <1>6. \A m \in Node \ {n} : SameNode(m)
    BY <1>0, <1>2, <1>3 DEF SameNode
  <1> QED BY <1>0, <1>2, <1>3, <1>4, <1>5, <1>6, OneNodeMoves DEF FramesOK

(* Every step keeps what nodes and queues hold.                            *)
LEMMA NodesStep ==
    ASSUME CPInv, Grows, [NextAll]_allVars
    PROVE  Shapes' /\ NodesOK'
  <1>1. CASE NodeStep
    <2> PICK n \in Node :
          \/ HandleStatus(n) \/ Connect(n) \/ Attach(n) \/ Break(n) \/ Notice(n) \/ Reap(n)
          \/ _drain_admin(n) \/ _report_status(n)
          \/ HandleGoodbye(n) \/ finish(n) \/ WelcomeRaises(n) \/ Exit(n)
      BY <1>1 DEF NodeStep
    <2>1. CASE Notice(n) \/ Reap(n)
      BY <2>1, AloneKeeps DEF Notice, Reap
    <2> QED BY <2>1, HandleKeeps, WelcomeKeeps, BreakKeeps, DrainKeeps, ReportKeeps, EndKeeps,
               ExitKeeps
  <1>2. CASE UNCHANGED allVars
    BY <1>2, AloneKeeps DEF allVars
  <1> QED BY <1>1, <1>2, AdminKeeps DEF NextAll

-----------------------------------------------------------------------------
(* Reports.                                                                *)

(* What a node recorded is never unrecorded.                               *)
LEMMA RecordsGrow ==
    ASSUME CPInv, [NextAll]_allVars
    PROVE  forgets' = forgets /\ \A m \in Node : recorded[m] \subseteq recorded'[m]
  <1>1. CASE AdminStep
    BY <1>1 DEF AdminStep, Create, Remove, Supervise, Start, OperatorStop, AutoStop, Continue,
                nodeVars, lifeVars
  <1>2. CASE NodeStep
    <2> PICK n \in Node :
          \/ HandleStatus(n) \/ Connect(n) \/ Attach(n) \/ Break(n) \/ Notice(n) \/ Reap(n)
          \/ _drain_admin(n) \/ _report_status(n)
          \/ HandleGoodbye(n) \/ finish(n) \/ WelcomeRaises(n) \/ Exit(n)
      BY <1>2 DEF NodeStep
    <2>1. CASE HandleStatus(n) \/ HandleGoodbye(n) \/ Connect(n) \/ Attach(n) \/ Break(n)
               \/ Notice(n) \/ Reap(n) \/ _report_status(n) \/ Exit(n)
      BY <2>1 DEF HandleStatus, HandleGoodbye, Connect, Attach, Break, Notice, Reap,
                  _report_status, Exit, nodeVars, lifeVars
    <2>2. CASE _drain_admin(n)
      BY <2>2 DEF _drain_admin, lifeVars, CPInv, Shapes
    <2>3. CASE finish(n) \/ WelcomeRaises(n)
      <3> PICK from : Finish(n, from)
        BY <2>3 DEF finish, WelcomeRaises
      <3> QED BY DEF Finish, CPInv, Shapes
    <2> QED BY <2>1, <2>2, <2>3
  <1>3. CASE UNCHANGED allVars
    BY <1>3 DEF allVars, nodeVars, lifeVars
  <1> QED BY <1>1, <1>2, <1>3 DEF NextAll

(* Only a status or a goodbye files a report.                              *)
LEMMA WhoFiles ==
    ASSUME CPInv, [NextAll]_allVars
    PROVE  reports' = reports \/ \E n \in Node : HandleStatus(n) \/ HandleGoodbye(n)
  <1>1. CASE AdminStep
    BY <1>1 DEF AdminStep, Create, Remove, Supervise, Start, OperatorStop, AutoStop, Continue,
                create_run, act_remove, _supervise_run, act_start, act_stop, _auto_stop, Stop,
                Resume, StartTimeout, StopTimeout, Journal, runVars
  <1>2. CASE NodeStep
    <2> PICK n \in Node :
          \/ HandleStatus(n) \/ Connect(n) \/ Attach(n) \/ Break(n) \/ Notice(n) \/ Reap(n)
          \/ _drain_admin(n) \/ _report_status(n)
          \/ HandleGoodbye(n) \/ finish(n) \/ WelcomeRaises(n) \/ Exit(n)
      BY <1>2 DEF NodeStep
    <2>1. CASE Connect(n) \/ Attach(n) \/ Notice(n) \/ Reap(n)
      BY <2>1 DEF Connect, Attach, Notice, Reap, on_hello, attach_node, detach_current,
                  detach_stale, OfflineTimeout, runVars
    <2>2. CASE Break(n) \/ _drain_admin(n) \/ _report_status(n) \/ finish(n)
               \/ WelcomeRaises(n) \/ Exit(n)
      BY <2>2 DEF Break, _drain_admin, _report_status, finish, WelcomeRaises, Finish, Exit,
                  vars, runVars
    <2> QED BY <2>1, <2>2
  <1>3. CASE UNCHANGED allVars
    BY <1>3 DEF allVars, vars, runVars
  <1> QED BY <1>1, <1>2, <1>3 DEF NextAll

(* A report that is filed was recorded by its node.                        *)
LEMMA ReportsStep ==
    ASSUME CPInv, [NextAll]_allVars
    PROVE  NamedReportsBelong'
  <1>1. forgets' = forgets /\ \A m \in Node : recorded[m] \subseteq recorded'[m]
    BY RecordsGrow
  <1>2. CASE reports' = reports
    BY <1>1, <1>2 DEF CPInv, NamedReportsBelong
  <1>3. ASSUME NEW n \in Node, HandleStatus(n) \/ HandleGoodbye(n) PROVE NamedReportsBelong'
    <2>1. PICK to : File(n, to) /\ (n \notin forgets => to \subseteq recorded[n])
      <3>1. up[n] # <<>>
        BY <1>3 DEF HandleStatus, HandleGoodbye
      <3> DEFINE f == Head(up[n])
      <3>2. f.report => n \in forgets \/ f.run \in recorded[n]
        BY <3>1, HeadOfUp
      <3>3. \A r \in recorded[n] : r # NoRun
        BY DEF CPInv, NodeOK, Meant, Run, NoRun
      <3> HIDE DEF f
      <3>4. CASE HandleStatus(n)
        <4>1. File(n, IF f.report THEN FiledUnder(f.run) ELSE {})
          BY <3>4 DEF HandleStatus, on_status, f
        <4>2. n \notin forgets => (IF f.report THEN FiledUnder(f.run) ELSE {}) \subseteq recorded[n]
          BY <3>2, <3>3 DEF FiledUnder
        <4> QED BY <4>1, <4>2
      <3>5. CASE HandleGoodbye(n)
        <4>1. File(n, IF f.report /\ f.run # NoRun THEN {f.run} ELSE {})
          BY <3>5 DEF HandleGoodbye, on_goodbye, f
        <4>2. n \notin forgets
              => (IF f.report /\ f.run # NoRun THEN {f.run} ELSE {}) \subseteq recorded[n]
          BY <3>2
        <4> QED BY <4>1, <4>2
      <3> QED BY <1>3, <3>4, <3>5
    <2>2. \A r \in Run : reports'[r] = reports[r] \/ (r \in to /\ reports'[r] = reports[r] \cup {n})
      BY <2>1 DEF File
    <2> SUFFICES ASSUME NEW m \in Node \ forgets, NEW r \in Run, m \in reports'[r]
                 PROVE  r \in recorded'[m]
      BY <1>1 DEF NamedReportsBelong
    <2>3. CASE m \in reports[r]
      BY <1>1, <2>3 DEF CPInv, NamedReportsBelong
    <2>4. CASE m \notin reports[r]
      BY <1>1, <2>1, <2>2, <2>4
    <2> QED BY <2>3, <2>4
  <1> QED BY <1>2, <1>3, WhoFiles

-----------------------------------------------------------------------------
(* The invariant holds.                                                    *)

(* The invariant is inductive.                                             *)
LEMMA CPInvInit == InitAll => CPInv
  <1> SUFFICES ASSUME InitAll PROVE CPInv
    OBVIOUS
  <1>1. TypeOK
    BY InitType DEF InitAll
  <1>2. Idle(NoRun) \in [run : Run \cup {NoRun}, recording : BOOLEAN]
        /\ Idle(NoRun).run = NoRun /\ Idle(NoRun).recording = FALSE
    BY DEF Idle
  <1>3. Shapes
    BY <1>2, NodesAssumption DEF InitAll, Shapes, NodesTypeOK
  <1>4. ASSUME NEW n \in Node PROVE NodeOK(n) /\ FramesOK(n)
    <2>1. node[n] = Idle(NoRun) /\ recorded[n] = {} /\ down[n] = <<>> /\ up[n] = <<>>
      BY DEF InitAll
    <2>2. NodeOK(n)
      BY <1>2, <2>1 DEF NodeOK, Named
    <2>3. FramesOK(n)
      BY <2>1, EmptySeq DEF FramesOK
    <2> QED BY <2>2, <2>3
  <1>5. TargetsMeant /\ NamedReportsBelong
    BY DEF InitAll, Init, TargetsMeant, NamedReportsBelong
  <1> QED BY <1>1, <1>3, <1>4, <1>5 DEF CPInv

LEMMA CPInvStep == CPInv /\ [NextAll]_allVars => CPInv'
  <1> SUFFICES ASSUME CPInv, [NextAll]_allVars PROVE CPInv'
    OBVIOUS
  <1>1. Lives /\ TypeOK /\ TargetsMeant
    BY ComposedLives DEF CPInv
  <1>2. Grows
    BY <1>1, LivesGrows
  <1>3. TypeOK'
    BY <1>1, LivesIsNext, NextType
  <1>4. Shapes' /\ NodesOK'
    BY <1>2, NodesStep
  <1>5. TargetsMeant' /\ NamedReportsBelong'
    BY <1>1, <1>2, TargetsStep, ReportsStep
  <1> QED BY <1>3, <1>4, <1>5 DEF CPInv, NodesOK

LEMMA CPInvHolds == SpecAll => []CPInv
  BY CPInvInit, CPInvStep, PTL DEF SpecAll

(* The nodes, their clients and the network say nothing to the admin that  *)
(* its environment could not say, and the composition adds no step to the  *)
(* admin's: whatever holds of Orchestrator's behaviours holds here.        *)
THEOREM ComposedImplements == SpecAll => Spec
  <1>1. CPInv /\ [NextAll]_allVars => [Next]_vars
    BY ComposedLives, LivesIsNext
  <1>2. InitAll => Init
    BY DEF InitAll
  <1> QED BY <1>1, <1>2, CPInvHolds, PTL DEF SpecAll, Spec

(* Among real nodes, their clients, queues and broken connections the admin *)
(* keeps what it promises alone: one active run per zone, no second start  *)
(* of a run the journal knows, no record connected without a socket, runs  *)
(* that leave starting and stopping, and the abstract slots.               *)
THEOREM AdminPromisesHold ==
    SpecAll => /\ [](OneActiveRunPerZone /\ StartIsRemembered /\ ConnectedHasSocket)
               /\ [][Restart \/ \A r \in Run : StopGoesOn(r) /\ StartGoesOn(r)]_vars
               /\ ImplementsZoneSlots
  BY ComposedImplements, OneActiveRunPerZoneHolds, StartIsRememberedHolds,
     ConnectedHasSocketHolds, TimersRunOut, ImplementsZoneSlotsHolds, PTL

(* Every variable of the nodes keeps its type, and a node's process ends   *)
(* no more often than bounded.                                             *)
THEOREM NodesTypeOKHolds == SpecAll => []NodesTypeOK
  <1>1. CPInv => NodesTypeOK
    BY DEF CPInv, Shapes
  <1> QED BY <1>1, CPInvHolds, PTL

(* However starts, stops, welcomes, breaks and restarts of nodes           *)
(* interleave, a node never records a run of another zone or profile.      *)
THEOREM RecordsOwnZoneHolds == SpecAll => []RecordsOwnZone
  <1>1. CPInv => RecordsOwnZone
    BY DEF CPInv, NodeOK, Meant, RecordsOwnZone
  <1> QED BY <1>1, CPInvHolds, PTL

(* Where every node keeps naming its last run, as the ROS nodes do, a      *)
(* report, by status or by goodbye, is filed under a run its node          *)
(* recorded, however late it comes.                                        *)
THEOREM ReportsBelongHolds == ASSUME Forgets = {} PROVE SpecAll => []ReportsBelong
  <1>1. CPInv => ReportsBelong
    BY DEF CPInv, Shapes, NodesTypeOK, NamedReportsBelong, ReportsBelong
  <1> QED BY <1>1, CPInvHolds, PTL
=============================================================================
