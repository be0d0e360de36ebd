---------------------------- MODULE ControlPlane ----------------------------
(***************************************************************************)
(* The admin service and its nodes, over the connections that carry the    *)
(* wire protocol.  The admin is Orchestrator; this module adds the nodes   *)
(* (node_base.py and the run lifecycle of the ROS nodes, app.py of the     *)
(* xApp), their admin client with its two queues (client.py), and a        *)
(* network that keeps order on a connection and loses what was in flight   *)
(* when the connection breaks.                                             *)
(*                                                                         *)
(* down[n] is what the admin wrote and the node has not applied: frames in *)
(* flight followed, at its head, by the client's inbound queue.  up[n] is  *)
(* what the node published and the admin has not handled; its head may     *)
(* have been written to the socket already.  A break of the connection     *)
(* loses a suffix of the one and a prefix of the other.                    *)
(***************************************************************************)
EXTENDS Orchestrator, Sequences

CONSTANTS
    Forgets,    \* nodes that may be of a kind that names no run once stopped
                \* (the xApp, the gNB collector, the relay); the ROS nodes
                \* keep naming the last
    Autostart,  \* nodes that join the run a welcome offers
    Flowing,    \* nodes whose counters move while they record: an edge that
                \* receives nothing is not one
    StartFails, \* whether a node may fail to start a run (a bad codec, a
                \* missing dataset, an output directory it cannot write)
    Breaks,     \* whether connections may break
    MaxExits,   \* bound: how often a node's process ends, and comes back
    Outbound,   \* _OUTBOUND_CAPACITY: statuses a client queues before dropping
    MaxDown     \* bound: frames waiting at a node when it reconnects

ASSUME NodesAssumption ==
    /\ Forgets \subseteq Node
    /\ Autostart \subseteq Node
    /\ Flowing \subseteq Node
    /\ StartFails \in BOOLEAN
    /\ Breaks \in BOOLEAN
    /\ MaxExits \in Nat
    /\ Outbound \in Nat \ {0}
    /\ MaxDown \in Nat

VARIABLES
    node,       \* Node -> its run_id, and whether it holds a Recorder
    link,       \* Node -> whether its connection to the admin works
    down,       \* Node -> frames on their way to it
    up,         \* Node -> frames on their way from it
    leaving,    \* the nodes whose process has said goodbye
    exits,      \* how often a process has ended
    forgets,    \* the nodes that are of that kind, which never changes
    recorded    \* history: Node -> the runs it ever recorded

lifeVars == <<leaving, exits, forgets>>
nodeVars == <<node, link, down, up, recorded, lifeVars>>
allVars == <<vars, nodeVars>>

Frame(type, r) == [type |-> type, run |-> r]
Status(s, report) ==
    [type |-> "status", run |-> s.run, running |-> s.recording, report |-> report]

Goodbye(s, report) ==
    [type |-> "goodbye", run |-> s.run, running |-> FALSE, report |-> report]

-----------------------------------------------------------------------------
(* The admin, with its frames.                                             *)

(* The socket that send() writes to is the node's working connection: not  *)
(* one that broke, nor one whose replacement still waits to be attached.   *)
Reachable(n) == socket[n] /\ link[n] /\ attaching[n] = 0

(* send(): a frame written to any other socket is lost.                    *)
Deliver(n, frame) ==
    down' = IF n \in Node /\ Reachable(n)
            THEN [down EXCEPT ![n] = Append(@, frame)] ELSE down

Create(r, k) == create_run(r, k) /\ UNCHANGED nodeVars
Remove(r) == act_remove(r) /\ UNCHANGED nodeVars
Supervise(r) == _supervise_run(r) /\ UNCHANGED nodeVars

Start(r, n) ==
    act_start(r, n) /\ Deliver(n, Frame("start", r)) /\ UNCHANGED <<node, link, up, recorded, lifeVars>>

OperatorStop(r, n) ==
    act_stop(r, n) /\ Deliver(n, Frame("stop", r)) /\ UNCHANGED <<node, link, up, recorded, lifeVars>>

AutoStop(r, n) ==
    _auto_stop(r, n) /\ Deliver(n, Frame("stop", r)) /\ UNCHANGED <<node, link, up, recorded, lifeVars>>

Continue(t, n) ==
    /\ Resume(t, n)
    /\ Deliver(n, Frame(IF t.op = "start" THEN "start" ELSE "stop", t.run))
    /\ UNCHANGED <<node, link, up, recorded, lifeVars>>

(* on_status, and the catch-up run.stop it may send.                       *)
HandleStatus(n) ==
    /\ link[n]
    /\ attaching[n] = 0
    /\ up[n] # <<>> /\ Head(up[n]).type = "status"
    /\ LET s == Head(up[n]) IN
        /\ on_status(n, s.run, s.running, s.report)
        /\ IF LateStop(n, s.run, s.running)
           THEN Deliver(n, Frame("stop", s.run)) ELSE UNCHANGED down
    /\ up' = [up EXCEPT ![n] = Tail(@)]
    /\ UNCHANGED <<node, link, recorded, lifeVars>>

(* on_goodbye, by the handler of the working connection, which ends it.    *)
HandleGoodbye(n) ==
    /\ link[n]
    /\ attaching[n] = 0
    /\ up[n] # <<>> /\ Head(up[n]).type = "goodbye"
    /\ on_goodbye(n, Head(up[n]).run, Head(up[n]).report)
    /\ ~socket'[n]
    /\ link' = [link EXCEPT ![n] = FALSE]
    /\ up' = [up EXCEPT ![n] = <<>>]
    /\ down' = [down EXCEPT ![n] = <<>>]
    /\ UNCHANGED <<node, recorded, lifeVars>>

-----------------------------------------------------------------------------
(* The connection.                                                         *)

Welcome(n) ==
    \E r \in IF Offered(n) = {} THEN {NoRun} ELSE Offered(n) :
        down' = [down EXCEPT ![n] = Append(@, Frame("welcome", r))]

(* A session begins with the client's hello, built from the node's current *)
(* identity.  The welcome, naming the run it offers if there is one, is    *)
(* built once the socket is attached.  A process that said goodbye is gone *)
(* before its client would try again.  (Bound: the client does not connect *)
(* a third time while its second connection waits to be attached.)         *)
Connect(n) ==
    /\ ~link[n] /\ n \notin leaving
    /\ attaching[n] = 0
    /\ Len(down[n]) < MaxDown
    /\ on_hello(n, node[n].run, node[n].recording)
    /\ link' = [link EXCEPT ![n] = TRUE]
    /\ IF socket[n] THEN UNCHANGED down ELSE Welcome(n)
    /\ UNCHANGED <<node, up, recorded, lifeVars>>

Attach(n) ==
    /\ attach_node(n)
    /\ IF link[n] THEN Welcome(n) ELSE UNCHANGED down
    /\ UNCHANGED <<node, link, up, recorded, lifeVars>>

Break(n) ==
    /\ Breaks
    /\ link[n]
    /\ link' = [link EXCEPT ![n] = FALSE]
    /\ \E kept \in 0..Len(down[n]), lost \in 0..Len(up[n]) :
        /\ down' = [down EXCEPT ![n] = SubSeq(@, 1, kept)]
        /\ up' = [up EXCEPT ![n] = SubSeq(@, lost + 1, Len(@))]
    /\ UNCHANGED <<vars, node, recorded, lifeVars>>

(* The admin notices, by the socket closing, by closing it itself for its  *)
(* replacement, or by silence.                                             *)
Notice(n) ==
    /\ \/ (~link[n] \/ attaching[n] > 0) /\ detach_current(n)
       \/ ~link[n] /\ OfflineTimeout(n)
    /\ UNCHANGED nodeVars

Reap(n) == detach_stale(n) /\ UNCHANGED nodeVars

-----------------------------------------------------------------------------
(* The node.                                                               *)

Idle(r) == [run |-> r, recording |-> FALSE]

stop_run(n) == Idle(IF n \in forgets THEN NoRun ELSE node[n].run)

(* start_run: idempotent for the run being recorded; over another run it   *)
(* stops that one first, and drops its report.                             *)
start_run(r) == [run |-> r, recording |-> TRUE]

(* Where a start_run that raises leaves the node: stopped, or, when it is  *)
(* the Recorder's constructor that raised, naming the run all the same.    *)
StartRaised(n, r) ==
    IF ~StartFails \/ node[n] = start_run(r) THEN {}
    ELSE {stop_run(n)} \cup IF n \in forgets THEN {} ELSE {Idle(r)}

(* Mutant: a welcome is joined whether or not it names a run.              *)
JoinsAlways(n, frame) == n \in Autostart

(* A welcome is joined if it names a run and the node may start by itself. *)
Joins(n, frame) == frame.run # NoRun /\ n \in Autostart

(* What a frame may leave the node in.  A stop stops whatever is being     *)
(* recorded: _apply_command does not look at the run it names.             *)
Applied(n, frame) ==
    CASE frame.type = "stop" -> {stop_run(n)}
      [] frame.type = "start" -> {start_run(frame.run)} \cup StartRaised(n, frame.run)
      [] frame.type = "welcome" ->
            {IF Joins(n, frame) THEN start_run(frame.run) ELSE node[n]}

(* The client's outbound queue drops what does not fit.  Acks, which share *)
(* it and only touch the node's record, are left out.                      *)
publish_status(n, status) ==
    up' = [up EXCEPT ![n] = IF Len(@) < Outbound THEN Append(@, status) ELSE @]

(* The status after a stop that closed a Recorder carries its report.      *)
Reports(n, frame) == frame.type = "stop" /\ node[n].recording

(* Each applied frame is followed by a forced status.                      *)
_drain_admin(n) ==
    /\ down[n] # <<>> /\ n \notin leaving
    /\ LET frame == Head(down[n]) IN \E after \in Applied(n, frame) :
        /\ node' = [node EXCEPT ![n] = after]
        /\ publish_status(n, Status(after, Reports(n, frame)))
        /\ recorded' = [recorded EXCEPT ![n] = IF after.recording THEN @ \cup {after.run} ELSE @]
    /\ down' = [down EXCEPT ![n] = Tail(@)]
    /\ UNCHANGED <<vars, link, lifeVars>>

(* finish, of a process told to exit, or brought down by a start_run that  *)
(* raises out of a welcome: it stops, and its goodbye carries the report   *)
(* of the Recorder it closed.                                              *)
Finish(n, from) ==
    LET last == Idle(IF n \in forgets THEN NoRun ELSE from.run)
    IN  /\ n \notin leaving /\ exits < MaxExits
        /\ node' = [node EXCEPT ![n] = last]
        /\ publish_status(n, Goodbye(last, from.recording))
        /\ recorded' = [recorded EXCEPT ![n] = IF from.recording THEN @ \cup {from.run} ELSE @]
        /\ leaving' = leaving \cup {n}
        /\ UNCHANGED <<vars, link, exits, forgets>>

finish(n) == Finish(n, node[n]) /\ UNCHANGED down

(* start_run is not guarded when a welcome calls it.  It may raise with    *)
(* the Recorder built already (the sink, a publisher), which finish closes. *)
WelcomeRaises(n) ==
    /\ down[n] # <<>> /\ Head(down[n]).type = "welcome" /\ Joins(n, Head(down[n]))
    /\ LET r == Head(down[n]).run IN
        \E from \in StartRaised(n, r) \cup {s \in {start_run(r)} : StartRaised(n, r) # {}} :
            Finish(n, from)
    /\ down' = [down EXCEPT ![n] = Tail(@)]

(* The process is gone, killed or a second after its goodbye, and what its *)
(* client and its connection held with it; restarted, it knows no run.     *)
Exit(n) ==
    /\ exits < MaxExits
    /\ exits' = exits + 1
    /\ node' = [node EXCEPT ![n] = Idle(NoRun)]
    /\ link' = [link EXCEPT ![n] = FALSE]
    /\ down' = [down EXCEPT ![n] = <<>>]
    /\ up' = [up EXCEPT ![n] = <<>>]
    /\ leaving' = leaving \ {n}
    /\ UNCHANGED <<vars, recorded, forgets>>

(* The status timer sends what differs from the last status: moving        *)
(* counters make news of every tick, and the forced statuses above have    *)
(* told the rest.  A second copy behind one still queued says nothing more *)
(* and is left out.                                                        *)
_report_status(n) ==
    /\ n \in Flowing /\ n \notin leaving
    /\ node[n].recording
    /\ up[n] = <<>>
    /\ publish_status(n, Status(node[n], FALSE))
    /\ UNCHANGED <<vars, node, link, down, recorded, lifeVars>>

-----------------------------------------------------------------------------

InitAll ==
    /\ Init
    /\ node = [n \in Node |-> Idle(NoRun)]
    /\ link = [n \in Node |-> FALSE]
    /\ down = [n \in Node |-> <<>>]
    /\ up = [n \in Node |-> <<>>]
    /\ recorded = [n \in Node |-> {}]
    /\ leaving = {} /\ exits = 0
    /\ forgets \in SUBSET Forgets

AdminStep ==
    \/ \E r \in Run, k \in RunKinds : Create(r, k)
    \/ \E r \in Run : Remove(r) \/ Supervise(r)
    \/ \E r \in Run, n \in Node \cup {NoNode} :
          Start(r, n) \/ OperatorStop(r, n) \/ AutoStop(r, n)
    \/ \E t \in tasks, n \in Node \cup {NoNode} : Continue(t, n)
    \/ \E r \in Run : (StartTimeout(r) \/ StopTimeout(r)) /\ UNCHANGED nodeVars
    \/ Journal /\ UNCHANGED nodeVars

NodeStep == \E n \in Node :
    \/ HandleStatus(n) \/ Connect(n) \/ Attach(n) \/ Break(n) \/ Notice(n) \/ Reap(n)
    \/ _drain_admin(n) \/ _report_status(n)
    \/ HandleGoodbye(n) \/ finish(n) \/ WelcomeRaises(n) \/ Exit(n)

NextAll == AdminStep \/ NodeStep

SpecAll == InitAll /\ [][NextAll]_allVars

(* Nodes keep draining, reporting and reconnecting, and the admin keeps    *)
(* supervising and handling frames: each is a timer or a loop of its own.  *)
FairnessAll ==
    /\ \A n \in Node : /\ WF_allVars(_drain_admin(n))
                       /\ WF_allVars(_report_status(n))
                       /\ WF_allVars(HandleStatus(n))
                       /\ WF_allVars(HandleGoodbye(n))
                       /\ WF_allVars(n \in leaving /\ Exit(n))
                       /\ WF_allVars(Connect(n))
                       /\ WF_allVars(Attach(n))
                       /\ WF_allVars(Notice(n))
                       /\ WF_allVars(Reap(n))
    /\ WF_allVars(Journal /\ UNCHANGED nodeVars)
    /\ WF_allVars(\E t \in tasks, n \in Node \cup {NoNode} : Continue(t, n))
    /\ \A r \in Run : WF_allVars(Supervise(r))

FairSpecAll == SpecAll /\ FairnessAll

-----------------------------------------------------------------------------
(* Properties.                                                             *)

(* Every variable of the nodes holds a value of its type.                  *)
NodesTypeOK ==
    /\ node \in [Node -> [run : Run \cup {NoRun}, recording : BOOLEAN]]
    /\ link \in [Node -> BOOLEAN]
    /\ \A n \in Node : recorded[n] \subseteq Run
    /\ leaving \subseteq Node /\ exits \in 0..MaxExits /\ forgets \subseteq Forgets

(* A node only ever records runs of its own zone and profile, however it   *)
(* was recruited: by run.start or by the welcome to its hello.             *)
RecordsOwnZone ==
    \A n \in Node : \A r \in recorded[n] :
        kind[r].zone = NodeZone[n] /\ serves(n, kind[r].profile)

(* A report is filed under a run its node recorded.                        *)
ReportsBelong == \A n \in Node : \A r \in Run : n \in reports[r] => r \in recorded[n]

Records(n, r) == node[n].recording /\ node[n].run = r

(* A node still recording a run that has ended is told, and leaves it, if  *)
(* connections stop breaking at last.                                      *)
EndedRunIsLeft ==
    \A n \in Node, r \in Run :
        <>[]link[n] => ((Records(n, r) /\ state[r] \in TERMINAL) ~> ~Records(n, r))

(* However its connection breaks and its process comes and goes, a node    *)
(* still recording a run that has ended leaves it or is sent the one       *)
(* run.stop of on_status, whatever became of the stops before it.  The     *)
(* next break may lose that one too: _late_stops has it as sent.           *)
EndedRunIsTold ==
    \A n \in Node, r \in Run :
        <>[]link[n] => ((Records(n, r) /\ state[r] \in TERMINAL)
                        ~> (~Records(n, r) \/ <<n, r>> \in lateStops))
=============================================================================
