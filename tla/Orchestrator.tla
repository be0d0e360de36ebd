---------------------------- MODULE Orchestrator ----------------------------
(***************************************************************************)
(* The admin service: runs, the registry of nodes, the supervisor, the     *)
(* operator's actions, the run store and its recovery (orchestrator.py,    *)
(* registry.py, store.py, api.py).                                         *)
(*                                                                         *)
(* The service is one asyncio loop.  A handler runs without interruption   *)
(* up to an await that really suspends: the sends of a broadcast command.  *)
(* send() writes a frame and then waits for the transport, so a handler    *)
(* that broadcasts writes to its first target in its own step and leaves a *)
(* TASK behind; each Resume of the task writes to one more target, and the *)
(* last one does what the handler does after its loop.  Everything else    *)
(* interleaves freely between those steps.  Targets are taken in any order *)
(* (the code's is that of arbitrary node ids).                             *)
(*                                                                         *)
(* Nodes are an environment here: any node may say anything the protocol   *)
(* lets it say.  Time is abstracted to the two comparisons the code makes: *)
(* a timer is fresh or overdue, a node was heard from recently or not.     *)
(* run.participants, sites, ue_map, findings and the timestamps are        *)
(* written to the manifest but never read by any guard, and are left out.  *)
(***************************************************************************)
EXTENDS RunState, Naturals, FiniteSets

CONSTANTS
    MaxRun,        \* bound: how many runs are ever created
    RunKinds,      \* the [zone, profile] pairs a run may be created with
    Node,          \* node ids
    NodeZone,      \* Node -> the zone of its hello
    NodeType,      \* Node -> its role ("client", "edge", ...)
    NodeProfile,   \* Node -> the profile it serves, or "any" (RAN sources)
    Required,      \* profile -> the roles quorum needs (topology)
    MaxStale,      \* bound: sockets of one node besides its current one
    MaxTasks,      \* bound: broadcasts suspended at the same time
    Headroom,      \* whether the disk may be under min_free_gb_start
    Crashes        \* whether the admin process may be killed and restarted

Run == 1..MaxRun
NoRun == 0
NoNode == "no node"
Profiles == DOMAIN Required
Zones == {k.zone : k \in RunKinds}

ASSUME ConstantsAssumption ==
    /\ MaxRun \in Nat \ {0}
    /\ MaxStale \in Nat
    /\ MaxTasks \in Nat
    /\ NoNode \notin Node
    /\ RunKinds # {}
    /\ \A k \in RunKinds : k.profile \in Profiles
    /\ Headroom \in BOOLEAN
    /\ Crashes \in BOOLEAN

VARIABLES
    (* Orchestrator._runs.  A run is identified with its seq, so lower     *)
    (* means created earlier and earlier in the dict.                      *)
    state,          \* Run -> RunStates, or Absent
    kind,           \* Run -> zone and profile, fixed at creation
    removed,        \* Run -> the removed flag
    reports,        \* Run -> nodes whose report is in run.reports
    (* Orchestrator's monotonic clocks: "none", "fresh" or "overdue".      *)
    startingSince,
    stoppingSince,
    lateStops,      \* (node, run) pairs already sent a catch-up run.stop
    (* Registry._nodes and Orchestrator._node_sockets.                     *)
    rec,            \* Node -> what the node last said, and its liveness
    socket,         \* Node -> whether it has a current socket
    stale,          \* Node -> superseded sockets whose handlers still run
    attaching,      \* Node -> hellos waiting for an older socket to close
    (* Handlers suspended in a broadcast.                                  *)
    tasks,
    (* The runs directory.                                                 *)
    manifest,       \* Run -> the state in run.json, or Absent
    journal,        \* Run -> the last "to" the journal holds for it
    unjournaled     \* the run _persist has saved and not journalled yet

runVars  == <<state, kind, removed, reports>>
timeVars == <<startingSince, stoppingSince>>
sockVars == <<socket, stale, attaching>>
netVars  == <<rec, sockVars>>
diskVars == <<manifest, journal, unjournaled>>
vars == <<runVars, timeVars, lateStops, netVars, tasks, diskVars>>

-----------------------------------------------------------------------------
(* Queries.                                                                *)

ActiveRuns == {r \in Run : state[r] \in OCCUPIES_SLOT}

(* active_run_in: the runs holding the slot of a zone.                     *)
ActiveRunIn(z) == {r \in ActiveRuns : kind[r].zone = z}

(* active_run: the first of the active runs, as a set of at most one.      *)
FirstActive == {r \in ActiveRuns : \A q \in ActiveRuns : r <= q}

serves(n, p) == NodeProfile[n] \in {"any", p}

(* A node is online when its connection stands and it was heard from       *)
(* within offline_timeout_s.                                               *)
is_online(n) == rec[n].connected /\ rec[n].fresh

participants_of(r) == {n \in Node : rec[n].run = r}
OnlineOf(r) == {n \in participants_of(r) : is_online(n)}

HasQuorum(r) ==
    \A role \in Required[kind[r].profile] :
        \E n \in OnlineOf(r) : rec[n].running /\ NodeType[n] = role

(* _command_targets: run.start goes to the run's zone, run.stop to the     *)
(* zone's nodes whose record names this run or no run.                     *)
InZone(r) ==
    {n \in Node : /\ is_online(n)
                  /\ NodeZone[n] = kind[r].zone
                  /\ serves(n, kind[r].profile)}
Members(r) == {n \in InZone(r) : rec[n].run \in {r, NoRun}}

(* Mutant: the first active run is offered, whatever its zone.             *)
OfferedAnyZone(n) ==
    {r \in FirstActive : state[r] \in ACCEPTS_PARTICIPANTS /\ serves(n, kind[r].profile)}

(* The run a welcome offers to a node that says hello.                     *)
Offered(n) ==
    {r \in ActiveRunIn(NodeZone[n]) :
        state[r] \in ACCEPTS_PARTICIPANTS /\ serves(n, kind[r].profile)}

(* Mutant: a report is filed under the active run.                         *)
FiledUnderActive(run) == FirstActive

(* The run a report is filed under: the one it names, else the first       *)
(* active run, whatever its zone.                                          *)
FiledUnder(run) == IF run # NoRun THEN {run} ELSE FirstActive

Record(run, running, connected, fresh) ==
    [run |-> run, running |-> running, connected |-> connected, fresh |-> fresh]
NoRecord == Record(NoRun, FALSE, FALSE, FALSE)

Ops == {"start", "stop", "stop again", "fail"}
Task(op, r, to, by) == [op |-> op, run |-> r, left |-> to, by |-> by]

(* The first target of a broadcast, or NoNode when there is none.          *)
First(targets) == IF targets = {} THEN {NoNode} ELSE targets
TasksOf(r) == {t \in tasks : t.run = r}

(* The supervise loop is one coroutine: while it awaits a broadcast of its *)
(* own it supervises nothing.                                              *)
SupervisorFree == \A t \in tasks : t.by # "supervisor"

(* _persist saves and then journals with no await between; only a crash    *)
(* comes between the two, so every other step waits for the journal.       *)
LoopFree == unjournaled = NoRun

-----------------------------------------------------------------------------
(* The store.                                                              *)

(* save(): the manifest takes the state the run has in memory.             *)
save(r, s) == manifest' = [manifest EXCEPT ![r] = s]

Persist(r, s) == save(r, s) /\ unjournaled' = r /\ UNCHANGED journal

Journal ==
    /\ unjournaled # NoRun
    /\ journal' = [journal EXCEPT ![unjournaled] = state[unjournaled]]
    /\ unjournaled' = NoRun
    /\ UNCHANGED <<runVars, timeVars, lateStops, netVars, tasks, manifest>>

(* load() and _replay_journal: the manifest, overruled by whatever the     *)
(* journal last recorded for the run.                                      *)
Loaded(r) ==
    IF manifest[r] # Absent /\ journal[r] # Absent THEN journal[r] ELSE manifest[r]

-----------------------------------------------------------------------------
(* The operator.                                                           *)

create_run(r, k) ==
    /\ LoopFree
    /\ state[r] = Absent
    /\ \A q \in Run : q < r => state[q] # Absent
    /\ state' = [state EXCEPT ![r] = "draft"]
    /\ kind' = [kind EXCEPT ![r] = k]
    /\ Persist(r, "draft")
    /\ UNCHANGED <<removed, reports, timeVars, lateStops, netVars, tasks>>

(* What act() checks first for any action: the row exists, and the event   *)
(* is legal from the run's state.                                          *)
MayAct(r, action) == LoopFree /\ ~removed[r] /\ Legal(state[r], action)

(* Mutant: a run that is stopping does not block its zone.                 *)
SlotFreeWhileStopping(r) ==
    {q \in ActiveRunIn(kind[r].zone) : state[q] # "stopping"} \ {r} = {}

SlotFree(r) == ActiveRunIn(kind[r].zone) \ {r} = {}

(* _broadcast_command from act(): write to the first target and suspend,   *)
(* or, with nobody to tell, go straight on to _persist.                    *)
Broadcast(op, r, targets, n, by, s) ==
    /\ n \in First(targets)
    /\ IF n = NoNode
       THEN Persist(r, s) /\ UNCHANGED tasks
       ELSE /\ Cardinality(tasks) < MaxTasks
            /\ tasks' = tasks \cup {Task(op, r, targets \ {n}, by)}
            /\ UNCHANGED diskVars

act_start(r, n) ==
    /\ MayAct(r, "start")
    /\ SlotFree(r)
    /\ state' = [state EXCEPT ![r] = advance(@, "start")]
    /\ startingSince' = [startingSince EXCEPT ![r] = "fresh"]
    /\ Broadcast("start", r, InZone(r), n, "operator", advance(state[r], "start"))
    /\ UNCHANGED <<kind, removed, reports, stoppingSince, lateStops, netVars>>

(* The headroom check raises after the state has been advanced.            *)
act_start_refused(r) ==
    /\ Headroom
    /\ MayAct(r, "start")
    /\ SlotFree(r)
    /\ state' = [state EXCEPT ![r] = advance(@, "start")]
    /\ UNCHANGED <<kind, removed, reports, timeVars, lateStops, netVars, tasks, diskVars>>

Stop(r, n, by) ==
    /\ MayAct(r, "stop")
    /\ state' = [state EXCEPT ![r] = advance(@, "stop")]
    /\ startingSince' = [startingSince EXCEPT ![r] = "none"]
    /\ stoppingSince' = [stoppingSince EXCEPT ![r] =
                           IF state[r] = "stopping" THEN "none" ELSE "fresh"]
    /\ Broadcast(IF state[r] = "stopping" THEN "stop again" ELSE "stop",
                 r, Members(r), n, by, advance(state[r], "stop"))
    /\ UNCHANGED <<kind, removed, reports, lateStops, netVars>>

act_stop(r, n) == Stop(r, n, "operator")

act_remove(r) ==
    /\ MayAct(r, "remove")
    /\ state' = [state EXCEPT ![r] = advance(@, "remove")]
    /\ removed' = [removed EXCEPT ![r] = TRUE]
    /\ Persist(r, "removed")
    /\ UNCHANGED <<kind, reports, timeVars, lateStops, netVars, tasks>>

-----------------------------------------------------------------------------
(* Suspended broadcasts.                                                   *)

(* Mutant: a stop persists the state it set before its broadcast.          *)
StateAtStop(t) == IF t.op = "stop" THEN "stopping" ELSE state[t.run]

(* act() persists the state the run has by now, not the one it set.        *)
StateToSave(t) == state[t.run]

(* The transport has taken the last frame: write the next one, or leave    *)
(* the loop and, in act(), persist; the supervisor persisted a failed run  *)
(* before broadcasting.                                                    *)
Resume(t, n) ==
    /\ LoopFree
    /\ n \in First(t.left)
    /\ IF n # NoNode
       THEN tasks' = (tasks \ {t}) \cup {Task(t.op, t.run, t.left \ {n}, t.by)} /\ UNCHANGED diskVars
       ELSE /\ tasks' = tasks \ {t}
            /\ IF t.op = "fail" THEN UNCHANGED diskVars ELSE Persist(t.run, StateToSave(t))
    /\ UNCHANGED <<runVars, timeVars, lateStops, netVars>>

-----------------------------------------------------------------------------
(* Frames from nodes, and connections.                                     *)

(* The record says connected from here on.  attach_node takes the socket   *)
(* at once, or first awaits the closing of the one the node already has,   *)
(* which stays the node's socket meanwhile.                                *)
on_hello(n, run, running) ==
    /\ LoopFree
    /\ socket[n] => stale[n] + attaching[n] < MaxStale
    /\ rec' = [rec EXCEPT ![n] = Record(run, running, TRUE, TRUE)]
    /\ socket' = [socket EXCEPT ![n] = TRUE]
    /\ attaching' = [attaching EXCEPT ![n] = IF socket[n] THEN @ + 1 ELSE @]
    /\ UNCHANGED <<runVars, timeVars, lateStops, stale, tasks, diskVars>>

(* The close is over: the socket takes the place of the one it finds, if   *)
(* that one's handler has not detached it by now.                          *)
attach_node(n) ==
    /\ LoopFree
    /\ attaching[n] > 0
    /\ attaching' = [attaching EXCEPT ![n] = @ - 1]
    /\ socket' = [socket EXCEPT ![n] = TRUE]
    /\ stale' = [stale EXCEPT ![n] = IF socket[n] THEN @ + 1 ELSE @]
    /\ UNCHANGED <<runVars, timeVars, lateStops, rec, tasks, diskVars>>

(* A handler that can receive: of the current socket or a superseded one.  *)
Heard(n) == socket[n] \/ stale[n] > 0

(* A report is merged into its run and the manifest saved, unjournalled.   *)
File(n, to) ==
    /\ reports' = [r \in Run |-> IF r \in to THEN reports[r] \cup {n} ELSE reports[r]]
    /\ manifest' = [r \in Run |-> IF r \in to THEN state[r] ELSE manifest[r]]

(* Mutant: nodes that missed the stop are left to themselves.              *)
NoLateStop(n, run, running) == FALSE

(* A node still recording a run that ended is sent one run.stop, if it has *)
(* a socket to send it on.                                                 *)
LateStop(n, run, running) ==
    /\ run # NoRun
    /\ running
    /\ state[run] \in TERMINAL
    /\ <<n, run>> \notin lateStops
    /\ socket[n]

on_status(n, run, running, report) ==
    /\ LoopFree
    /\ Heard(n)
    /\ rec' = [rec EXCEPT ![n] = Record(run, running, @.connected, TRUE)]
    /\ File(n, IF report THEN FiledUnder(run) ELSE {})
    /\ lateStops' = IF LateStop(n, run, running) THEN lateStops \cup {<<n, run>>} ELSE lateStops
    /\ UNCHANGED <<state, kind, removed, timeVars, sockVars, tasks, journal, unjournaled>>

(* The end of a handler in detach_node, which deletes the node's socket if *)
(* it is this handler's, and leaves it alone if a later hello replaced it. *)
CurrentEnds(n) ==
    /\ socket[n]
    /\ socket' = [socket EXCEPT ![n] = FALSE]
    /\ UNCHANGED <<stale, attaching>>
StaleEnds(n) ==
    /\ stale[n] > 0
    /\ stale' = [stale EXCEPT ![n] = @ - 1]
    /\ UNCHANGED <<socket, attaching>>

(* A goodbye is handled, then its handler's loop breaks and detaches.      *)
on_goodbye(n, run, report) ==
    /\ LoopFree
    /\ CurrentEnds(n) \/ StaleEnds(n)
    /\ rec' = [rec EXCEPT ![n] = Record(@.run, FALSE, FALSE, TRUE)]
    /\ File(n, IF report /\ run # NoRun THEN {run} ELSE {})
    /\ UNCHANGED <<state, kind, removed, timeVars, lateStops, tasks, journal, unjournaled>>

(* An ack or a pong only touches the record.                               *)
touch(n) ==
    /\ LoopFree
    /\ Heard(n)
    /\ rec' = [rec EXCEPT ![n] = Record(@.run, @.running, @.connected, TRUE)]
    /\ UNCHANGED <<runVars, timeVars, lateStops, sockVars, tasks, diskVars>>

(* Mutant: the handler of the current socket also reaps a superseded one.  *)
detach_both(n) ==
    /\ LoopFree
    /\ socket[n]
    /\ socket' = [socket EXCEPT ![n] = FALSE]
    /\ stale' = [stale EXCEPT ![n] = @ - 1]
    /\ rec' = [rec EXCEPT ![n] = Record(@.run, @.running, FALSE, @.fresh)]
    /\ UNCHANGED <<runVars, timeVars, lateStops, attaching, tasks, diskVars>>

(* Mutant: the registry is not told that the node is gone.                 *)
detach_silently(n) ==
    /\ LoopFree
    /\ CurrentEnds(n)
    /\ UNCHANGED <<runVars, timeVars, lateStops, rec, tasks, diskVars>>

(* detach_node, by the handler of the current socket.                      *)
detach_current(n) ==
    /\ LoopFree
    /\ CurrentEnds(n)
    /\ rec' = [rec EXCEPT ![n] = Record(@.run, @.running, FALSE, @.fresh)]
    /\ UNCHANGED <<runVars, timeVars, lateStops, tasks, diskVars>>

(* detach_node, by the handler of a superseded socket: the newer socket    *)
(* stays, and the record is marked disconnected all the same.              *)
detach_stale(n) ==
    /\ LoopFree
    /\ StaleEnds(n)
    /\ rec' = [rec EXCEPT ![n] = Record(@.run, @.running, FALSE, @.fresh)]
    /\ UNCHANGED <<runVars, timeVars, lateStops, tasks, diskVars>>

-----------------------------------------------------------------------------
(* Time.  A run's timer is read only in the state it times, so it ticks    *)
(* only there, and an entry the code leaves behind in the dict when the    *)
(* run leaves that state for good is "none".                               *)

OfflineTimeout(n) ==
    /\ LoopFree
    /\ is_online(n)
    /\ rec' = [rec EXCEPT ![n] = Record(@.run, @.running, @.connected, FALSE)]
    /\ UNCHANGED <<runVars, timeVars, lateStops, sockVars, tasks, diskVars>>

StartTimeout(r) ==
    /\ LoopFree
    /\ state[r] = "starting"
    /\ startingSince[r] = "fresh"
    /\ startingSince' = [startingSince EXCEPT ![r] = "overdue"]
    /\ UNCHANGED <<runVars, stoppingSince, lateStops, netVars, tasks, diskVars>>

StopTimeout(r) ==
    /\ LoopFree
    /\ state[r] = "stopping"
    /\ stoppingSince[r] = "fresh"
    /\ stoppingSince' = [stoppingSince EXCEPT ![r] = "overdue"]
    /\ UNCHANGED <<runVars, startingSince, lateStops, netVars, tasks, diskVars>>

-----------------------------------------------------------------------------
(* The supervisor.                                                         *)

(* Mutant: a timeout the supervisor does not look at.                      *)
NeverOverdue(r) == FALSE

StartOverdue(r) == startingSince[r] = "overdue"
StopOverdue(r) == stoppingSince[r] = "overdue"

(* The first judgement of a pass: quorum, or the state's own timeout.      *)
Judged(r) ==
    LET s == state[r] IN
    CASE s = "starting" /\ HasQuorum(r) -> advance(s, "quorum_met")
      [] s = "starting" /\ ~HasQuorum(r) /\ StartOverdue(r) ->
            advance(s, "start_timeout")
      [] s = "running" /\ ~HasQuorum(r) -> advance(s, "participant_lost")
      [] s = "degraded" /\ HasQuorum(r) -> advance(s, "participant_recovered")
      [] s = "stopping" /\ OnlineOf(r) = {} -> advance(s, "reports_complete")
      [] s = "stopping" /\ OnlineOf(r) # {} /\ StopOverdue(r) ->
            advance(s, "stop_timeout")
      [] OTHER -> s

(* Then: everybody gone, where a starting run nobody joined yet does not   *)
(* count as abandoned.                                                     *)
Abandoned(r, s) ==
    /\ s \in ACCEPTS_PARTICIPANTS
    /\ OnlineOf(r) = {}
    /\ ~(s = "starting" /\ participants_of(r) = {})
JudgedOffline(r, s) == IF Abandoned(r, s) THEN advance(s, "all_offline") ELSE s

(* Last: every participant has reported.                                   *)
JudgedReports(r, s) ==
    IF s = "stopping" /\ participants_of(r) \subseteq reports[r]
    THEN advance(s, "reports_complete")
    ELSE s

Verdict(r) == JudgedReports(r, JudgedOffline(r, Judged(r)))

_supervise_run(r) ==
    /\ LoopFree
    /\ SupervisorFree
    /\ state[r] \in OCCUPIES_SLOT
    /\ state' = [state EXCEPT ![r] = Verdict(r)]
    /\ startingSince' = [startingSince EXCEPT ![r] =
                           IF state[r] = "starting" /\ Judged(r) # "starting" THEN "none" ELSE @]
    /\ stoppingSince' = [stoppingSince EXCEPT ![r] =
                           IF Verdict(r) # "stopping" THEN "none"
                           ELSE IF @ = "none" THEN "fresh" ELSE @]
    /\ IF Verdict(r) # state[r] THEN Persist(r, Verdict(r)) ELSE UNCHANGED diskVars
    /\ tasks' = IF Verdict(r) = "failed" /\ Members(r) # {}
                THEN tasks \cup {Task("fail", r, Members(r), "supervisor")}
                ELSE tasks
    /\ UNCHANGED <<kind, removed, reports, lateStops, netVars>>

(* _auto_stop: a recording run over max_run_duration_s, or a disk under    *)
(* min_free_gb_abort, is stopped through act(STOP), which the supervisor   *)
(* awaits.                                                                 *)
_auto_stop(r, n) ==
    /\ SupervisorFree
    /\ state[r] \in {"running", "degraded"}
    /\ Stop(r, n, "supervisor")

-----------------------------------------------------------------------------
(* Mutant: what was mid-flight is queued again.                            *)
RecoveredDraft(r) == IF Loaded(r) \in OCCUPIES_SLOT THEN "draft" ELSE Loaded(r)

(* start() loads the store and marks what was mid-flight failed, in the    *)
(* manifest but not in the journal.                                        *)
Recovered(r) == IF Loaded(r) \in OCCUPIES_SLOT THEN "failed" ELSE Loaded(r)

(* The process is killed, at any point, and started again: memory and      *)
(* sockets are gone.                                                       *)
Restart ==
    /\ Crashes
    /\ state' = [r \in Run |-> Recovered(r)]
    /\ manifest' = [r \in Run |-> IF Loaded(r) \in OCCUPIES_SLOT THEN Recovered(r) ELSE manifest[r]]
    /\ unjournaled' = NoRun
    /\ startingSince' = [r \in Run |-> "none"]
    /\ stoppingSince' = [r \in Run |-> "none"]
    /\ lateStops' = {}
    /\ rec' = [n \in Node |-> NoRecord]
    /\ socket' = [n \in Node |-> FALSE]
    /\ stale' = [n \in Node |-> 0]
    /\ attaching' = [n \in Node |-> 0]
    /\ tasks' = {}
    /\ UNCHANGED <<kind, removed, reports, journal>>

-----------------------------------------------------------------------------

Init ==
    /\ state = [r \in Run |-> Absent]
    /\ kind = [r \in Run |-> CHOOSE k \in RunKinds : TRUE]
    /\ removed = [r \in Run |-> FALSE]
    /\ reports = [r \in Run |-> {}]
    /\ startingSince = [r \in Run |-> "none"]
    /\ stoppingSince = [r \in Run |-> "none"]
    /\ lateStops = {}
    /\ rec = [n \in Node |-> NoRecord]
    /\ socket = [n \in Node |-> FALSE]
    /\ stale = [n \in Node |-> 0]
    /\ attaching = [n \in Node |-> 0]
    /\ tasks = {}
    /\ manifest = [r \in Run |-> Absent]
    /\ journal = [r \in Run |-> Absent]
    /\ unjournaled = NoRun

(* What nodes may name in a frame: a run that exists, or none.             *)
Named == {r \in Run : state[r] # Absent} \cup {NoRun}

Operator == \E r \in Run :
    \/ \E k \in RunKinds : create_run(r, k)
    \/ act_start_refused(r) \/ act_remove(r)
    \/ \E n \in Node \cup {NoNode} : act_start(r, n) \/ act_stop(r, n)

Broadcasts == \E t \in tasks, n \in Node \cup {NoNode} : Resume(t, n)

Frames == \E n \in Node :
    \/ \E run \in Named, running \in BOOLEAN : on_hello(n, run, running)
    \/ \E run \in Named, running, report \in BOOLEAN : on_status(n, run, running, report)
    \/ \E run \in Named, report \in BOOLEAN : on_goodbye(n, run, report)
    \/ attach_node(n) \/ touch(n) \/ detach_current(n) \/ detach_stale(n)

Clock == \/ \E n \in Node : OfflineTimeout(n)
         \/ \E r \in Run : StartTimeout(r) \/ StopTimeout(r)

Supervisor == \E r \in Run :
    _supervise_run(r) \/ \E n \in Node \cup {NoNode} : _auto_stop(r, n)

Next == Operator \/ Broadcasts \/ Frames \/ Clock \/ Supervisor \/ Journal \/ Restart

Spec == Init /\ [][Next]_vars

(* The loop's coroutines are resumed in turn: the supervisor passes over   *)
(* every active run each diagnostics_interval_s, a write to a node         *)
(* completes or fails, and the monotonic clock advances.  Nothing is       *)
(* assumed of the operator or of the nodes.                                *)
Fairness ==
    /\ WF_vars(Broadcasts)
    /\ WF_vars(Journal)
    /\ \A r \in Run : /\ WF_vars(_supervise_run(r))
                      /\ WF_vars(StartTimeout(r))
                      /\ WF_vars(StopTimeout(r))

FairSpec == Spec /\ Fairness

-----------------------------------------------------------------------------
(* Properties.                                                             *)

Timers == {"none", "fresh", "overdue"}

(* Every variable holds a value of its type.                               *)
TypeOK ==
    /\ state \in [Run -> RunStates \cup {Absent}]
    /\ kind \in [Run -> RunKinds]
    /\ removed \in [Run -> BOOLEAN]
    /\ reports \in [Run -> SUBSET Node]
    /\ startingSince \in [Run -> Timers]
    /\ stoppingSince \in [Run -> Timers]
    /\ lateStops \in SUBSET (Node \X Run)
    /\ rec \in [Node -> [run : Run \cup {NoRun}, running : BOOLEAN,
                         connected : BOOLEAN, fresh : BOOLEAN]]
    /\ socket \in [Node -> BOOLEAN]
    /\ stale \in [Node -> Nat]
    /\ attaching \in [Node -> Nat]
    /\ tasks \in SUBSET [op : Ops, run : Run, left : SUBSET Node,
                         by : {"operator", "supervisor"}]
    /\ manifest \in [Run -> RunStates \cup {Absent}]
    /\ journal \in [Run -> RunStates \cup {Absent}]
    /\ unjournaled \in Run \cup {NoRun}

(* At most one run of a zone holds a Recorder slot, whatever the operator, *)
(* the supervisor and a restart do to the zone's other runs meanwhile.     *)
OneActiveRunPerZone ==
    \A r, q \in ActiveRuns : kind[r].zone = kind[q].zone => r = q

(* The admin service implements the abstract slots of ZoneSlots, which a   *)
(* restart empties and nothing else takes from a run but its end.          *)
Slots == INSTANCE ZoneSlots WITH
            Zone  <- Zones,
            CanCrash <- Crashes,
            slot  <- [z \in Zones |-> ActiveRunIn(z)],
            spent <- {r \in Run : state[r] \in TERMINAL}

ImplementsZoneSlots == Slots!Spec

(* A start refused by the headroom check: active in memory, untimed.       *)
Refused(r) == state[r] = "starting" /\ startingSince[r] = "none"

(* However the broadcasts of a run's start and stops, the supervisor and   *)
(* late reports interleave, once no handler of the run is suspended the    *)
(* manifest and the journal hold the state the run has in memory.  Only a  *)
(* restart, or a start the headroom check refused, leaves them behind.     *)
PersistedWhenQuiet ==
    \A r \in Run : TasksOf(r) = {} /\ ~Refused(r)
        => /\ manifest[r] = state[r]
           /\ unjournaled # r => journal[r] = state[r]

(* The registry never shows as connected a node that no command can be     *)
(* sent to: the targets of a broadcast all have a socket when it begins.   *)
ConnectedHasSocket == \A n \in Node : rec[n].connected => socket[n]

(* Once the journal has a run past draft, no crash at any point makes the  *)
(* recovery offer it as a draft again, to be recorded twice.               *)
StartIsRemembered ==
    \A r \in Run : journal[r] \notin {Absent, "draft"} => state[r] # "draft"

NotFailedOnline ==
    \A r \in Run : state[r] \in {"running", "degraded"} /\ OnlineOf(r) # {}
                  => state'[r] # "failed"

(* A measurement is not failed under its nodes: while any participant of a *)
(* recording run is online, losing the others, or quorum, only degrades    *)
(* it.                                                                     *)
OnlineRunNotFailed == [][NotFailedOnline]_vars

(* A run whose stop went out does not keep its zone: it leaves `stopping`  *)
(* by its reports, its nodes going offline, or the stop timeout, even when *)
(* a participant stays online and never reports.                           *)
StoppingResolves == \A r \in Run : state[r] = "stopping" ~> state[r] # "stopping"

(* A run whose start went out does not keep its zone in `starting`: quorum *)
(* or the start timeout ends it, also when nobody ever joins.              *)
TimedStartResolves ==
    \A r \in Run : (state[r] = "starting" /\ ~Refused(r)) ~> state[r] # "starting"

(* A reconnect wins over the socket it replaces: a node with a current     *)
(* socket is connected.                                                    *)
CurrentSocketIsConnected == \A n \in Node : socket[n] => rec[n].connected

(* A run that run.json says was stopped is not rewritten as failed: the    *)
(* journal is replayed for what it recorded after the last manifest write. *)
StoppedStaysStopped ==
    [][\A r \in Run : manifest[r] = "stopped" => manifest'[r] \in {"stopped", "removed"}]_vars
=============================================================================
