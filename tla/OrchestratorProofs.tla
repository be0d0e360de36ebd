------------------------- MODULE OrchestratorProofs -------------------------
(***************************************************************************)
(* Theorems about the admin service for every number of runs, every set of *)
(* nodes, zones and profiles, and every assignment of the other constants. *)
(***************************************************************************)
EXTENDS Orchestrator, TLAPS

-----------------------------------------------------------------------------
(* The state table.                                                        *)

(* Where each operator action is legal and where it leads.                 *)
LEMMA ActionsInTable ==
    ASSUME NEW s
    PROVE  /\ Legal(s, "start") => s = "draft" /\ advance(s, "start") = "starting"
           /\ Legal(s, "stop") => /\ s \in OCCUPIES_SLOT
                                  /\ advance(s, "stop") \in {"stopping", "stopped"}
           /\ Legal(s, "remove") => /\ s \in {"draft", "stopped", "failed"}
                                    /\ advance(s, "remove") = "removed"
  BY DEF Legal, advance, Transitions, OCCUPIES_SLOT

(* The buttons the operator page offers for a run (_ALLOWED) are exactly   *)
(* the actions the transition table (_TRANSITIONS) accepts: the page       *)
(* offers no action that act() refuses, and hides none it accepts.         *)
THEOREM AllowedIsTheTable ==
    \A s \in RunStates : Allowed[s] = {a \in Actions : Legal(s, a)}
  BY DEF RunStates, Allowed, Actions, Legal, Transitions

(* The transitions the supervisor makes.                                   *)
LEMMA EventsInTable ==
    /\ advance("starting", "quorum_met") = "running"
    /\ advance("starting", "start_timeout") = "failed"
    /\ advance("running", "participant_lost") = "degraded"
    /\ advance("degraded", "participant_recovered") = "running"
    /\ advance("stopping", "reports_complete") = "stopped"
    /\ advance("stopping", "stop_timeout") = "stopped"
    /\ \A s \in ACCEPTS_PARTICIPANTS : advance(s, "all_offline") = "failed"
  BY DEF advance, Transitions, ACCEPTS_PARTICIPANTS

(* A pass of the supervisor leaves an active run active, or ends it.       *)
LEMMA VerdictRange ==
    ASSUME NEW r, state[r] \in OCCUPIES_SLOT
    PROVE  Verdict(r) \in OCCUPIES_SLOT \cup {"stopped", "failed"}
  <1>1. Judged(r) \in OCCUPIES_SLOT \cup {"stopped", "failed"}
    BY EventsInTable DEF Judged, OCCUPIES_SLOT
  <1>2. ASSUME NEW s \in OCCUPIES_SLOT \cup {"stopped", "failed"}
        PROVE  JudgedOffline(r, s) \in OCCUPIES_SLOT \cup {"stopped", "failed"}
    BY EventsInTable DEF JudgedOffline, Abandoned
  <1>3. ASSUME NEW s \in OCCUPIES_SLOT \cup {"stopped", "failed"}
        PROVE  JudgedReports(r, s) \in OCCUPIES_SLOT \cup {"stopped", "failed"}
    BY EventsInTable DEF JudgedReports
  <1> QED BY <1>1, <1>2, <1>3 DEF Verdict

(* The classes of states are states, and no active state is terminal.      *)
LEMMA StateClasses ==
    /\ OCCUPIES_SLOT \subseteq RunStates
    /\ TERMINAL \subseteq RunStates
    /\ OCCUPIES_SLOT \cap TERMINAL = {}
    /\ "draft" \in RunStates \ (OCCUPIES_SLOT \cup TERMINAL)
    /\ "starting" \in OCCUPIES_SLOT
    /\ "stopping" \in OCCUPIES_SLOT
    /\ {"stopped", "failed", "removed"} \subseteq TERMINAL
    /\ Absent \notin RunStates
  BY DEF OCCUPIES_SLOT, TERMINAL, RunStates, Absent

-----------------------------------------------------------------------------
(* Type correctness.                                                       *)

(* _persist writes a state into the manifest.                              *)
LEMMA PersistType ==
    ASSUME TypeOK, NEW r \in Run, NEW s \in RunStates \cup {Absent}, Persist(r, s)
    PROVE  /\ manifest' \in [Run -> RunStates \cup {Absent}]
           /\ journal' \in [Run -> RunStates \cup {Absent}]
           /\ unjournaled' \in Run \cup {NoRun}
  BY DEF TypeOK, Persist, save

(* A broadcast adds a well-formed task, or persists.                       *)
LEMMA BroadcastType ==
    ASSUME TypeOK, NEW op \in Ops, NEW r \in Run, NEW targets \in SUBSET Node, NEW n,
           NEW by \in {"operator", "supervisor"}, NEW s \in RunStates,
           Broadcast(op, r, targets, n, by, s)
    PROVE  /\ tasks' \in SUBSET [op : Ops, run : Run, left : SUBSET Node,
                                 by : {"operator", "supervisor"}]
           /\ manifest' \in [Run -> RunStates \cup {Absent}]
           /\ journal' \in [Run -> RunStates \cup {Absent}]
           /\ unjournaled' \in Run \cup {NoRun}
  <1>1. CASE n = NoNode
    BY <1>1, PersistType DEF Broadcast, TypeOK
  <1>2. CASE n # NoNode
    BY <1>2 DEF Broadcast, TypeOK, Task, diskVars
  <1> QED BY <1>1, <1>2

(* Stopping a run, by the operator or the supervisor, keeps the types.     *)
LEMMA StopType ==
    ASSUME TypeOK, NEW r \in Run, NEW n, NEW by \in {"operator", "supervisor"},
           Stop(r, n, by)
    PROVE  TypeOK'
  <1>1. advance(state[r], "stop") \in RunStates
    <2>1. advance(state[r], "stop") \in {"stopping", "stopped"}
      BY ActionsInTable DEF Stop, MayAct
    <2> QED BY <2>1 DEF RunStates
  <1>2. Members(r) \in SUBSET Node
    BY DEF Members, InZone
  <1>3. (IF state[r] = "stopping" THEN "stop again" ELSE "stop") \in Ops
    BY DEF Ops
  <1>4. /\ tasks' \in SUBSET [op : Ops, run : Run, left : SUBSET Node,
                              by : {"operator", "supervisor"}]
        /\ manifest' \in [Run -> RunStates \cup {Absent}]
        /\ journal' \in [Run -> RunStates \cup {Absent}]
        /\ unjournaled' \in Run \cup {NoRun}
    BY <1>1, <1>2, <1>3, BroadcastType DEF Stop
  <1> QED BY <1>1, <1>4 DEF Stop, TypeOK, Timers, netVars, sockVars

(* The operator's actions keep the types.                                  *)
LEMMA OperatorType == TypeOK /\ Operator => TypeOK'
  <1> SUFFICES ASSUME TypeOK, NEW r \in Run,
                      \/ \E k \in RunKinds : create_run(r, k)
                      \/ act_start_refused(r) \/ act_remove(r)
                      \/ \E n \in Node \cup {NoNode} : act_start(r, n) \/ act_stop(r, n)
               PROVE  TypeOK'
    BY DEF Operator
  <1>1. ASSUME NEW k \in RunKinds, create_run(r, k) PROVE TypeOK'
    BY <1>1, PersistType, StateClasses DEF create_run, TypeOK, timeVars, netVars, sockVars
  <1>2. CASE act_start_refused(r)
    BY <1>2, ActionsInTable, StateClasses
    DEF act_start_refused, MayAct, TypeOK, timeVars, netVars, sockVars, diskVars
  <1>3. CASE act_remove(r)
    <2>1. advance(state[r], "remove") = "removed" /\ "removed" \in RunStates
      BY <1>3, ActionsInTable, StateClasses DEF act_remove, MayAct
    <2> QED BY <1>3, <2>1, PersistType DEF act_remove, TypeOK, timeVars, netVars, sockVars
  <1>4. ASSUME NEW n, act_start(r, n) PROVE TypeOK'
    <2>1. advance(state[r], "start") \in RunStates
      BY <1>4, ActionsInTable, StateClasses DEF act_start, MayAct
    <2>2. InZone(r) \in SUBSET Node /\ "start" \in Ops
      BY DEF InZone, Ops
    <2>3. /\ tasks' \in SUBSET [op : Ops, run : Run, left : SUBSET Node,
                                by : {"operator", "supervisor"}]
          /\ manifest' \in [Run -> RunStates \cup {Absent}]
          /\ journal' \in [Run -> RunStates \cup {Absent}]
          /\ unjournaled' \in Run \cup {NoRun}
      BY <1>4, <2>1, <2>2, BroadcastType DEF act_start
    <2> QED BY <1>4, <2>1, <2>3 DEF act_start, TypeOK, Timers, netVars, sockVars
  <1>5. ASSUME NEW n, act_stop(r, n) PROVE TypeOK'
    BY <1>5, StopType DEF act_stop
  <1> QED BY <1>1, <1>2, <1>3, <1>4, <1>5

(* A resumed broadcast keeps the types.                                    *)
LEMMA BroadcastsType == TypeOK /\ Broadcasts => TypeOK'
  <1> SUFFICES ASSUME TypeOK, NEW t \in tasks, NEW n \in Node \cup {NoNode}, Resume(t, n)
               PROVE  TypeOK'
    BY DEF Broadcasts
  <1>1. t \in [op : Ops, run : Run, left : SUBSET Node, by : {"operator", "supervisor"}]
    BY DEF TypeOK
  <1>2. CASE n # NoNode
    <2>1. Task(t.op, t.run, t.left \ {n}, t.by)
              \in [op : Ops, run : Run, left : SUBSET Node, by : {"operator", "supervisor"}]
      BY <1>1 DEF Task
    <2>2. tasks' = (tasks \ {t}) \cup {Task(t.op, t.run, t.left \ {n}, t.by)}
          /\ UNCHANGED <<runVars, timeVars, lateStops, netVars, diskVars>>
      BY <1>2 DEF Resume
    <2>3. tasks' \in SUBSET [op : Ops, run : Run, left : SUBSET Node,
                            by : {"operator", "supervisor"}]
      BY <2>1, <2>2 DEF TypeOK
    <2> QED BY <2>2, <2>3
            DEF TypeOK, runVars, timeVars, netVars, sockVars, diskVars
  <1>3. CASE n = NoNode /\ t.op = "fail"
    <2>1. tasks' = tasks \ {t} /\ UNCHANGED <<runVars, timeVars, lateStops, netVars, diskVars>>
      BY <1>3 DEF Resume
    <2>2. tasks' \in SUBSET [op : Ops, run : Run, left : SUBSET Node,
                            by : {"operator", "supervisor"}]
      BY <2>1 DEF TypeOK
    <2> QED BY <2>1, <2>2
            DEF TypeOK, runVars, timeVars, netVars, sockVars, diskVars
  <1>4. CASE n = NoNode /\ t.op # "fail"
    <2>1. t.run \in Run /\ state[t.run] \in RunStates \cup {Absent}
      BY <1>1 DEF TypeOK
    <2>2. Persist(t.run, StateToSave(t))
      BY <1>4 DEF Resume
    <2> QED BY <1>4, <2>1, <2>2, PersistType DEF Resume, StateToSave, TypeOK, runVars, timeVars, netVars, sockVars
  <1> QED BY <1>2, <1>3, <1>4

(* A frame of a node, or the end of its connection, keeps the types.       *)
LEMMA FramesType == TypeOK /\ Frames => TypeOK'
  <1> SUFFICES ASSUME TypeOK, NEW n \in Node,
                      \/ \E run \in Named, running \in BOOLEAN : on_hello(n, run, running)
                      \/ \E run \in Named, running, report \in BOOLEAN :
                            on_status(n, run, running, report)
                      \/ \E run \in Named, report \in BOOLEAN : on_goodbye(n, run, report)
                      \/ attach_node(n) \/ touch(n) \/ detach_current(n) \/ detach_stale(n)
               PROVE  TypeOK'
    BY DEF Frames
  <1>1. Named \subseteq Run \cup {NoRun}
    BY DEF Named
  <1>2. ASSUME NEW run \in Named, NEW running \in BOOLEAN, on_hello(n, run, running)
        PROVE  TypeOK'
    <2>1. attaching' \in [Node -> Nat]
      BY <1>2 DEF on_hello, TypeOK
    <2> QED BY <1>1, <1>2, <2>1 DEF on_hello, TypeOK, Record, runVars, timeVars, diskVars
  <1>3. ASSUME NEW to, File(n, to)
        PROVE  /\ reports' \in [Run -> SUBSET Node]
               /\ manifest' \in [Run -> RunStates \cup {Absent}]
    BY <1>3 DEF File, TypeOK
  <1>4. ASSUME NEW run \in Named, NEW running \in BOOLEAN, NEW report \in BOOLEAN,
               on_status(n, run, running, report)
        PROVE  TypeOK'
    <2>1. lateStops' \in SUBSET (Node \X Run)
      BY <1>1, <1>4 DEF on_status, TypeOK, LateStop
    <2>2. /\ reports' \in [Run -> SUBSET Node]
          /\ manifest' \in [Run -> RunStates \cup {Absent}]
      BY <1>3, <1>4 DEF on_status
    <2> QED BY <1>1, <1>4, <2>1, <2>2 DEF on_status, TypeOK, Record, timeVars, sockVars
  <1>5. ASSUME CurrentEnds(n) \/ StaleEnds(n)
        PROVE  /\ socket' \in [Node -> BOOLEAN]
               /\ stale' \in [Node -> Nat]
               /\ attaching' \in [Node -> Nat]
    <2>1. CASE CurrentEnds(n)
      BY <2>1 DEF CurrentEnds, TypeOK
    <2>2. CASE StaleEnds(n)
      <3>1. stale[n] - 1 \in Nat
        BY <2>2 DEF StaleEnds, TypeOK
      <3> QED BY <2>2, <3>1 DEF StaleEnds, TypeOK
    <2> QED BY <1>5, <2>1, <2>2
  <1>6. ASSUME NEW run \in Named, NEW report \in BOOLEAN, on_goodbye(n, run, report)
        PROVE  TypeOK'
    <2>1. /\ reports' \in [Run -> SUBSET Node]
          /\ manifest' \in [Run -> RunStates \cup {Absent}]
      BY <1>3, <1>6 DEF on_goodbye
    <2>2. CurrentEnds(n) \/ StaleEnds(n)
      BY <1>6 DEF on_goodbye
    <2> QED BY <1>5, <1>6, <2>1, <2>2 DEF on_goodbye, TypeOK, Record, timeVars
  <1>7. CASE attach_node(n)
    <2>1. attaching[n] - 1 \in Nat
      BY <1>7 DEF attach_node, TypeOK
    <2>2. attaching' \in [Node -> Nat] /\ stale' \in [Node -> Nat]
      BY <1>7, <2>1 DEF attach_node, TypeOK
    <2> QED BY <1>7, <2>2 DEF attach_node, TypeOK, runVars, timeVars, diskVars
  <1>8. CASE touch(n)
    BY <1>8 DEF touch, TypeOK, Record, runVars, timeVars, sockVars, diskVars
  <1>9. CASE detach_current(n)
    <2>1. CurrentEnds(n)
      BY <1>9 DEF detach_current
    <2> QED BY <1>5, <1>9, <2>1 DEF detach_current, TypeOK, Record, runVars, timeVars, diskVars
  <1>10. CASE detach_stale(n)
    <2>1. StaleEnds(n)
      BY <1>10 DEF detach_stale
    <2> QED BY <1>5, <1>10, <2>1 DEF detach_stale, TypeOK, Record, runVars, timeVars, diskVars
  <1> QED BY <1>2, <1>4, <1>6, <1>7, <1>8, <1>9, <1>10

(* A timer that runs out keeps the types.                                  *)
LEMMA ClockType == TypeOK /\ Clock => TypeOK'
  <1> SUFFICES ASSUME TypeOK, Clock PROVE TypeOK'
    OBVIOUS
  <1>1. ASSUME NEW n \in Node, OfflineTimeout(n) PROVE TypeOK'
    BY <1>1 DEF OfflineTimeout, TypeOK, Record, runVars, timeVars, sockVars, diskVars
  <1>2. ASSUME NEW r \in Run, StartTimeout(r) PROVE TypeOK'
    BY <1>2 DEF StartTimeout, TypeOK, Timers, runVars, netVars, sockVars, diskVars
  <1>3. ASSUME NEW r \in Run, StopTimeout(r) PROVE TypeOK'
    BY <1>3 DEF StopTimeout, TypeOK, Timers, runVars, netVars, sockVars, diskVars
  <1> QED BY <1>1, <1>2, <1>3 DEF Clock

(* A pass of the supervisor keeps the types.                               *)
LEMMA SupervisorType == TypeOK /\ Supervisor => TypeOK'
  <1> SUFFICES ASSUME TypeOK, NEW r \in Run,
                      _supervise_run(r) \/ \E n \in Node \cup {NoNode} : _auto_stop(r, n)
               PROVE  TypeOK'
    BY DEF Supervisor
  <1>1. CASE _supervise_run(r)
    <2>1. Verdict(r) \in RunStates
      BY <1>1, VerdictRange, StateClasses DEF _supervise_run
    <2>2. /\ manifest' \in [Run -> RunStates \cup {Absent}]
          /\ journal' \in [Run -> RunStates \cup {Absent}]
          /\ unjournaled' \in Run \cup {NoRun}
      <3>1. CASE Verdict(r) # state[r]
        BY <1>1, <2>1, <3>1, PersistType DEF _supervise_run
      <3>2. CASE Verdict(r) = state[r]
        BY <1>1, <3>2 DEF _supervise_run, diskVars, TypeOK
      <3> QED BY <3>1, <3>2
    <2>3. tasks' \in SUBSET [op : Ops, run : Run, left : SUBSET Node,
                             by : {"operator", "supervisor"}]
      <3>1. Task("fail", r, Members(r), "supervisor")
              \in [op : Ops, run : Run, left : SUBSET Node, by : {"operator", "supervisor"}]
        BY DEF Task, Ops, Members, InZone
      <3> QED BY <1>1, <3>1 DEF _supervise_run, TypeOK
    <2>4. startingSince' \in [Run -> Timers] /\ stoppingSince' \in [Run -> Timers]
      BY <1>1 DEF _supervise_run, TypeOK, Timers
    <2> QED BY <1>1, <2>1, <2>2, <2>3, <2>4 DEF _supervise_run, TypeOK, netVars, sockVars
  <1>2. ASSUME NEW n, _auto_stop(r, n) PROVE TypeOK'
    BY <1>2, StopType DEF _auto_stop
  <1> QED BY <1>1, <1>2

(* A kill and a restart keep the types.                                    *)
LEMMA RestartType == TypeOK /\ Restart => TypeOK'
  <1> SUFFICES ASSUME TypeOK, Restart PROVE TypeOK'
    OBVIOUS
  <1>1. \A r \in Run : Loaded(r) \in RunStates \cup {Absent}
    BY DEF Loaded, TypeOK
  <1>2. "failed" \in RunStates
    BY DEF RunStates
  <1>3. /\ state' \in [Run -> RunStates \cup {Absent}]
        /\ manifest' \in [Run -> RunStates \cup {Absent}]
    BY <1>1, <1>2 DEF Restart, Recovered, TypeOK
  <1> QED BY <1>3 DEF Restart, TypeOK, Timers, NoRecord, Record, NoRun

(* Every variable keeps its type: the type invariant is inductive.         *)
LEMMA InitType == Init => TypeOK
  BY ConstantsAssumption DEF Init, TypeOK, NoRecord, Record, Timers, Run, NoRun, Absent

(* Every step keeps the types.                                             *)
LEMMA NextType == TypeOK /\ [Next]_vars => TypeOK'
  <1> SUFFICES ASSUME TypeOK, [Next]_vars PROVE TypeOK'
    OBVIOUS
  <1>1. CASE Journal
    BY <1>1 DEF Journal, TypeOK, NoRun, runVars, timeVars, netVars, sockVars
  <1>2. CASE UNCHANGED vars
    BY <1>2 DEF vars, TypeOK, runVars, timeVars, netVars, sockVars, diskVars
  <1> QED BY <1>1, <1>2, OperatorType, BroadcastsType, FramesType, ClockType,
             SupervisorType, RestartType DEF Next

(* The type invariant holds in every state of the admin service.           *)
THEOREM TypeCorrect == Spec => []TypeOK
  BY InitType, NextType, PTL DEF Spec

-----------------------------------------------------------------------------
(* What a step does to the states of the runs.                             *)

Created(r, k) ==
    /\ state[r] = Absent
    /\ state' = [state EXCEPT ![r] = "draft"]
    /\ kind' = [kind EXCEPT ![r] = k]

Started(r) ==
    /\ state[r] = "draft"
    /\ SlotFree(r)
    /\ state' = [state EXCEPT ![r] = "starting"]
    /\ kind' = kind

Moved(r, s) ==
    /\ state[r] \in OCCUPIES_SLOT
    /\ s \in OCCUPIES_SLOT \cup {"stopped", "failed"}
    /\ state' = [state EXCEPT ![r] = s]
    /\ kind' = kind

Removed(r) ==
    /\ state[r] \in {"draft", "stopped", "failed"}
    /\ state' = [state EXCEPT ![r] = "removed"]
    /\ kind' = kind

(* The steps of the service while its process lives.                       *)
Lives == Operator \/ Broadcasts \/ Frames \/ Clock \/ Supervisor \/ Journal \/ UNCHANGED vars

(* Every such step creates, starts, moves or removes one run, or leaves    *)
(* every run as it was; an active run is moved by a stop or by the         *)
(* supervisor.                                                             *)
LEMMA LivingStep ==
    ASSUME Lives
    PROVE  \/ state' = state /\ kind' = kind
           \/ \E r \in Run, k \in RunKinds : Created(r, k)
           \/ \E r \in Run : \/ Started(r) \/ Removed(r)
                             \/ \E s \in {"stopping", "stopped"} : Moved(r, s)
                             \/ _supervise_run(r) /\ Moved(r, Verdict(r))
  <1>1. ASSUME NEW r \in Run, NEW n, NEW by, Stop(r, n, by)
        PROVE  \E s \in {"stopping", "stopped"} : Moved(r, s)
    <2>1. state[r] \in OCCUPIES_SLOT /\ advance(state[r], "stop") \in {"stopping", "stopped"}
      BY <1>1, ActionsInTable DEF Stop, MayAct
    <2> QED BY <1>1, <2>1, StateClasses DEF Stop, Moved
  <1>2. CASE Operator
    <2> PICK r \in Run :
          \/ \E k \in RunKinds : create_run(r, k)
          \/ act_start_refused(r) \/ act_remove(r)
          \/ \E n \in Node \cup {NoNode} : act_start(r, n) \/ act_stop(r, n)
      BY <1>2 DEF Operator
    <2>1. ASSUME NEW k \in RunKinds, create_run(r, k) PROVE Created(r, k)
      BY <2>1 DEF create_run, Created
    <2>2. CASE act_start_refused(r)
      <3>1. Started(r)
        BY <2>2, ActionsInTable DEF act_start_refused, MayAct, Started
      <3> QED BY <3>1
    <2>3. CASE act_remove(r)
      <3>1. Removed(r)
        BY <2>3, ActionsInTable DEF act_remove, MayAct, Removed
      <3> QED BY <3>1
    <2>4. ASSUME NEW n, act_start(r, n) PROVE Started(r)
      BY <2>4, ActionsInTable DEF act_start, MayAct, Started
    <2>5. ASSUME NEW n, act_stop(r, n) PROVE \E s \in {"stopping", "stopped"} : Moved(r, s)
      BY <2>5, <1>1 DEF act_stop
    <2> QED BY <2>1, <2>2, <2>3, <2>4, <2>5
  <1>3. CASE Broadcasts
    BY <1>3 DEF Broadcasts, Resume, runVars
  <1>4. CASE Frames
    BY <1>4 DEF Frames, on_hello, on_status, on_goodbye, attach_node, touch, detach_current,
                detach_stale, runVars
  <1>5. CASE Clock
    BY <1>5 DEF Clock, OfflineTimeout, StartTimeout, StopTimeout, runVars
  <1>6. CASE Supervisor
    <2> PICK r \in Run : _supervise_run(r) \/ \E n \in Node \cup {NoNode} : _auto_stop(r, n)
      BY <1>6 DEF Supervisor
    <2>1. CASE _supervise_run(r)
      <3>1. Moved(r, Verdict(r))
        BY <2>1, VerdictRange DEF _supervise_run, Moved
      <3> QED BY <2>1, <3>1
    <2>2. ASSUME NEW n, _auto_stop(r, n) PROVE \E s \in {"stopping", "stopped"} : Moved(r, s)
      BY <2>2, <1>1 DEF _auto_stop
    <2> QED BY <2>1, <2>2
  <1>7. CASE Journal
    BY <1>7 DEF Journal, runVars
  <1>8. CASE UNCHANGED vars
    BY <1>8 DEF vars, runVars
  <1> QED BY <1>2, <1>3, <1>4, <1>5, <1>6, <1>7, <1>8 DEF Lives

(* A step of the service is one of these or a restart.                     *)
LEMMA StateStep ==
    ASSUME [Next]_vars
    PROVE  \/ state' = state /\ kind' = kind
           \/ \E r \in Run, k \in RunKinds : Created(r, k)
           \/ \E r \in Run : \/ Started(r) \/ Removed(r)
                             \/ \E s \in {"stopping", "stopped"} : Moved(r, s)
                             \/ _supervise_run(r) /\ Moved(r, Verdict(r))
           \/ Restart
  <1>1. Lives \/ Restart
    BY DEF Next, Lives
  <1> QED BY <1>1, LivingStep

(* After a restart no run is active.                                       *)
LEMMA RestartEmpties == Restart => \A r \in Run : state'[r] \notin OCCUPIES_SLOT
  BY StateClasses DEF Restart, Recovered

-----------------------------------------------------------------------------
(* One active run per zone.                                                *)

(* No step puts a second run into the slot of a zone.                      *)
LEMMA OneActiveStep ==
    ASSUME TypeOK, OneActiveRunPerZone, [Next]_vars
    PROVE  OneActiveRunPerZone'
  <1> SUFFICES ASSUME NEW r \in Run, NEW q \in Run,
                      state'[r] \in OCCUPIES_SLOT, state'[q] \in OCCUPIES_SLOT,
                      kind'[r].zone = kind'[q].zone
               PROVE  r = q
    BY DEF OneActiveRunPerZone, ActiveRuns
  <1>1. ASSUME state[r] \in OCCUPIES_SLOT, state[q] \in OCCUPIES_SLOT,
               kind[r] = kind'[r], kind[q] = kind'[q]
        PROVE  r = q
    BY <1>1 DEF OneActiveRunPerZone, ActiveRuns
  <1>2. CASE state' = state /\ kind' = kind
    BY <1>1, <1>2
  <1>3. ASSUME NEW c \in Run, NEW k \in RunKinds, Created(c, k) PROVE r = q
    BY <1>1, <1>3, StateClasses DEF Created, TypeOK
  <1>4. ASSUME NEW c \in Run, Started(c) PROVE r = q
    <2>1. \A p \in Run \ {c} : state[p] \in OCCUPIES_SLOT => kind[p].zone # kind[c].zone
      BY <1>4 DEF Started, SlotFree, ActiveRunIn, ActiveRuns
    <2>2. \A p \in Run \ {c} : state'[p] = state[p]
      BY <1>4 DEF Started, TypeOK
    <2> QED BY <1>1, <1>4, <2>1, <2>2 DEF Started
  <1>5. ASSUME NEW c \in Run, Removed(c) PROVE r = q
    BY <1>1, <1>5, StateClasses DEF Removed, TypeOK
  <1>6. ASSUME NEW c \in Run, NEW s, Moved(c, s) PROVE r = q
    BY <1>1, <1>6, StateClasses DEF Moved, TypeOK
  <1>7. CASE Restart
    BY <1>7, RestartEmpties
  <1> QED BY <1>2, <1>3, <1>4, <1>5, <1>6, <1>7, StateStep

(* No two runs of a zone hold a Recorder slot at once, for any number of   *)
(* runs and zones and any interleaving of the operator, the supervisor,    *)
(* the nodes and restarts (act() checks active_run_in before it starts).   *)
THEOREM OneActiveRunPerZoneHolds == Spec => []OneActiveRunPerZone
  <1>1. Init => OneActiveRunPerZone
    BY StateClasses DEF Init, OneActiveRunPerZone, ActiveRuns
  <1>2. TypeOK /\ OneActiveRunPerZone /\ [Next]_vars => OneActiveRunPerZone'
    BY OneActiveStep
  <1> QED BY <1>1, <1>2, TypeCorrect, PTL DEF Spec

-----------------------------------------------------------------------------
(* Recovery.                                                               *)

(* The states of a run that has been started or has ended.                 *)
Past == OCCUPIES_SLOT \cup TERMINAL

(* What a restart loads is never ahead of memory: a run the journal has as *)
(* past draft is past draft, and so is one that only its manifest has.     *)
(* The other parts keep the first two inductive: the journal only knows    *)
(* runs that have a manifest, and what is about to be written exists.      *)
DiskBehind ==
    /\ \A r \in Run : journal[r] \in Past => state[r] \in Past
    /\ \A r \in Run : journal[r] = Absent /\ manifest[r] \in Past => state[r] \in Past
    /\ \A r \in Run : manifest[r] = Absent => journal[r] = Absent
    /\ \A t \in tasks : state[t.run] # Absent
    /\ unjournaled # NoRun => manifest[unjournaled] # Absent /\ state[unjournaled] # Absent

(* A run that is past draft stays so until a restart.                      *)
LEMMA PastStays ==
    ASSUME TypeOK, [Next]_vars, ~Restart, NEW r \in Run
    PROVE  /\ state[r] \in Past => state'[r] \in Past
           /\ state[r] # Absent => state'[r] # Absent
  <1>1. ASSUME NEW c \in Run, NEW k \in RunKinds, Created(c, k)
        PROVE  /\ state[r] \in Past => state'[r] \in Past
               /\ state[r] # Absent => state'[r] # Absent
    BY <1>1, StateClasses DEF Created, Past, TypeOK
  <1>2. ASSUME NEW c \in Run, Started(c)
        PROVE  /\ state[r] \in Past => state'[r] \in Past
               /\ state[r] # Absent => state'[r] # Absent
    BY <1>2, StateClasses DEF Started, Past, TypeOK
  <1>3. ASSUME NEW c \in Run, Removed(c)
        PROVE  /\ state[r] \in Past => state'[r] \in Past
               /\ state[r] # Absent => state'[r] # Absent
    BY <1>3, StateClasses DEF Removed, Past, TypeOK
  <1>4. ASSUME NEW c \in Run, NEW s, Moved(c, s)
        PROVE  /\ state[r] \in Past => state'[r] \in Past
               /\ state[r] # Absent => state'[r] # Absent
    BY <1>4, StateClasses DEF Moved, Past, TypeOK
  <1> QED BY <1>1, <1>2, <1>3, <1>4, StateStep

(* What a step may write: of a manifest or a journal entry that changes,   *)
(* the new value is the state the run now has, and the run exists.         *)
Writes ==
    /\ \A r \in Run : manifest'[r] = manifest[r]
                      \/ (manifest'[r] = state'[r] /\ state'[r] # Absent)
    /\ \A r \in Run : journal'[r] = journal[r]
                      \/ (journal'[r] = state'[r] /\ unjournaled = r)
    /\ \A t \in tasks' : (\E u \in tasks : u.run = t.run) \/ state'[t.run] # Absent
    /\ unjournaled' # NoRun => /\ manifest'[unjournaled'] # Absent
                               /\ state'[unjournaled'] # Absent

(* _persist writes its run only.                                           *)
LEMMA PersistWrites ==
    ASSUME TypeOK, NEW r \in Run, NEW s, Persist(r, s), state'[r] = s, s # Absent
    PROVE  /\ \A q \in Run : manifest'[q] = manifest[q]
                             \/ (manifest'[q] = state'[q] /\ state'[q] # Absent)
           /\ journal' = journal
           /\ unjournaled' # NoRun => /\ manifest'[unjournaled'] # Absent
                                      /\ state'[unjournaled'] # Absent
  BY DEF Persist, save, TypeOK

(* A broadcast writes its run only, and only when it has no target.        *)
LEMMA BroadcastWrites ==
    ASSUME TypeOK, LoopFree, NEW op, NEW r \in Run, NEW targets, NEW n, NEW by, NEW s,
           Broadcast(op, r, targets, n, by, s), state'[r] = s, s # Absent
    PROVE  Writes
  <1>1. CASE n = NoNode
    <2>1. Persist(r, s) /\ tasks' = tasks
      BY <1>1 DEF Broadcast
    <2> QED BY <2>1, PersistWrites DEF Writes
  <1>2. CASE n # NoNode
    <2>1. /\ \A t \in tasks' : (\E u \in tasks : u.run = t.run) \/ state'[t.run] # Absent
          /\ manifest' = manifest /\ journal' = journal /\ unjournaled' = unjournaled
      BY <1>2 DEF Broadcast, Task, diskVars
    <2> QED BY <2>1 DEF Writes, LoopFree
  <1> QED BY <1>1, <1>2

(* What a step of the living process may write to the disk.                *)
LEMMA WritesOnly ==
    ASSUME TypeOK, DiskBehind, [Next]_vars, ~Restart
    PROVE  Writes
  <1>1. ASSUME NEW r \in Run, NEW n, NEW by, Stop(r, n, by) PROVE Writes
    <2>1. state'[r] = advance(state[r], "stop")
      BY <1>1 DEF Stop, TypeOK
    <2>2. advance(state[r], "stop") \in {"stopping", "stopped"}
      BY <1>1, ActionsInTable DEF Stop, MayAct
    <2>3. advance(state[r], "stop") # Absent
      BY <2>2 DEF Absent
    <2> QED BY <1>1, <2>1, <2>3, BroadcastWrites DEF Stop, MayAct
  <1>2. CASE Operator
    <2> PICK r \in Run :
          \/ \E k \in RunKinds : create_run(r, k)
          \/ act_start_refused(r) \/ act_remove(r)
          \/ \E n \in Node \cup {NoNode} : act_start(r, n) \/ act_stop(r, n)
      BY <1>2 DEF Operator
    <2>1. ASSUME NEW k, create_run(r, k) PROVE Writes
      <3>1. state'[r] = "draft" /\ "draft" # Absent
        BY <2>1 DEF create_run, TypeOK, Absent
      <3> QED BY <2>1, <3>1, PersistWrites DEF create_run, Writes
    <2>2. CASE act_start_refused(r)
      BY <2>2 DEF act_start_refused, MayAct, LoopFree, diskVars, Writes
    <2>3. CASE act_remove(r)
      <3>1. state'[r] = "removed" /\ "removed" # Absent
        BY <2>3, ActionsInTable DEF act_remove, MayAct, TypeOK, Absent
      <3> QED BY <2>3, <3>1, PersistWrites DEF act_remove, Writes
    <2>4. ASSUME NEW n, act_start(r, n) PROVE Writes
      <3>1. state'[r] = advance(state[r], "start") /\ advance(state[r], "start") # Absent
        BY <2>4, ActionsInTable DEF act_start, MayAct, TypeOK, Absent
      <3> QED BY <2>4, <3>1, BroadcastWrites DEF act_start, MayAct
    <2> QED BY <1>1, <2>1, <2>2, <2>3, <2>4 DEF act_stop
  <1>3. CASE Broadcasts
    <2> PICK t \in tasks, n \in Node \cup {NoNode} : Resume(t, n)
      BY <1>3 DEF Broadcasts
    <2>1. t.run \in Run /\ state[t.run] # Absent /\ state' = state
      BY DEF DiskBehind, TypeOK, Resume, runVars
    <2>2. \A u \in tasks' : \E v \in tasks : v.run = u.run
      BY DEF Resume, Task
    <2>3. CASE UNCHANGED diskVars
      BY <2>2, <2>3 DEF Resume, LoopFree, diskVars, Writes
    <2>4. CASE Persist(t.run, StateToSave(t))
      BY <2>1, <2>2, <2>4, PersistWrites DEF Writes, StateToSave
    <2> QED BY <2>3, <2>4 DEF Resume
  <1>4. CASE Frames
    <2>1. PICK n \in Node :
          \/ \E run \in Named, running \in BOOLEAN : on_hello(n, run, running)
          \/ \E run \in Named, running, report \in BOOLEAN :
                on_status(n, run, running, report)
          \/ \E run \in Named, report \in BOOLEAN : on_goodbye(n, run, report)
          \/ attach_node(n) \/ touch(n) \/ detach_current(n) \/ detach_stale(n)
      BY <1>4 DEF Frames
    <2>2. ASSUME NEW to, \A r \in to : r \in Run => state[r] # Absent, File(n, to),
                 LoopFree, state' = state, UNCHANGED <<tasks, journal, unjournaled>>
          PROVE  Writes
      BY <2>2 DEF File, LoopFree, Writes, TypeOK
    <2>3. ASSUME NEW run \in Named, NEW running, NEW report, on_status(n, run, running, report)
          PROVE  Writes
      <3>1. \A r \in (IF report THEN FiledUnder(run) ELSE {}) : r \in Run => state[r] # Absent
        BY StateClasses DEF Named, NoRun, FiledUnder, FirstActive, ActiveRuns
      <3> QED BY <2>2, <2>3, <3>1 DEF on_status
    <2>4. ASSUME NEW run \in Named, NEW report, on_goodbye(n, run, report)
          PROVE  Writes
      <3>1. \A r \in (IF report /\ run # NoRun THEN {run} ELSE {}) : r \in Run => state[r] # Absent
        BY DEF Named
      <3> QED BY <2>2, <2>4, <3>1 DEF on_goodbye
    <2>5. ASSUME LoopFree, UNCHANGED <<runVars, tasks, diskVars>> PROVE Writes
      BY <2>5 DEF LoopFree, runVars, diskVars, Writes
    <2> QED BY <2>1, <2>3, <2>4, <2>5 DEF on_hello, attach_node, touch, detach_current, detach_stale
  <1>5. CASE Clock
    BY <1>5 DEF Clock, OfflineTimeout, StartTimeout, StopTimeout, LoopFree, diskVars, Writes
  <1>6. CASE Supervisor
    <2> PICK r \in Run : _supervise_run(r) \/ \E n \in Node \cup {NoNode} : _auto_stop(r, n)
      BY <1>6 DEF Supervisor
    <2>1. CASE _supervise_run(r)
      <3>1. state'[r] = Verdict(r) /\ Verdict(r) # Absent
        BY <2>1, VerdictRange, StateClasses DEF _supervise_run, TypeOK
      <3>2. \A t \in tasks' : (\E u \in tasks : u.run = t.run) \/ state'[t.run] # Absent
        BY <2>1, <3>1 DEF _supervise_run, Task
      <3>3. CASE Verdict(r) # state[r]
        BY <2>1, <3>1, <3>2, <3>3, PersistWrites DEF _supervise_run, Writes
      <3>4. CASE Verdict(r) = state[r]
        BY <2>1, <3>2, <3>4 DEF _supervise_run, LoopFree, diskVars, Writes
      <3> QED BY <3>3, <3>4
    <2> QED BY <1>1, <2>1 DEF _auto_stop
  <1>7. CASE Journal
    BY <1>7 DEF Journal, runVars, Writes, TypeOK
  <1>8. CASE UNCHANGED vars
    BY <1>8 DEF vars, runVars, diskVars, DiskBehind, Writes
  <1> QED BY <1>2, <1>3, <1>4, <1>5, <1>6, <1>7, <1>8 DEF Next

(* No step takes the disk ahead of the runs.                               *)
LEMMA DiskBehindStep ==
    ASSUME TypeOK, DiskBehind, [Next]_vars
    PROVE  DiskBehind'
  <1>1. CASE Restart
    <2>1. \A r \in Run : Loaded(r) \in Past <=> state'[r] \in Past
      BY <1>1, StateClasses DEF Restart, Recovered, Past
    <2>2. \A r \in Run : /\ journal'[r] = journal[r]
                         /\ manifest'[r] = manifest[r] \/ manifest'[r] = "failed"
                         /\ manifest'[r] = "failed" \/ manifest[r] = manifest'[r]
      BY <1>1 DEF Restart, Recovered
    <2>3. \A r \in Run : journal[r] \in Past => Loaded(r) \in Past
      BY StateClasses DEF DiskBehind, Loaded, Past
    <2>4. \A r \in Run : journal[r] = Absent /\ manifest'[r] \in Past => Loaded(r) \in Past
      BY <1>1 DEF Restart, Loaded, Past
    <2>5. "failed" # Absent
      BY DEF Absent
    <2>6. \A r \in Run : manifest'[r] = Absent => journal'[r] = Absent
      BY <2>2, <2>5 DEF DiskBehind
    <2>7. tasks' = {} /\ unjournaled' = NoRun
      BY <1>1 DEF Restart
    <2> QED BY <2>1, <2>2, <2>3, <2>4, <2>6, <2>7 DEF DiskBehind
  <1>2. CASE ~Restart
    <2>1. Writes
      BY <1>2, WritesOnly
    <2>2. \A r \in Run : /\ state[r] \in Past => state'[r] \in Past
                         /\ state[r] # Absent => state'[r] # Absent
      BY <1>2, PastStays
    <2>3. \A r \in Run : journal'[r] \in Past => state'[r] \in Past
      BY <2>1, <2>2 DEF Writes, DiskBehind
    <2>4. \A r \in Run : manifest'[r] = Absent => journal'[r] = Absent
      <3>1. NoRun \notin Run
        BY DEF NoRun, Run
      <3> QED BY <2>1, <3>1 DEF Writes, DiskBehind
    <2>5. \A r \in Run : journal'[r] = Absent /\ manifest'[r] \in Past => state'[r] \in Past
      <3> SUFFICES ASSUME NEW r \in Run, journal'[r] = Absent, manifest'[r] \in Past,
                          manifest'[r] # state'[r]
                   PROVE  state'[r] \in Past
        OBVIOUS
      <3>1. manifest[r] = manifest'[r]
        BY <2>1 DEF Writes
      <3>2. journal'[r] = journal[r]
        BY <2>1, <2>2 DEF Writes, DiskBehind, NoRun, Run
      <3> QED BY <2>2, <3>1, <3>2 DEF DiskBehind
    <2>6. \A t \in tasks' : state'[t.run] # Absent
      BY <2>1, <2>2 DEF Writes, DiskBehind, TypeOK
    <2>7. unjournaled' # NoRun => /\ manifest'[unjournaled'] # Absent
                                  /\ state'[unjournaled'] # Absent
      BY <2>1 DEF Writes
    <2> QED BY <2>3, <2>4, <2>5, <2>6, <2>7 DEF DiskBehind
  <1> QED BY <1>1, <1>2

(* The empty store is not ahead.                                           *)
LEMMA DiskBehindInit == Init => DiskBehind
  BY StateClasses DEF Init, DiskBehind, Past

(* The disk is never ahead of the runs in memory.                          *)
LEMMA DiskBehindHolds == Spec => []DiskBehind
  <1>1. TypeOK /\ DiskBehind /\ [Next]_vars => DiskBehind'
    BY DiskBehindStep
  <1> QED BY <1>1, DiskBehindInit, TypeCorrect, PTL DEF Spec

(* A run whose start or end reached the journal is never offered as a      *)
(* draft again, whatever the admin process was doing each time it was      *)
(* killed (_persist, _replay_journal and start()).                         *)
THEOREM StartIsRememberedHolds == Spec => []StartIsRemembered
  <1>1. TypeOK /\ DiskBehind => StartIsRemembered
    <2> SUFFICES ASSUME TypeOK, DiskBehind, NEW r \in Run,
                        journal[r] \notin {Absent, "draft"}
                 PROVE  state[r] # "draft"
      BY DEF StartIsRemembered
    <2>1. journal[r] \in Past
      BY DEF TypeOK, Past, RunStates, OCCUPIES_SLOT, TERMINAL
    <2> QED BY <2>1, StateClasses DEF DiskBehind, Past
  <1> QED BY <1>1, TypeCorrect, DiskBehindHolds, PTL

-----------------------------------------------------------------------------
(* The admin service implements ZoneSlots.                                 *)

(* Who the abstract slots say is holding one: the active runs.             *)
LEMMA HoldersAreActive == TypeOK => Slots!Holders = ActiveRuns
  <1> SUFFICES ASSUME TypeOK PROVE Slots!Holders = ActiveRuns
    OBVIOUS
  <1>1. \A r \in ActiveRuns : kind[r].zone \in Zones /\ r \in ActiveRunIn(kind[r].zone)
    BY DEF ActiveRunIn, ActiveRuns, Zones, TypeOK
  <1>2. \A z \in Zones : ActiveRunIn(z) \subseteq ActiveRuns
    BY DEF ActiveRunIn
  <1>3. Slots!Holders = UNION {ActiveRunIn(z) : z \in Zones}
    BY DEF Slots!Holders
  <1> QED BY <1>1, <1>2, <1>3

(* At first every slot is free.                                            *)
LEMMA ImplementsInit == Init => Slots!Init
  BY StateClasses DEF Init, Slots!Init, ActiveRunIn, ActiveRuns

(* The slots are as they were when no run became active or stopped being,  *)
(* and no active run changed its zone.                                     *)
LEMMA SameSlots ==
    ASSUME \A r \in Run : state'[r] \in OCCUPIES_SLOT <=> state[r] \in OCCUPIES_SLOT,
           \A r \in Run : state[r] \in OCCUPIES_SLOT => kind'[r] = kind[r]
    PROVE  [z \in Zones |-> ActiveRunIn(z)]' = [z \in Zones |-> ActiveRunIn(z)]
  <1>1. \A z \in Zones : ActiveRunIn(z)' = ActiveRunIn(z)
    BY DEF ActiveRunIn, ActiveRuns
  <1> QED BY <1>1

(* Every step of the service is a step of the slots, or none.              *)
LEMMA ImplementsStep ==
    ASSUME TypeOK, DiskBehind, [Next]_vars
    PROVE  Slots!Next \/ UNCHANGED Slots!vars
  <1>1. CASE state' = state /\ kind' = kind
    <2>1. [z \in Zones |-> ActiveRunIn(z)]' = [z \in Zones |-> ActiveRunIn(z)]
      BY <1>1, SameSlots
    <2> QED BY <1>1, <2>1 DEF Slots!vars
  <1>2. ASSUME NEW r \in Run, NEW k \in RunKinds, Created(r, k) PROVE UNCHANGED Slots!vars
    <2>1. \A q \in Run : /\ state'[q] \in OCCUPIES_SLOT <=> state[q] \in OCCUPIES_SLOT
                         /\ state[q] \in OCCUPIES_SLOT => kind'[q] = kind[q]
                         /\ state'[q] \in TERMINAL <=> state[q] \in TERMINAL
      BY <1>2, StateClasses DEF Created, TypeOK
    <2>2. [z \in Zones |-> ActiveRunIn(z)]' = [z \in Zones |-> ActiveRunIn(z)]
      BY <2>1, SameSlots
    <2> QED BY <2>1, <2>2 DEF Slots!vars
  <1>3. ASSUME NEW r \in Run, Started(r) PROVE Slots!Next
    <2>1. kind[r].zone \in Zones
      BY DEF TypeOK, Zones
    <2>2. ActiveRunIn(kind[r].zone) = {} /\ r \notin ActiveRuns /\ state[r] \notin TERMINAL
      BY <1>3, StateClasses DEF Started, SlotFree, ActiveRunIn, ActiveRuns
    <2>3. \A q \in Run : state'[q] \in OCCUPIES_SLOT <=> state[q] \in OCCUPIES_SLOT \/ q = r
      BY <1>3, StateClasses DEF Started, TypeOK
    <2>4. \A q \in Run : state'[q] \in TERMINAL <=> state[q] \in TERMINAL
      BY <1>3, StateClasses DEF Started, TypeOK
    <2>5. \A z \in Zones : ActiveRunIn(z)' = IF z = kind[r].zone THEN {r} ELSE ActiveRunIn(z)
      BY <1>3, <2>2, <2>3 DEF Started, ActiveRunIn, ActiveRuns
    <2>6. Slots!Start(r, kind[r].zone)
      BY <2>1, <2>2, <2>4, <2>5, HoldersAreActive DEF Slots!Start
    <2> QED BY <2>1, <2>6 DEF Slots!Next
  <1>4. ASSUME NEW r \in Run, Removed(r) PROVE Slots!Next \/ UNCHANGED Slots!vars
    <2>1. \A q \in Run : /\ state'[q] \in OCCUPIES_SLOT <=> state[q] \in OCCUPIES_SLOT
                         /\ kind'[q] = kind[q]
                         /\ state'[q] \in TERMINAL <=> state[q] \in TERMINAL \/ q = r
      BY <1>4, StateClasses DEF Removed, TypeOK
    <2>2. [z \in Zones |-> ActiveRunIn(z)]' = [z \in Zones |-> ActiveRunIn(z)]
      BY <2>1, SameSlots
    <2>3. r \notin ActiveRuns
      BY <1>4, StateClasses DEF Removed, ActiveRuns
    <2>4. Slots!Discard(r)
      BY <2>1, <2>2, <2>3, HoldersAreActive DEF Slots!Discard
    <2> QED BY <2>4 DEF Slots!Next
  <1>5. ASSUME NEW r \in Run, NEW s, Moved(r, s) PROVE Slots!Next \/ UNCHANGED Slots!vars
    <2>1. CASE s \in OCCUPIES_SLOT
      <3>1. \A q \in Run : /\ state'[q] \in OCCUPIES_SLOT <=> state[q] \in OCCUPIES_SLOT
                           /\ kind'[q] = kind[q]
                           /\ state'[q] \in TERMINAL <=> state[q] \in TERMINAL
        BY <1>5, <2>1, StateClasses DEF Moved, TypeOK
      <3>2. [z \in Zones |-> ActiveRunIn(z)]' = [z \in Zones |-> ActiveRunIn(z)]
        BY <3>1, SameSlots
      <3> QED BY <3>1, <3>2 DEF Slots!vars
    <2>2. CASE s \in {"stopped", "failed"}
      <3>1. \A q \in Run : /\ state'[q] \in OCCUPIES_SLOT <=> state[q] \in OCCUPIES_SLOT /\ q # r
                           /\ kind'[q] = kind[q]
                           /\ state'[q] \in TERMINAL <=> state[q] \in TERMINAL \/ q = r
        BY <1>5, <2>2, StateClasses DEF Moved, TypeOK
      <3>2. PICK z \in Zones : z = kind[r].zone /\ r \in ActiveRunIn(z)
        BY <1>5 DEF TypeOK, Zones, Moved, ActiveRunIn, ActiveRuns
      <3>3. \A y \in Zones : ActiveRunIn(y)' =
                IF y = z THEN ActiveRunIn(y) \ {r} ELSE ActiveRunIn(y)
        BY <3>1, <3>2 DEF ActiveRunIn, ActiveRuns
      <3>4. Slots!End(r, z)
        BY <3>1, <3>2, <3>3 DEF Slots!End
      <3> QED BY <3>4 DEF Slots!Next
    <2> QED BY <1>5, <2>1, <2>2 DEF Moved
  <1>6. CASE Restart
    <2>1. \A z \in Zones : ActiveRunIn(z)' = {}
      BY <1>6, RestartEmpties DEF ActiveRunIn, ActiveRuns
    <2>2. \A r \in Run : state'[r] \in TERMINAL => state[r] \in Past
      BY <1>6, StateClasses DEF Restart, Recovered, DiskBehind, Loaded, Past
    <2>3. {r \in Run : state[r] \in TERMINAL}'
            \in SUBSET ({r \in Run : state[r] \in TERMINAL} \cup ActiveRuns)
      BY <2>2 DEF Past, ActiveRuns
    <2>4. Crashes
      BY <1>6 DEF Restart
    <2>5. Slots!Crash
      BY <2>1, <2>3, <2>4, HoldersAreActive DEF Slots!Crash
    <2> QED BY <2>5 DEF Slots!Next
  <1> QED BY <1>1, <1>2, <1>3, <1>4, <1>5, <1>6, StateStep

(* The admin service implements the abstract slots of ZoneSlots: every     *)
(* step of the operator, the supervisor, the nodes, the store or a restart *)
(* is a Start, an End, a Discard or a Crash there, or changes nothing.     *)
THEOREM ImplementsZoneSlotsHolds == Spec => ImplementsZoneSlots
  <1>1. TypeOK /\ DiskBehind /\ [Next]_vars => [Slots!Next]_Slots!vars
    BY ImplementsStep
  <1> QED BY <1>1, ImplementsInit, TypeCorrect, DiskBehindHolds, PTL
          DEF Spec, ImplementsZoneSlots, Slots!Spec

-----------------------------------------------------------------------------
(* The registry and the sockets.                                           *)

(* A connected record always has a socket behind it, whatever hellos,      *)
(* goodbyes, closings and restarts do (attach_node, detach_node).          *)
THEOREM ConnectedHasSocketHolds == Spec => []ConnectedHasSocket
  <1>1. Init => ConnectedHasSocket
    BY DEF Init, ConnectedHasSocket, NoRecord, Record
  <1>2. TypeOK /\ ConnectedHasSocket /\ [Next]_vars => ConnectedHasSocket'
    <2> SUFFICES ASSUME TypeOK, ConnectedHasSocket, [Next]_vars PROVE ConnectedHasSocket'
      OBVIOUS
    <2>1. CASE UNCHANGED netVars
      BY <2>1 DEF netVars, sockVars, ConnectedHasSocket
    <2>2. CASE Frames
      <3> PICK n \in Node :
            \/ \E run \in Named, running \in BOOLEAN : on_hello(n, run, running)
            \/ \E run \in Named, running, report \in BOOLEAN :
                  on_status(n, run, running, report)
            \/ \E run \in Named, report \in BOOLEAN : on_goodbye(n, run, report)
            \/ attach_node(n) \/ touch(n) \/ detach_current(n) \/ detach_stale(n)
        BY <2>2 DEF Frames
      <3>1. ASSUME NEW run, NEW running, on_hello(n, run, running) PROVE ConnectedHasSocket'
        BY <3>1 DEF on_hello, Record, TypeOK, ConnectedHasSocket
      <3>2. ASSUME NEW run, NEW running, NEW report, on_status(n, run, running, report)
            PROVE  ConnectedHasSocket'
        BY <3>2 DEF on_status, Record, TypeOK, ConnectedHasSocket, sockVars
      <3>3. ASSUME NEW run, NEW report, on_goodbye(n, run, report) PROVE ConnectedHasSocket'
        BY <3>3 DEF on_goodbye, CurrentEnds, StaleEnds, Record, TypeOK, ConnectedHasSocket
      <3>4. CASE touch(n)
        BY <3>4 DEF touch, Record, TypeOK, ConnectedHasSocket, sockVars
      <3>5. CASE detach_current(n)
        BY <3>5 DEF detach_current, CurrentEnds, Record, TypeOK, ConnectedHasSocket
      <3>6. CASE detach_stale(n)
        BY <3>6 DEF detach_stale, StaleEnds, Record, TypeOK, ConnectedHasSocket
      <3>7. CASE attach_node(n)
        BY <3>7 DEF attach_node, TypeOK, ConnectedHasSocket
      <3> QED BY <3>1, <3>2, <3>3, <3>4, <3>5, <3>6, <3>7
    <2>3. ASSUME NEW n \in Node, OfflineTimeout(n) PROVE ConnectedHasSocket'
      BY <2>3 DEF OfflineTimeout, Record, TypeOK, ConnectedHasSocket, sockVars
    <2>4. CASE Restart
      BY <2>4 DEF Restart, NoRecord, Record, ConnectedHasSocket
    <2> QED BY <2>1, <2>2, <2>3, <2>4
            DEF Next, Operator, create_run, act_start_refused, act_remove, act_start, act_stop,
                Stop, Broadcasts, Resume, Clock, StartTimeout, StopTimeout, Supervisor,
                _supervise_run, _auto_stop, Journal, vars
  <1> QED BY <1>1, <1>2, TypeCorrect, PTL DEF Spec

-----------------------------------------------------------------------------
(* The supervisor.                                                         *)

(* The supervisor does not fail a recording run with a node online.        *)
LEMMA OnlineNotFailed ==
    ASSUME NEW r \in Run, state[r] \in {"running", "degraded"}, OnlineOf(r) # {}
    PROVE  Verdict(r) # "failed"
  <1>1. Judged(r) \in {"running", "degraded"}
    BY EventsInTable DEF Judged
  <1>2. JudgedOffline(r, Judged(r)) = Judged(r)
    BY DEF JudgedOffline, Abandoned
  <1> QED BY <1>1, <1>2 DEF Verdict, JudgedReports

(* While the process lives, a recording run with a participant online is   *)
(* never failed: only _supervise_run fails a run, and only once the last   *)
(* of its participants is offline.                                         *)
THEOREM OnlineRunNotFailedHolds ==
    ASSUME ~Crashes
    PROVE  Spec => OnlineRunNotFailed
  <1>1. ASSUME TypeOK, [Next]_vars, NEW r \in Run, state[r] \in {"running", "degraded"},
               OnlineOf(r) # {}
        PROVE  state'[r] # "failed"
    <2>1. Verdict(r) # "failed"
      BY <1>1, OnlineNotFailed
    <2>2. ~Restart
      BY DEF Restart
    <2>3. state[r] # "failed"
      BY <1>1
    <2>4. ASSUME NEW c \in Run, NEW s, Moved(c, s), s # "failed" \/ c # r PROVE state'[r] # "failed"
      BY <1>1, <2>3, <2>4 DEF Moved, TypeOK
    <2>5. ASSUME NEW c \in Run, NEW k \in RunKinds, Created(c, k) PROVE state'[r] # "failed"
      BY <1>1, <2>3, <2>5 DEF Created, TypeOK
    <2>6. ASSUME NEW c \in Run, Started(c) \/ Removed(c) PROVE state'[r] # "failed"
      BY <1>1, <2>3, <2>6 DEF Started, Removed, TypeOK
    <2> QED BY <1>1, <2>1, <2>2, <2>3, <2>4, <2>5, <2>6, StateStep
  <1>2. TypeOK /\ [Next]_vars => [NotFailedOnline]_vars
    BY <1>1 DEF NotFailedOnline
  <1> QED BY <1>2, TypeCorrect, PTL DEF Spec, OnlineRunNotFailed

-----------------------------------------------------------------------------
(* Memory and disk.                                                        *)

(* A run whose stored state is still to be written: a broadcast of its     *)
(* start or stop is suspended, or its start was refused.  The broadcast    *)
(* after a failure owes nothing, its state was written before it.          *)
Owing(r) == {t \in tasks : t.run = r /\ t.op # "fail"}
Owed(r) == Owing(r) # {} \/ Refused(r)

Settled(r) ==
    /\ manifest[r] = state[r]
    /\ unjournaled # r => journal[r] = state[r]

(* Every run is owed a write or settled.  The timer of a run not yet       *)
(* started is unset, which is what makes a refused start recognisable.     *)
OwedOrSettled ==
    /\ \A r \in Run : Owed(r) \/ Settled(r)
    /\ \A r \in Run : state[r] \in {Absent, "draft"} => startingSince[r] = "none"

(* A run a step leaves alone stays owed or settled.                        *)
LEMMA LeftAlone ==
    ASSUME OwedOrSettled, LoopFree, NEW r \in Run,
           state'[r] = state[r], startingSince'[r] = startingSince[r],
           Owing(r)' = Owing(r), journal'[r] = journal[r],
           manifest'[r] = manifest[r] \/ manifest'[r] = state[r]
    PROVE  Owed(r)' \/ Settled(r)'
  BY DEF OwedOrSettled, Owed, Settled, Refused, LoopFree, NoRun, Run

(* _persist settles its run and leaves the others alone.                   *)
LEMMA PersistSettles ==
    ASSUME TypeOK, OwedOrSettled, LoopFree, NEW c \in Run, NEW s, Persist(c, s), state'[c] = s,
           \A r \in Run \ {c} : /\ state'[r] = state[r]
                                /\ startingSince'[r] = startingSince[r]
                                /\ Owing(r)' = Owing(r)
    PROVE  \A r \in Run : Owed(r)' \/ Settled(r)'
  <1>1. Settled(c)'
    BY DEF Persist, save, Settled, TypeOK
  <1>2. \A r \in Run \ {c} : manifest'[r] = manifest[r] /\ journal'[r] = journal[r]
    BY DEF Persist, save, TypeOK
  <1> QED BY <1>1, <1>2, LeftAlone

(* A broadcast leaves its run owed a write, or with no target persists it. *)
LEMMA BroadcastOwes ==
    ASSUME TypeOK, OwedOrSettled, LoopFree, NEW op, op # "fail", NEW c \in Run, NEW targets,
           NEW n, NEW by, NEW s, Broadcast(op, c, targets, n, by, s), state'[c] = s,
           \A r \in Run \ {c} : state'[r] = state[r] /\ startingSince'[r] = startingSince[r]
    PROVE  \A r \in Run : Owed(r)' \/ Settled(r)'
  <1>1. CASE n = NoNode
    <2>1. Persist(c, s) /\ tasks' = tasks
      BY <1>1 DEF Broadcast
    <2> QED BY <2>1, PersistSettles DEF Owing
  <1>2. CASE n # NoNode
    <2>1. /\ tasks' = tasks \cup {Task(op, c, targets \ {n}, by)}
          /\ manifest' = manifest /\ journal' = journal
      BY <1>2 DEF Broadcast, diskVars
    <2>2. Task(op, c, targets \ {n}, by).run = c /\ Task(op, c, targets \ {n}, by).op # "fail"
      BY DEF Task
    <2>3. Owed(c)'
      BY <2>1, <2>2 DEF Owed, Owing
    <2>4. \A r \in Run \ {c} : Owing(r)' = Owing(r)
      BY <2>1, <2>2 DEF Owing
    <2> QED BY <2>1, <2>3, <2>4, LeftAlone
  <1> QED BY <1>1, <1>2

(* The supervisor leaves the timer of a run that stays starting alone.     *)
LEMMA StaysStarting ==
    ASSUME NEW r, state[r] \in OCCUPIES_SLOT, Verdict(r) = "starting"
    PROVE  state[r] = "starting" /\ Judged(r) = "starting"
  <1>1. Judged(r) = "starting"
    BY EventsInTable, VerdictRange DEF Verdict, JudgedOffline, Abandoned, JudgedReports, ACCEPTS_PARTICIPANTS
  <1>2. state[r] = "starting"
    BY <1>1, EventsInTable DEF Judged, OCCUPIES_SLOT
  <1> QED BY <1>1, <1>2

(* The timer of a run not yet started stays unset.                         *)
LEMMA UntimedStep ==
    ASSUME TypeOK, OwedOrSettled, [Next]_vars, ~Restart, NEW r \in Run,
           state'[r] \in {Absent, "draft"}
    PROVE  startingSince'[r] = "none"
  <1>1. state[r] \in {Absent, "draft"}
    <2>1. state[r] \notin Past
      BY PastStays, StateClasses DEF Past
    <2> QED BY <2>1 DEF TypeOK, Past, RunStates, OCCUPIES_SLOT, TERMINAL
  <1>2. startingSince[r] = "none"
    BY <1>1 DEF OwedOrSettled
  <1>3. CASE startingSince' = startingSince
    BY <1>2, <1>3
  <1>4. ASSUME NEW c \in Run, NEW n, act_start(c, n) PROVE startingSince'[r] = "none"
    <2>1. state'[c] = "starting"
      BY <1>4, ActionsInTable DEF act_start, MayAct, TypeOK
    <2>2. c # r
      BY <2>1 DEF Absent
    <2> QED BY <1>2, <1>4, <2>2 DEF act_start, TypeOK
  <1>5. ASSUME NEW c \in Run, NEW n, NEW by, Stop(c, n, by) PROVE startingSince'[r] = "none"
    BY <1>2, <1>5 DEF Stop, TypeOK
  <1>6. ASSUME NEW c \in Run, _supervise_run(c) PROVE startingSince'[r] = "none"
    BY <1>2, <1>6 DEF _supervise_run, TypeOK
  <1>7. ASSUME NEW c \in Run, StartTimeout(c) PROVE startingSince'[r] = "none"
    BY <1>2, <1>7 DEF StartTimeout, TypeOK
  <1> QED BY <1>3, <1>4, <1>5, <1>6, <1>7
          DEF Next, Operator, create_run, act_start_refused, act_remove, act_stop, Broadcasts,
              Resume, Frames, on_hello, on_status, on_goodbye, attach_node, touch, detach_current,
              detach_stale, Clock, OfflineTimeout, StopTimeout, Supervisor, _auto_stop,
              Journal, vars, timeVars

(* Every step leaves each run settled on disk, or owed a write.            *)
LEMMA OwedStep ==
    ASSUME TypeOK, OwedOrSettled, [Next]_vars, ~Restart
    PROVE  \A r \in Run : Owed(r)' \/ Settled(r)'
  <1>1. ASSUME NEW c \in Run, NEW n, NEW by, Stop(c, n, by)
        PROVE  \A r \in Run : Owed(r)' \/ Settled(r)'
    <2>1. /\ state'[c] = advance(state[c], "stop")
          /\ \A r \in Run \ {c} : state'[r] = state[r] /\ startingSince'[r] = startingSince[r]
      BY <1>1 DEF Stop, TypeOK
    <2>2. (IF state[c] = "stopping" THEN "stop again" ELSE "stop") # "fail"
      OBVIOUS
    <2> QED BY <1>1, <2>1, <2>2, BroadcastOwes DEF Stop, MayAct
  <1>2. CASE Operator
    <2> PICK c \in Run :
          \/ \E k \in RunKinds : create_run(c, k)
          \/ act_start_refused(c) \/ act_remove(c)
          \/ \E n \in Node \cup {NoNode} : act_start(c, n) \/ act_stop(c, n)
      BY <1>2 DEF Operator
    <2>1. ASSUME NEW k, create_run(c, k) PROVE \A r \in Run : Owed(r)' \/ Settled(r)'
      <3>1. /\ LoopFree /\ Persist(c, "draft") /\ state'[c] = "draft"
            /\ \A r \in Run \ {c} : state'[r] = state[r]
            /\ startingSince' = startingSince /\ tasks' = tasks
        BY <2>1 DEF create_run, TypeOK, timeVars
      <3> QED BY <3>1, PersistSettles DEF Owing
    <2>2. CASE act_start_refused(c)
      <3>1. /\ LoopFree /\ state[c] = "draft" /\ state'[c] = "starting"
            /\ \A r \in Run \ {c} : state'[r] = state[r]
            /\ startingSince' = startingSince /\ tasks' = tasks
            /\ manifest' = manifest /\ journal' = journal
        BY <2>2, ActionsInTable DEF act_start_refused, MayAct, TypeOK, timeVars, diskVars
      <3>2. Owed(c)'
        BY <3>1 DEF OwedOrSettled, Owed, Refused
      <3> QED BY <3>1, <3>2, LeftAlone DEF Owing
    <2>3. CASE act_remove(c)
      <3>1. /\ LoopFree /\ Persist(c, "removed") /\ state'[c] = "removed"
            /\ \A r \in Run \ {c} : state'[r] = state[r]
            /\ startingSince' = startingSince /\ tasks' = tasks
        BY <2>3, ActionsInTable DEF act_remove, MayAct, TypeOK, timeVars
      <3> QED BY <3>1, PersistSettles DEF Owing
    <2>4. ASSUME NEW n, act_start(c, n) PROVE \A r \in Run : Owed(r)' \/ Settled(r)'
      <3>1. /\ LoopFree /\ state'[c] = advance(state[c], "start")
            /\ \A r \in Run \ {c} : state'[r] = state[r] /\ startingSince'[r] = startingSince[r]
        BY <2>4 DEF act_start, MayAct, TypeOK
      <3> QED BY <2>4, <3>1, BroadcastOwes DEF act_start
    <2> QED BY <1>1, <2>1, <2>2, <2>3, <2>4 DEF act_stop
  <1>3. CASE Broadcasts
    <2> PICK t \in tasks, n \in Node \cup {NoNode} : Resume(t, n)
      BY <1>3 DEF Broadcasts
    <2>1. t.run \in Run /\ LoopFree /\ state' = state /\ startingSince' = startingSince
      BY DEF Resume, TypeOK, runVars, timeVars
    <2>2. CASE n # NoNode
      <3> DEFINE u == Task(t.op, t.run, t.left \ {n}, t.by)
      <3>1. /\ tasks' = (tasks \ {t}) \cup {u} /\ u.run = t.run /\ u.op = t.op
            /\ manifest' = manifest /\ journal' = journal
        BY <2>2 DEF Resume, Task, diskVars
      <3>2. ASSUME NEW r \in Run PROVE Owing(r)' # {} \/ Owing(r)' = Owing(r)
        BY <3>1 DEF Owing
      <3> QED BY <2>1, <3>1, <3>2, LeftAlone DEF Owed
    <2>3. CASE n = NoNode /\ t.op = "fail"
      <3>1. tasks' = tasks \ {t} /\ manifest' = manifest /\ journal' = journal
        BY <2>3 DEF Resume, diskVars
      <3>2. \A r \in Run : Owing(r)' = Owing(r)
        BY <2>3, <3>1 DEF Owing
      <3> QED BY <2>1, <3>1, <3>2, LeftAlone
    <2>4. CASE n = NoNode /\ t.op # "fail"
      <3>1. tasks' = tasks \ {t} /\ Persist(t.run, StateToSave(t))
        BY <2>4 DEF Resume
      <3>2. \A r \in Run \ {t.run} : Owing(r)' = Owing(r)
        BY <3>1 DEF Owing
      <3> QED BY <2>1, <3>1, <3>2, PersistSettles DEF StateToSave
    <2> QED BY <2>2, <2>3, <2>4
  <1>4. CASE Frames
    <2>1. LoopFree /\ state' = state /\ startingSince' = startingSince
          /\ tasks' = tasks /\ journal' = journal
      BY <1>4 DEF Frames, on_hello, on_status, on_goodbye, attach_node, touch, detach_current,
                  detach_stale, runVars, timeVars, diskVars
    <2>2. \A r \in Run : manifest'[r] = manifest[r] \/ manifest'[r] = state[r]
      <3>1. \/ manifest' = manifest
            \/ \E n, to : File(n, to)
        BY <1>4 DEF Frames, on_hello, on_status, on_goodbye, attach_node, touch,
                    detach_current, detach_stale, diskVars
      <3> QED BY <3>1 DEF File
    <2>3. \A r \in Run : Owing(r)' = Owing(r)
      BY <2>1 DEF Owing
    <2> QED BY <2>1, <2>2, <2>3, LeftAlone
  <1>5. CASE Clock
    <2>1. /\ LoopFree /\ state' = state /\ tasks' = tasks /\ manifest' = manifest
          /\ journal' = journal /\ unjournaled' = unjournaled
      BY <1>5 DEF Clock, OfflineTimeout, StartTimeout, StopTimeout, runVars, diskVars
    <2>2. \A r \in Run : startingSince'[r] = startingSince[r] \/ startingSince[r] # "none"
      BY <1>5 DEF Clock, OfflineTimeout, StartTimeout, StopTimeout, timeVars, TypeOK
    <2>3. \A r \in Run : Refused(r) => startingSince'[r] = "none"
      BY <2>2 DEF Refused
    <2>4. \A r \in Run : Owed(r) => Owed(r)'
      BY <2>1, <2>3 DEF Owed, Owing, Refused
    <2>5. \A r \in Run : Settled(r) => Settled(r)'
      BY <2>1 DEF Settled
    <2> QED BY <2>4, <2>5 DEF OwedOrSettled
  <1>6. CASE Supervisor
    <2> PICK c \in Run : _supervise_run(c) \/ \E n \in Node \cup {NoNode} : _auto_stop(c, n)
      BY <1>6 DEF Supervisor
    <2>1. CASE _supervise_run(c)
      <3>1. /\ LoopFree /\ state[c] \in OCCUPIES_SLOT /\ state'[c] = Verdict(c)
            /\ \A r \in Run \ {c} : state'[r] = state[r] /\ startingSince'[r] = startingSince[r]
        BY <2>1 DEF _supervise_run, TypeOK
      <3>2. \A r \in Run : Owing(r)' = Owing(r)
        BY <2>1 DEF _supervise_run, Owing, Task
      <3>3. CASE Verdict(c) # state[c]
        BY <2>1, <3>1, <3>2, <3>3, PersistSettles DEF _supervise_run
      <3>4. CASE Verdict(c) = state[c]
        <4>1. manifest' = manifest /\ journal' = journal /\ unjournaled' = unjournaled
          BY <2>1, <3>4 DEF _supervise_run, diskVars
        <4>2. state[c] = "starting" => startingSince'[c] = startingSince[c]
          BY <2>1, <3>1, <3>4, StaysStarting DEF _supervise_run, TypeOK
        <4>3. Owed(c)' \/ Settled(c)'
          BY <3>1, <3>2, <3>4, <4>1, <4>2 DEF OwedOrSettled, Owed, Settled, Refused
        <4> QED BY <3>1, <3>2, <4>1, <4>3, LeftAlone
      <3> QED BY <3>3, <3>4
    <2> QED BY <1>1, <2>1 DEF _auto_stop
  <1>7. CASE Journal
    BY <1>7 DEF Journal, runVars, timeVars, TypeOK, OwedOrSettled, Owed, Owing, Settled, Refused
  <1>8. CASE UNCHANGED vars
    BY <1>8 DEF vars, runVars, timeVars, diskVars, OwedOrSettled, Owed, Owing, Settled, Refused
  <1> QED BY <1>2, <1>3, <1>4, <1>5, <1>6, <1>7, <1>8 DEF Next

(* While the process lives, once no handler of a run is suspended in a     *)
(* broadcast and its start was not refused, its manifest and its journal   *)
(* hold the state it has in memory, however act(), _supervise_run and the  *)
(* reports of its nodes interleaved.                                       *)
THEOREM PersistedWhenQuietHolds ==
    ASSUME ~Crashes
    PROVE  Spec => []PersistedWhenQuiet
  <1>1. Init => OwedOrSettled
    BY DEF Init, OwedOrSettled, Settled
  <1>2. TypeOK /\ OwedOrSettled /\ [Next]_vars => OwedOrSettled'
    <2> SUFFICES ASSUME TypeOK, OwedOrSettled, [Next]_vars PROVE OwedOrSettled'
      OBVIOUS
    <2>1. ~Restart
      BY DEF Restart
    <2>2. \A r \in Run : Owed(r)' \/ Settled(r)'
      BY <2>1, OwedStep
    <2>3. \A r \in Run : state'[r] \in {Absent, "draft"} => startingSince'[r] = "none"
      BY <2>1, UntimedStep
    <2> QED BY <2>2, <2>3 DEF OwedOrSettled
  <1>3. OwedOrSettled => PersistedWhenQuiet
    BY DEF OwedOrSettled, Owed, Owing, Settled, PersistedWhenQuiet, TasksOf
  <1> QED BY <1>1, <1>2, <1>3, TypeCorrect, PTL DEF Spec

-----------------------------------------------------------------------------
(* Timers.                                                                 *)

(* A timer is set, runs out, and is never set back.                        *)
Advances == {<<"none", "none">>, <<"none", "fresh">>, <<"fresh", "fresh">>,
             <<"fresh", "overdue">>, <<"overdue", "overdue">>}

(* A stopping run ends, or is nearer to its end: its timer stays or moves  *)
(* on, the clock makes it overdue, and a pass of the supervisor sets an    *)
(* unset one and ends an overdue run.                                      *)
StopGoesOn(r) ==
    state[r] = "stopping" =>
      \/ state'[r] = "stopped"
      \/ /\ state'[r] = "stopping"
         /\ <<stoppingSince[r], stoppingSince'[r]>> \in Advances
         /\ StopTimeout(r) => stoppingSince'[r] = "overdue"
         /\ _supervise_run(r) => stoppingSince[r] # "overdue" /\ stoppingSince'[r] # "none"

(* The same of a run that was told to start.                               *)
StartGoesOn(r) ==
    state[r] = "starting" /\ startingSince[r] # "none" =>
      \/ state'[r] \in {"running", "failed", "stopping"}
      \/ /\ state'[r] = "starting"
         /\ <<startingSince[r], startingSince'[r]>> \in Advances
         /\ StartTimeout(r) => startingSince'[r] = "overdue"
         /\ _supervise_run(r) => startingSince[r] # "overdue"

(* A pass over a run that stops or starts.                                 *)
LEMMA PassOver ==
    ASSUME TypeOK, NEW r \in Run, _supervise_run(r)
    PROVE  /\ state[r] = "stopping" =>
                \/ state'[r] = "stopped"
                \/ /\ state'[r] = "stopping"
                   /\ <<stoppingSince[r], stoppingSince'[r]>> \in Advances
                   /\ stoppingSince[r] # "overdue" /\ stoppingSince'[r] # "none"
           /\ state[r] = "starting" =>
                \/ state'[r] \in {"running", "failed"}
                \/ /\ state'[r] = "starting"
                   /\ startingSince'[r] = startingSince[r]
                   /\ startingSince[r] # "overdue"
  <1>1. /\ state'[r] = Verdict(r)
        /\ stoppingSince'[r] = IF Verdict(r) # "stopping" THEN "none"
                               ELSE IF stoppingSince[r] = "none" THEN "fresh"
                               ELSE stoppingSince[r]
        /\ startingSince'[r] = IF state[r] = "starting" /\ Judged(r) # "starting"
                               THEN "none" ELSE startingSince[r]
        /\ stoppingSince[r] \in Timers /\ startingSince[r] \in Timers
    BY DEF _supervise_run, TypeOK
  <1>2. CASE state[r] = "stopping"
    <2>1. Judged(r) \in {"stopping", "stopped"} /\ (StopOverdue(r) => Judged(r) = "stopped")
      BY <1>2, EventsInTable DEF Judged
    <2>2. JudgedOffline(r, Judged(r)) = Judged(r)
      BY <2>1 DEF JudgedOffline, Abandoned, ACCEPTS_PARTICIPANTS
    <2>3. /\ Verdict(r) \in {"stopping", "stopped"}
          /\ StopOverdue(r) => Verdict(r) = "stopped"
      BY <2>1, <2>2, EventsInTable DEF Verdict, JudgedReports
    <2> QED BY <1>1, <1>2, <2>3 DEF StopOverdue, Timers, Advances
  <1>3. CASE state[r] = "starting"
    <2>1. /\ Judged(r) \in {"starting", "running", "failed"}
          /\ StartOverdue(r) => Judged(r) # "starting"
      BY <1>3, EventsInTable DEF Judged
    <2>2. JudgedOffline(r, Judged(r)) \in {Judged(r), "failed"}
      BY EventsInTable DEF JudgedOffline, Abandoned
    <2>3. Verdict(r) \in {Judged(r), "failed"}
      BY <2>1, <2>2 DEF Verdict, JudgedReports
    <2> QED BY <1>1, <1>3, <2>1, <2>3 DEF StartOverdue
  <1> QED BY <1>2, <1>3

(* A stop ends a run that stops already, and stops one that starts.        *)
LEMMA StopMoves ==
    ASSUME TypeOK, NEW c \in Run, NEW n, NEW by, Stop(c, n, by), NEW r \in Run
    PROVE  /\ c # r => UNCHANGED <<state[r], stoppingSince[r], startingSince[r]>>
           /\ c = r /\ state[r] = "stopping" => state'[r] = "stopped"
           /\ c = r /\ state[r] = "starting" => state'[r] = "stopping"
  <1>1. advance("stopping", "stop") = "stopped" /\ advance("starting", "stop") = "stopping"
    BY DEF advance, Transitions
  <1> QED BY <1>1 DEF Stop, TypeOK

LEMMA TimersStep ==
    ASSUME TypeOK, [Next]_vars, ~Restart, NEW r \in Run
    PROVE  StopGoesOn(r) /\ StartGoesOn(r)
  <1> DEFINE Still == UNCHANGED <<state[r], stoppingSince[r], startingSince[r]>>
             Ticks == /\ state'[r] = state[r]
                      /\ <<stoppingSince[r], stoppingSince'[r]>> \in Advances
                      /\ <<startingSince[r], startingSince'[r]>> \in Advances
  <1>1. stoppingSince[r] \in Timers /\ startingSince[r] \in Timers
    BY DEF TypeOK
  <1>2. Still => Ticks
    BY <1>1 DEF Timers, Advances
  <1>3. /\ StopTimeout(r) => stoppingSince'[r] = "overdue"
        /\ StartTimeout(r) => startingSince'[r] = "overdue"
    BY DEF StopTimeout, StartTimeout, TypeOK
  <1>4. Ticks => StopGoesOn(r) /\ StartGoesOn(r)
    BY <1>3, PassOver DEF StopGoesOn, StartGoesOn
  <1>5. ASSUME NEW c \in Run, NEW n, NEW by, Stop(c, n, by)
        PROVE  StopGoesOn(r) /\ StartGoesOn(r)
    BY <1>2, <1>4, <1>5, StopMoves DEF StopGoesOn, StartGoesOn
  <1>6. CASE Operator
    <2> PICK c \in Run :
          \/ \E k \in RunKinds : create_run(c, k)
          \/ act_start_refused(c) \/ act_remove(c)
          \/ \E n \in Node \cup {NoNode} : act_start(c, n) \/ act_stop(c, n)
      BY <1>6 DEF Operator
    <2>1. ASSUME NEW k, create_run(c, k) PROVE StopGoesOn(r) /\ StartGoesOn(r)
      BY <1>2, <1>4, <2>1 DEF create_run, timeVars, TypeOK, Absent, StopGoesOn, StartGoesOn
    <2>2. CASE act_start_refused(c) \/ act_remove(c) \/ \E n : act_start(c, n)
      <3>1. state[c] \notin {"starting", "stopping"}
        BY <2>2, ActionsInTable DEF act_start_refused, act_remove, act_start, MayAct
      <3>2. c # r => Still
        BY <2>2 DEF act_start_refused, act_remove, act_start, timeVars, TypeOK
      <3>3. c = r => StopGoesOn(r) /\ StartGoesOn(r)
        BY <3>1 DEF StopGoesOn, StartGoesOn
      <3> QED BY <1>2, <1>4, <3>2, <3>3
    <2> QED BY <1>5, <2>1, <2>2 DEF act_stop
  <1>7. CASE Broadcasts \/ Frames \/ Journal \/ UNCHANGED vars
    <2>1. Still
      BY <1>7 DEF Broadcasts, Resume, Frames, on_hello, on_status, on_goodbye, attach_node,
                  touch, detach_current, detach_stale, Journal, vars, runVars, timeVars
    <2> QED BY <1>2, <1>4, <2>1
  <1>8. CASE Clock
    <2>1. state' = state
      BY <1>8 DEF Clock, OfflineTimeout, StartTimeout, StopTimeout, runVars
    <2>2. \/ UNCHANGED <<stoppingSince[r], startingSince[r]>>
          \/ /\ startingSince[r] = "fresh" /\ startingSince'[r] = "overdue"
             /\ stoppingSince'[r] = stoppingSince[r]
          \/ /\ stoppingSince[r] = "fresh" /\ stoppingSince'[r] = "overdue"
             /\ startingSince'[r] = startingSince[r]
      BY <1>8 DEF Clock, OfflineTimeout, StartTimeout, StopTimeout, timeVars, TypeOK
    <2> QED BY <1>1, <1>4, <2>1, <2>2 DEF Timers, Advances
  <1>9. CASE Supervisor
    <2> PICK c \in Run : _supervise_run(c) \/ \E n \in Node \cup {NoNode} : _auto_stop(c, n)
      BY <1>9 DEF Supervisor
    <2>1. CASE _supervise_run(c) /\ c = r
      BY <1>1, <1>3, <2>1, PassOver DEF StopGoesOn, StartGoesOn, Timers, Advances
    <2>2. CASE _supervise_run(c) /\ c # r
      <3>1. Still
        BY <2>2 DEF _supervise_run, TypeOK
      <3> QED BY <1>2, <1>4, <3>1
    <2> QED BY <1>5, <2>1, <2>2 DEF _auto_stop
  <1> QED BY <1>6, <1>7, <1>8, <1>9 DEF Next

(* Short of a restart nothing sends a run that is starting or stopping     *)
(* back: no operator, node, broadcast or other run's supervision resets    *)
(* its timer or revives it, a stop again ends it, and the next pass after  *)
(* the timeout takes it out of its state (_supervise_run).  With the       *)
(* fairness of the loop this is why neither keeps its zone for ever.       *)
THEOREM TimersRunOut ==
    Spec => [][Restart \/ \A r \in Run : StopGoesOn(r) /\ StartGoesOn(r)]_vars
  <1>1. TypeOK /\ [Next]_vars =>
          [Restart \/ \A r \in Run : StopGoesOn(r) /\ StartGoesOn(r)]_vars
    BY TimersStep
  <1> QED BY <1>1, TypeCorrect, PTL DEF Spec
=============================================================================
