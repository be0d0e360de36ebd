----------------------------- MODULE WatchProofs ------------------------------
(***************************************************************************)
(* Theorems about the watch the admin keeps over its fleet: for any nodes, *)
(* zones, declared fleets, overrides of the role rules and number of runs. *)
(***************************************************************************)
EXTENDS Watch, FiniteSetTheorems, TLAPS

-----------------------------------------------------------------------------
(* Types.                                                                   *)

Record == [connected : BOOLEAN, departed : BOOLEAN, run : Run \cup {NoRun},
           running : BOOLEAN, streaming : {"no", "fresh", "settled"},
           subscribed : BOOLEAN, peers : BOOLEAN, ok : BOOLEAN,
           trend : {"unsaid", "first", "same", "up", "down"}]

Types ==
    /\ fleet \in Fleets
    /\ profile \in [Run -> Profile]
    /\ place \in [Run -> Zone]
    /\ state \in [Run -> RunStates \cup {Absent}]
    /\ rec \in [Node -> Record]

RunningHasRun == \A n \in Node : rec[n].running => rec[n].run # NoRun

ZonesOfFindings == \A f \in findings : f.zone \in Zone \cup {"all"}

LEMMA WatchTypeParts == WatchTypeOK <=> Types /\ RunningHasRun /\ ZonesOfFindings
  BY DEF WatchTypeOK, Types, RunningHasRun, ZonesOfFindings, Record

LEMMA FleetOfTypes ==
    ASSUME Types
    PROVE  /\ \A n \in Node : TypeOf(n) \in NodeType /\ ZoneOf(n) \in Zone
                              /\ Kit(n) \in {"k", "l"}
           /\ \A r \in DOMAIN fleet.runs : fleet.runs[r] \in Zone
           /\ fleet.nodes \subseteq Node
           /\ NoRun \notin Run
  BY WatchAssumption DEF Types, TypeOf, ZoneOf, Kit, Run, NoRun

LEMMA StateFacts ==
    /\ advance("draft", "start") = "starting"
    /\ \A s \in ACCEPTS_PARTICIPANTS : advance(s, "stop") = "stopping"
    /\ ACCEPTS_PARTICIPANTS \subseteq OCCUPIES_SLOT
    /\ OCCUPIES_SLOT \subseteq RunStates
    /\ {"running", "degraded", "starting", "stopping", "stopped", "failed"} \subseteq RunStates
    /\ Absent \notin RunStates
    /\ {"running", "degraded", "starting", "stopping"} = OCCUPIES_SLOT
  BY DEF advance, Transitions, ACCEPTS_PARTICIPANTS, OCCUPIES_SLOT, RunStates, Absent

(* What a pass may make of a run: nothing of one that is not active, and of *)
(* an active one another state that was recorded.                           *)
LEMMA SuperviseRange ==
    ASSUME NEW r \in Run
    PROVE  /\ r \notin active_runs => supervise(r) = {state[r]}
           /\ r \in active_runs =>
                  supervise(r) \subseteq {"starting", "running", "degraded",
                                          "stopping", "stopped", "failed"}
           /\ state[r] # "running" /\ "running" \in supervise(r) => has_quorum(r)
           /\ "running" \in supervise(r) => r \in active_runs /\ has_quorum(r)
  <1>1. r \notin active_runs => supervise(r) = {state[r]}
    BY DEF supervise
  <1>2. Judged(r) \subseteq {"starting", "running", "degraded", "stopping", "stopped", "failed"}
    BY DEF Judged
  <1>3. r \in active_runs =>
            supervise(r) \subseteq {"starting", "running", "degraded",
                                    "stopping", "stopped", "failed"}
    BY <1>2 DEF supervise
  <1>4. "running" \in Judged(r) => has_quorum(r)
    BY DEF Judged
  <1>5. "running" \in supervise(r) => r \in active_runs /\ has_quorum(r)
    BY <1>4, StateFacts DEF supervise, active_runs
  <1> QED BY <1>1, <1>3, <1>5

(* What a status of n can say is well formed.                               *)
LEMMA SaysType ==
    ASSUME Types, NEW n \in Node, NEW s \in Says(n)
    PROVE  /\ s.run \in Runs(n) /\ s.run \in Run \cup {NoRun}
           /\ s.running \in BOOLEAN /\ s.streaming \in BOOLEAN
           /\ s.subscribed \in BOOLEAN /\ s.peers \in BOOLEAN /\ s.ok \in BOOLEAN
           /\ s.running => s.run # NoRun
  <1>1. s \in [run : Runs(n), running : BOOLEAN, streaming : {FALSE, TypeOf(n) = "client"},
               subscribed : {FALSE, (TypeOf(n) \in {"edge", "render"})},
               peers : {FALSE, TypeOf(n) = "edge"},
               ok : {TRUE, (TypeOf(n) \notin {"sender", "receiver", "xapp"})}]
    BY DEF Says
  <1>2. s.running => s.run # NoRun
    BY DEF Says
  <1>3. rec[n].run \in Run \cup {NoRun}
    BY DEF Types, Record
  <1>4. s.run \in Runs(n) /\ Runs(n) \subseteq Run \cup {NoRun}
    BY <1>1, <1>3 DEF Runs
  <1>5. s.running \in BOOLEAN /\ s.streaming \in BOOLEAN
        /\ s.subscribed \in BOOLEAN /\ s.peers \in BOOLEAN /\ s.ok \in BOOLEAN
    <2>1. /\ s.running \in BOOLEAN
          /\ s.streaming \in {FALSE, TypeOf(n) = "client"}
          /\ s.subscribed \in {FALSE, (TypeOf(n) \in {"edge", "render"})}
          /\ s.peers \in {FALSE, TypeOf(n) = "edge"}
          /\ s.ok \in {TRUE, (TypeOf(n) \notin {"sender", "receiver", "xapp"})}
      BY <1>1
    <2>2. /\ {FALSE, TypeOf(n) = "client"} \subseteq BOOLEAN
          /\ {FALSE, (TypeOf(n) \in {"edge", "render"})} \subseteq BOOLEAN
          /\ {FALSE, TypeOf(n) = "edge"} \subseteq BOOLEAN
          /\ {TRUE, (TypeOf(n) \notin {"sender", "receiver", "xapp"})} \subseteq BOOLEAN
      OBVIOUS
    <2> QED BY <2>1, <2>2
  <1> QED BY <1>2, <1>4, <1>5

LEMMA TrendsType ==
    ASSUME NEW was \in {"unsaid", "first", "same", "up", "down"}, NEW move
    PROVE  Trends(was, move) \subseteq {"first", "same", "up", "down"}
  BY DEF Trends

(* A record with one field replaced is a record.                            *)
LEMMA RecordUpdate ==
    ASSUME NEW x \in Record
    PROVE  /\ \A v \in BOOLEAN : [x EXCEPT !.connected = v] \in Record
           /\ \A v \in BOOLEAN : [x EXCEPT !.departed = v] \in Record
           /\ \A v \in Run \cup {NoRun} : [x EXCEPT !.run = v] \in Record
           /\ \A v \in BOOLEAN : [x EXCEPT !.running = v] \in Record
           /\ \A v \in {"no", "fresh", "settled"} : [x EXCEPT !.streaming = v] \in Record
           /\ \A v \in BOOLEAN : [x EXCEPT !.subscribed = v] \in Record
           /\ \A v \in {"unsaid", "first", "same", "up", "down"} :
                  [x EXCEPT !.trend = v] \in Record
  <1>1. \A v \in BOOLEAN : [x EXCEPT !.connected = v] \in Record
    BY DEF Record
  <1>2. \A v \in BOOLEAN : [x EXCEPT !.departed = v] \in Record
    BY DEF Record
  <1>3. \A v \in Run \cup {NoRun} : [x EXCEPT !.run = v] \in Record
    BY DEF Record
  <1>4. \A v \in BOOLEAN : [x EXCEPT !.running = v] \in Record
    BY DEF Record
  <1>5. \A v \in {"no", "fresh", "settled"} : [x EXCEPT !.streaming = v] \in Record
    BY DEF Record
  <1>6. \A v \in BOOLEAN : [x EXCEPT !.subscribed = v] \in Record
    BY DEF Record
  <1>7. \A v \in {"unsaid", "first", "same", "up", "down"} : [x EXCEPT !.trend = v] \in Record
    BY DEF Record
  <1> QED BY <1>1, <1>2, <1>3, <1>4, <1>5, <1>6, <1>7

-----------------------------------------------------------------------------
(* A record only names a run of its node's zone that was started, only of   *)
(* a node of the fleet; and a zone has one active run at a time.            *)
RecordsBelong == \A n \in Node :
    /\ rec[n].run # NoRun => /\ place[rec[n].run] = ZoneOf(n)
                             /\ state[rec[n].run] # Absent
    /\ rec[n] # Unheard => n \in fleet.nodes

OneRunPerZone == \A q, r \in active_runs : place[q] = place[r] => q = r

NodeStep(n) ==
    on_hello(n) \/ on_status(n) \/ Grace(n) \/ on_goodbye(n) \/ on_disconnect(n)

(* What a node's message or silence makes of its record.                    *)
LEMMA HelloRecord ==
    ASSUME NEW x \in Record, NEW run \in {NoRun, x.run}, x.running => x.run # NoRun
    PROVE  LET y == [x EXCEPT !.connected = TRUE, !.departed = FALSE,
                              !.run = run, !.running = @ /\ run # NoRun]
           IN  /\ y \in Record /\ y.run = run
               /\ y.running => y.run # NoRun
  <1> DEFINE a == [x EXCEPT !.connected = TRUE]
             b == [a EXCEPT !.departed = FALSE]
             c == [b EXCEPT !.run = run]
             v == x.running /\ run # NoRun
             y == [c EXCEPT !.running = v]
  <1>1. x.run \in Run \cup {NoRun} /\ run \in Run \cup {NoRun}
    BY DEF Record
  <1>2. a \in Record /\ b \in Record /\ c \in Record
    BY <1>1, RecordUpdate
  <1>3. v \in BOOLEAN
    OBVIOUS
  <1>4. y \in Record
    BY <1>2, <1>3, RecordUpdate
  <1>5. c.run = run /\ y.run = c.run /\ y.running = v
    BY <1>2 DEF Record
  <1>6. c.running = x.running
    BY DEF Record
  <1>7. y = [x EXCEPT !.connected = TRUE, !.departed = FALSE,
                      !.run = run, !.running = @ /\ run # NoRun]
    BY <1>6
  <1> QED BY <1>4, <1>5, <1>7

LEMMA StatusRecord ==
    ASSUME Types, NEW n \in Node, NEW s \in Says(n),
           NEW t \in {"unsaid", "first", "same", "up", "down"}
    PROVE  LET y == [connected |-> TRUE, departed |-> rec[n].departed,
                     run |-> s.run, running |-> s.running,
                     streaming |-> IF ~s.streaming THEN "no"
                                   ELSE IF rec[n].streaming = "no" THEN "fresh"
                                   ELSE rec[n].streaming,
                     subscribed |-> s.subscribed, peers |-> s.peers, ok |-> s.ok,
                     trend |-> t]
           IN  y \in Record /\ y.run \in Runs(n) /\ (y.running => y.run # NoRun)
  <1>1. rec[n].departed \in BOOLEAN /\ rec[n].streaming \in {"no", "fresh", "settled"}
    BY DEF Types, Record
  <1>2. (IF ~s.streaming THEN "no"
         ELSE IF rec[n].streaming = "no" THEN "fresh" ELSE rec[n].streaming)
            \in {"no", "fresh", "settled"}
    BY <1>1
  <1> QED BY <1>1, <1>2, SaysType DEF Record

LEMMA GoodbyeRecord ==
    ASSUME NEW x \in Record
    PROVE  LET y == [x EXCEPT !.connected = FALSE, !.departed = TRUE,
                              !.running = FALSE, !.streaming = "no",
                              !.subscribed = FALSE]
           IN  y \in Record /\ y.run = x.run /\ y.running = FALSE
  <1> DEFINE a == [x EXCEPT !.connected = FALSE]
             b == [a EXCEPT !.departed = TRUE]
             c == [b EXCEPT !.running = FALSE]
             d == [c EXCEPT !.streaming = "no"]
             y == [d EXCEPT !.subscribed = FALSE]
  <1>1. a \in Record /\ b \in Record /\ c \in Record /\ d \in Record /\ y \in Record
    BY RecordUpdate
  <1>2. y.run = x.run /\ y.running = FALSE
    BY DEF Record
  <1> QED BY <1>1, <1>2

LEMMA OneFieldRecord ==
    ASSUME NEW x \in Record
    PROVE  \A y \in {[x EXCEPT !.connected = FALSE], [x EXCEPT !.streaming = "settled"]} :
               /\ y \in Record /\ y.run = x.run /\ y.running = x.running
               /\ y.connected \in {x.connected, FALSE}
  <1>1. \A y \in {[x EXCEPT !.connected = FALSE], [x EXCEPT !.streaming = "settled"]} :
            y.run = x.run /\ y.running = x.running /\ y.connected \in {x.connected, FALSE}
    BY DEF Record
  <1> QED BY <1>1, RecordUpdate

LEMMA UnheardRecord ==
    /\ Unheard \in Record /\ Unheard.run = NoRun /\ Unheard.running = FALSE
    /\ Unheard.connected = FALSE /\ Unheard.streaming = "no"
    /\ Rolled(Unheard) = Unheard
  BY DEF Unheard, Record, Rolled

LEMMA RolledRecord ==
    ASSUME NEW x \in Record
    PROVE  /\ Rolled(x) \in Record
           /\ Rolled(x).run = x.run /\ Rolled(x).running = x.running
           /\ Rolled(x).connected = x.connected
  BY DEF Rolled, Record

(* The record a node's step leaves.                                         *)
LEMMA NodeStepRecord ==
    ASSUME Types, RunningHasRun, RecordsBelong, NEW n \in Node, NodeStep(n)
    PROVE  /\ UNCHANGED <<fleet, profile, place, state, findings>>
           /\ \E x \in Record : /\ rec' = [rec EXCEPT ![n] = x]
                                /\ x.run \in Runs(n)
                                /\ x.running => x.run # NoRun
                                /\ n \in fleet.nodes
  <1>0. rec[n] \in Record /\ rec \in [Node -> Record] /\ rec[n].run \in Runs(n)
    BY DEF Types, Runs
  <1>1. CASE on_hello(n)
    <2>1. PICK run \in {NoRun, rec[n].run} :
              rec' = [rec EXCEPT ![n].connected = TRUE, ![n].departed = FALSE,
                                 ![n].run = run,
                                 ![n].running = @ /\ run # NoRun]
      BY <1>1 DEF on_hello
    <2> DEFINE y == [rec[n] EXCEPT !.connected = TRUE, !.departed = FALSE,
                              !.run = run, !.running = @ /\ run # NoRun]
    <2>2. rec' = [rec EXCEPT ![n] = y]
      BY <1>0, <2>1
    <2>3. y \in Record /\ y.run = run /\ (y.running => y.run # NoRun)
      BY <1>0, HelloRecord DEF RunningHasRun
    <2>4. y.run \in Runs(n)
      BY <1>0, <2>3 DEF Runs
    <2> QED BY <1>1, <2>2, <2>3, <2>4 DEF on_hello
  <1>2. CASE on_status(n)
    <2>1. PICK s \in Says(n), move \in {"same", "grew", "anew"} :
              \E t \in IF n \in fleet.counted THEN Trends(rec[n].trend, move)
                       ELSE {"unsaid"} :
                 rec' = [rec EXCEPT ![n] =
                   [connected |-> TRUE, departed |-> @.departed,
                    run |-> s.run, running |-> s.running,
                    streaming |-> IF ~s.streaming THEN "no"
                                  ELSE IF @.streaming = "no" THEN "fresh" ELSE @.streaming,
                    subscribed |-> s.subscribed, peers |-> s.peers, ok |-> s.ok,
                    trend |-> t]]
      BY <1>2 DEF on_status
    <2>2. rec[n].trend \in {"unsaid", "first", "same", "up", "down"}
      BY <1>0 DEF Record
    <2>3. (IF n \in fleet.counted THEN Trends(rec[n].trend, move) ELSE {"unsaid"})
              \subseteq {"unsaid", "first", "same", "up", "down"}
      BY <2>2, TrendsType
    <2>4. PICK t \in IF n \in fleet.counted THEN Trends(rec[n].trend, move)
                     ELSE {"unsaid"} :
                 rec' = [rec EXCEPT ![n] =
                   [connected |-> TRUE, departed |-> @.departed,
                    run |-> s.run, running |-> s.running,
                    streaming |-> IF ~s.streaming THEN "no"
                                  ELSE IF @.streaming = "no" THEN "fresh" ELSE @.streaming,
                    subscribed |-> s.subscribed, peers |-> s.peers, ok |-> s.ok,
                    trend |-> t]]
      BY <2>1, Zenon
    <2>5. t \in {"unsaid", "first", "same", "up", "down"}
      BY <2>3, <2>4
    <2> DEFINE y == [connected |-> TRUE, departed |-> rec[n].departed,
                     run |-> s.run, running |-> s.running,
                     streaming |-> IF ~s.streaming THEN "no"
                                   ELSE IF rec[n].streaming = "no" THEN "fresh"
                                   ELSE rec[n].streaming,
                     subscribed |-> s.subscribed, peers |-> s.peers, ok |-> s.ok,
                     trend |-> t]
    <2>6. y \in Record /\ y.run \in Runs(n) /\ (y.running => y.run # NoRun)
      BY <2>5, StatusRecord
    <2>7. rec' = [rec EXCEPT ![n] = y]
      BY <1>0, <2>4
    <2>8. n \in fleet.nodes
      BY <1>2, UnheardRecord DEF on_status, RecordsBelong
    <2> HIDE DEF y
    <2> QED BY <1>2, <2>6, <2>7, <2>8 DEF on_status
  <1>3. CASE Grace(n)
    <2> DEFINE y == [rec[n] EXCEPT !.streaming = "settled"]
    <2>1. y \in Record /\ y.run = rec[n].run /\ y.running = rec[n].running
      BY <1>0, OneFieldRecord
    <2>2. rec' = [rec EXCEPT ![n] = y]
      BY <1>3 DEF Grace
    <2>3. n \in fleet.nodes
      BY <1>3, UnheardRecord DEF Grace, RecordsBelong
    <2> QED BY <1>0, <1>3, <2>1, <2>2, <2>3 DEF Grace, RunningHasRun
  <1>4. CASE on_goodbye(n)
    <2> DEFINE y == [rec[n] EXCEPT !.connected = FALSE, !.departed = TRUE,
                              !.running = FALSE, !.streaming = "no",
                              !.subscribed = FALSE]
    <2>1. y \in Record /\ y.run = rec[n].run /\ y.running = FALSE
      BY <1>0, GoodbyeRecord
    <2>2. rec' = [rec EXCEPT ![n] = y]
      BY <1>4 DEF on_goodbye
    <2>3. n \in fleet.nodes
      BY <1>4, UnheardRecord DEF on_goodbye, RecordsBelong
    <2> QED BY <1>0, <1>4, <2>1, <2>2, <2>3 DEF on_goodbye
  <1>5. CASE on_disconnect(n)
    <2> DEFINE y == [rec[n] EXCEPT !.connected = FALSE]
    <2>1. y \in Record /\ y.run = rec[n].run /\ y.running = rec[n].running
      BY <1>0, OneFieldRecord
    <2>2. rec' = [rec EXCEPT ![n] = y]
      BY <1>5 DEF on_disconnect
    <2>3. n \in fleet.nodes
      BY <1>5, UnheardRecord DEF on_disconnect, RecordsBelong
    <2> QED BY <1>0, <1>5, <2>1, <2>2, <2>3 DEF on_disconnect, RunningHasRun
  <1> QED BY <1>1, <1>2, <1>3, <1>4, <1>5 DEF NodeStep

-----------------------------------------------------------------------------
(* The steps of the runs.                                                   *)

LEMMA PassRuns ==
    ASSUME Types, Pass
    PROVE  /\ \A r \in Run : state'[r] \in supervise(r)
           /\ state' \in [Run -> RunStates \cup {Absent}]
           /\ active_runs' \subseteq active_runs
           /\ \A r \in Run : state[r] # Absent => state'[r] # Absent
           /\ findings' = refresh_findings(state')
  <1> DEFINE next == [r \in Run |-> supervise(r)]
  <1>1. PICK s \in [Run -> UNION {next[r] : r \in Run}] :
            (\A r \in Run : s[r] \in next[r]) /\ state' = s
    BY DEF Pass
  <1>2. \A r \in Run : state'[r] \in supervise(r)
    BY <1>1
  <1>3. \A r \in Run : supervise(r) \subseteq RunStates \cup {Absent}
    BY SuperviseRange, StateFacts DEF Types
  <1>4. state' \in [Run -> RunStates \cup {Absent}]
    BY <1>1, <1>2, <1>3
  <1>5. \A r \in Run : r \in active_runs \/ state'[r] = state[r]
    BY <1>2, SuperviseRange
  <1>6. active_runs' \subseteq active_runs
    BY <1>5 DEF active_runs
  <1>7. \A r \in Run : state[r] # Absent => state'[r] # Absent
    <2> SUFFICES ASSUME NEW r \in Run, state[r] # Absent PROVE state'[r] # Absent
      OBVIOUS
    <2>1. CASE r \in active_runs
      BY <1>2, <2>1, SuperviseRange, StateFacts
    <2>2. CASE r \notin active_runs
      BY <1>5, <2>2
    <2> QED BY <2>1, <2>2
  <1> QED BY <1>2, <1>4, <1>6, <1>7 DEF Pass

RunInv == Types /\ RunningHasRun /\ RecordsBelong /\ OneRunPerZone

LEMMA RunInvStep ==
    ASSUME RunInv, [Next]_vars
    PROVE  RunInv'
  <1> USE DEF RunInv
  <1>0. NoRun \notin Run /\ rec \in [Node -> Record]
    BY FleetOfTypes DEF Types
  <1>1. ASSUME NEW n \in Node, NodeStep(n) PROVE RunInv'
    <2>1. UNCHANGED <<fleet, profile, place, state, findings>>
      BY <1>1, NodeStepRecord
    <2>2. PICK x \in Record : /\ rec' = [rec EXCEPT ![n] = x]
                              /\ x.run \in Runs(n)
                              /\ x.running => x.run # NoRun
                              /\ n \in fleet.nodes
      BY <1>1, NodeStepRecord
    <2>3. rec' \in [Node -> Record]
      BY <1>0, <2>2
    <2>4. Types'
      BY <2>1, <2>3 DEF Types, Record
    <2>5. \A m \in Node : rec'[m] = IF m = n THEN x ELSE rec[m]
      BY <1>0, <2>2
    <2>6. RunningHasRun'
      BY <2>2, <2>5 DEF RunningHasRun
    <2>7. x.run # NoRun => place[x.run] = ZoneOf(n) /\ state[x.run] # Absent
      <3>1. ASSUME x.run # NoRun, x.run # rec[n].run
            PROVE  /\ x.run \in Run /\ state[x.run] \in ACCEPTS_PARTICIPANTS
                   /\ place[x.run] = ZoneOf(n)
        BY <2>2, <3>1 DEF Runs, Accepting
      <3>2. ASSUME NEW s \in ACCEPTS_PARTICIPANTS PROVE s # Absent
        BY StateFacts
      <3> QED BY <3>1, <3>2 DEF RecordsBelong
    <2>8. RecordsBelong'
      <3> SUFFICES ASSUME NEW m \in Node
                   PROVE  /\ rec'[m].run # NoRun => /\ place[rec'[m].run] = ZoneOf(m)
                                                    /\ state[rec'[m].run] # Absent
                          /\ rec'[m] # Unheard => m \in fleet.nodes
        BY <2>1 DEF RecordsBelong, ZoneOf
      <3> QED BY <2>2, <2>5, <2>7 DEF RecordsBelong
    <2>9. OneRunPerZone'
      BY <2>1 DEF OneRunPerZone, active_runs
    <2> QED BY <2>4, <2>6, <2>8, <2>9
  <1>2. ASSUME NEW r \in Run, NEW p \in Profile, StartRun(r, p) PROVE RunInv'
    <2>1. /\ state[r] = Absent /\ r \in DOMAIN fleet.runs
          /\ \A q \in active_runs : place[q] # fleet.runs[r]
          /\ state' = [state EXCEPT ![r] = "starting"]
          /\ place' = [place EXCEPT ![r] = fleet.runs[r]]
          /\ profile' = [profile EXCEPT ![r] = p]
          /\ UNCHANGED <<fleet, rec, findings>>
      BY <1>2, StateFacts DEF StartRun
    <2>2. fleet.runs[r] \in Zone
      BY <2>1, FleetOfTypes
    <2>3. Types'
      BY <2>1, <2>2, StateFacts DEF Types, Record
    <2>4. /\ \A q \in Run : q # r => state'[q] = state[q] /\ place'[q] = place[q]
          /\ state'[r] = "starting" /\ place'[r] = fleet.runs[r]
      BY <2>1 DEF Types
    <2>5. RunningHasRun'
      BY <2>1 DEF RunningHasRun
    <2>6. RecordsBelong'
      <3> SUFFICES ASSUME NEW m \in Node
                   PROVE  /\ rec[m].run # NoRun => /\ place'[rec[m].run] = ZoneOf(m)
                                                   /\ state'[rec[m].run] # Absent
                          /\ rec[m] # Unheard => m \in fleet.nodes
        BY <2>1 DEF RecordsBelong, ZoneOf
      <3>1. rec[m].run # NoRun => rec[m].run \in Run /\ rec[m].run # r
        BY <1>0, <2>1 DEF RecordsBelong, Record
      <3> QED BY <2>4, <3>1 DEF RecordsBelong
    <2>7. OneRunPerZone'
      <3>1. active_runs' \subseteq active_runs \cup {r}
        BY <2>4 DEF active_runs
      <3>2. r \notin active_runs
        BY <2>1, StateFacts DEF active_runs
      <3>3. \A q \in active_runs : q \in Run
        BY DEF active_runs
      <3> QED BY <2>1, <2>4, <3>1, <3>2, <3>3 DEF OneRunPerZone
    <2> QED BY <2>3, <2>5, <2>6, <2>7
  <1>3. ASSUME NEW r \in Run, Stop(r) PROVE RunInv'
    <2>1. /\ state[r] \in ACCEPTS_PARTICIPANTS
          /\ state' = [state EXCEPT ![r] = "stopping"]
          /\ UNCHANGED <<fleet, profile, place, rec, findings>>
      BY <1>3, StateFacts DEF Stop
    <2>2. Types'
      BY <2>1, StateFacts DEF Types, Record
    <2>3. \A q \in Run : q # r => state'[q] = state[q]
      BY <2>1 DEF Types
    <2>4. state'[r] = "stopping"
      BY <2>1 DEF Types
    <2>5. active_runs' \subseteq active_runs
      BY <2>1, <2>3, StateFacts DEF active_runs
    <2>6. OneRunPerZone'
      BY <2>1, <2>5 DEF OneRunPerZone
    <2>7. RunningHasRun'
      BY <2>1 DEF RunningHasRun
    <2>8. \A q \in Run : state[q] # Absent => state'[q] # Absent
      BY <2>3, <2>4, StateFacts
    <2>9. RecordsBelong'
      <3> SUFFICES ASSUME NEW m \in Node
                   PROVE  /\ rec[m].run # NoRun => /\ place[rec[m].run] = ZoneOf(m)
                                                   /\ state'[rec[m].run] # Absent
                          /\ rec[m] # Unheard => m \in fleet.nodes
        BY <2>1 DEF RecordsBelong, ZoneOf
      <3>1. rec[m].run # NoRun => rec[m].run \in Run
        BY <1>0 DEF Record
      <3> QED BY <2>8, <3>1 DEF RecordsBelong
    <2> QED BY <2>2, <2>6, <2>7, <2>9
  <1>4. CASE Pass
    <2>1. /\ rec' = [n \in Node |-> Rolled(rec[n])]
          /\ UNCHANGED <<fleet, profile, place>>
      BY <1>4 DEF Pass
    <2>2. /\ state' \in [Run -> RunStates \cup {Absent}]
          /\ active_runs' \subseteq active_runs
          /\ \A r \in Run : state[r] # Absent => state'[r] # Absent
      BY <1>4, PassRuns
    <2>3. \A n \in Node : /\ rec'[n] \in Record /\ rec'[n].run = rec[n].run
                          /\ rec'[n].running = rec[n].running
                          /\ rec'[n] # Unheard => rec[n] # Unheard
      BY <1>0, <2>1, RolledRecord, UnheardRecord
    <2>4. rec' \in [Node -> Record]
      BY <2>1, <2>3
    <2>5. Types'
      BY <2>1, <2>2, <2>4 DEF Types, Record
    <2>6. RunningHasRun'
      BY <2>3 DEF RunningHasRun
    <2>7. OneRunPerZone'
      BY <2>1, <2>2 DEF OneRunPerZone
    <2>8. RecordsBelong'
      <3> SUFFICES ASSUME NEW m \in Node
                   PROVE  /\ rec[m].run # NoRun => /\ place[rec[m].run] = ZoneOf(m)
                                                   /\ state'[rec[m].run] # Absent
                          /\ rec[m] # Unheard => m \in fleet.nodes
        BY <2>1, <2>3 DEF RecordsBelong, ZoneOf
      <3>1. rec[m].run # NoRun => rec[m].run \in Run
        BY <1>0 DEF Record
      <3> QED BY <2>2, <3>1 DEF RecordsBelong
    <2> QED BY <2>5, <2>6, <2>7, <2>8
  <1>5. CASE UNCHANGED vars
    BY <1>5 DEF vars, Types, Record, RunningHasRun, RecordsBelong, OneRunPerZone,
                active_runs, ZoneOf
  <1> QED BY <1>1, <1>2, <1>3, <1>4, <1>5 DEF Next, NodeStep

LEMMA RunInvInit == Init => RunInv
  <1> SUFFICES ASSUME Init PROVE RunInv
    OBVIOUS
  <1>1. (CHOOSE z \in Zone : TRUE) \in Zone
    BY WatchAssumption
  <1>2. Types
    BY <1>1, UnheardRecord DEF Init, Types, Profile
  <1>3. RunningHasRun /\ RecordsBelong
    BY UnheardRecord DEF Init, RunningHasRun, RecordsBelong
  <1>4. OneRunPerZone
    BY StateFacts DEF Init, OneRunPerZone, active_runs
  <1> QED BY <1>2, <1>3, <1>4 DEF RunInv

-----------------------------------------------------------------------------
(* What a finding says, by the diagnosis it comes from.                     *)

(* A pass diagnoses a run that stays active, or the idle platform.          *)
LEMMA Refreshed ==
    ASSUME NEW s, NEW f \in refresh_findings(s)
    PROVE  \E r \in Run \cup {NoRun}, b \in BOOLEAN :
               /\ f \in diagnose(r, b)
               /\ r = NoRun => b = FALSE
               /\ r # NoRun => r \in Run /\ s[r] \in OCCUPIES_SLOT
  <1> DEFINE active == {r \in Run : s[r] \in OCCUPIES_SLOT}
  <1>1. CASE active = {}
    BY <1>1 DEF refresh_findings
  <1>2. CASE active # {}
    <2>1. PICK r \in active : f \in diagnose(r, s[r] \in ACCEPTS_PARTICIPANTS)
      BY <1>2 DEF refresh_findings
    <2>2. NoRun \notin Run
      BY WatchAssumption DEF Run, NoRun
    <2>3. (s[r] \in ACCEPTS_PARTICIPANTS) \in BOOLEAN
      OBVIOUS
    <2> QED BY <2>1, <2>2, <2>3
  <1> QED BY <1>1, <1>2

(* A finding about single nodes.                                            *)
Says1(f, c, v, S, zoned) ==
    /\ f.code = c /\ f.severity = v
    /\ \E n \in S : /\ f.subject = <<n>>
                    /\ f.zone = IF zoned THEN ZoneOf(n) ELSE "all"

LEMMA AboutSays ==
    ASSUME NEW c, NEW v, NEW S, NEW f
    PROVE  /\ f \in About(c, v, S) => Says1(f, c, v, S, TRUE)
           /\ f \in OfAll(c, v, S) => Says1(f, c, v, S, FALSE)
  BY DEF About, OfAll, Finding, Says1

LEMMA AbsenceSays ==
    ASSUME NEW r, NEW b, NEW f \in Absences(r, b)
    PROVE  /\ b /\ f.code = "ABSENT" /\ f.zone = place[r]
           /\ \E t \in NodeType : /\ f.subject = <<t>> /\ f.severity = Roles[t].absence
                                  /\ serves(t, profile[r])
                                  /\ \A n \in In(place[r]) : TypeOf(n) # t
  BY DEF Absences, Finding

LEMMA LinkFaultSays ==
    ASSUME NEW f \in LinkFaults
    PROVE  /\ f.code \in {"QOS_MISMATCH", "NO_PEER", "NO_FRAMES"}
           /\ f.severity = "error"
           /\ \E l \in Links : /\ LinkFault(l[1], l[2]) # "none"
                               /\ f.subject = l /\ f.zone = ZoneOf(l[1])
  BY DEF LinkFaults, LinkFault, Finding

LEMMA RunMismatchSays ==
    ASSUME NEW r, NEW f \in RunMismatch(r)
    PROVE  /\ r # NoRun
           /\ Says1(f, "RUN_MISMATCH", "error",
                    {n \in In(place[r]) : rec[n].run \notin {NoRun, r}}, TRUE)
  <1>1. r # NoRun
    BY DEF RunMismatch
  <1>2. f \in About("RUN_MISMATCH", "error",
                    {n \in In(place[r]) : rec[n].run \notin {NoRun, r}})
    BY <1>1 DEF RunMismatch
  <1> QED BY <1>1, <1>2, AboutSays

(* The other diagnoses, in the order diagnose makes them.                   *)
OtherSays(f, r, b) ==
    \/ Says1(f, "TOPOLOGY_ZONE_MISMATCH", "warn",
             {n \in Online \cap declared : fleet.declared[n] # ZoneOf(n)}, FALSE)
    \/ Says1(f, "TOPOLOGY_UNDECLARED", "warn", Online \ declared, FALSE)
    \/ Says1(f, "TOPOLOGY_MISSING", "warn", declared \ Online, FALSE)
    \/ Says1(f, "RENDER_STARVED", "error",
             {n \in OnlineOf("render") : b /\ rec[n].subscribed /\ ~Rising(n)}, FALSE)
    \/ \E z \in zones(r) :
          \/ Says1(f, "TRANSPORT_MISMATCH", "error", Odd(Session(z)), TRUE)
          \/ Says1(f, "CODEC_MISMATCH", f.severity, Odd(Session(z)), TRUE)
    \/ Says1(f, "CLOCK_OFFSET", "error", Troubled("adrift"), TRUE)
    \/ Says1(f, "CLOCK_SKEW", "error", Troubled("negative delays"), TRUE)
    \/ Says1(f, "RENDER_CROSS_HOST", "warn", OnlineOf("render"), FALSE)
    \/ Says1(f, "EDGE_IDLE", "error", {n \in OnlineOf("edge") : b /\ ~rec[n].subscribed}, FALSE)
    \/ Says1(f, "MEDIA_NOT_CONNECTED", "error",
             {n \in Ends("sender") \cup Ends("receiver") : ~rec[n].ok}, TRUE)
    \/ Says1(f, "STREAM_MISMATCH", "error",
             {n \in Ends("receiver") : \E s \in Ends("sender") :
                 ZoneOf(s) = ZoneOf(n) /\ Kit(s) # Kit(n)}, TRUE)
    \/ Says1(f, "MEDIA_NO_FRAMES", "error", {n \in Online : Flat(n)}, TRUE)
    \/ Says1(f, "GNB_SILENT", "warn", OnlineOf("gnb"), FALSE)
    \/ Says1(f, "XAPP_NO_E2", "warn", OnlineOf("xapp"), TRUE)
    \/ Says1(f, "KPM_SILENT", "warn", OnlineOf("xapp"), TRUE)
    \/ Says1(f, "POLICY_NOT_APPLIED", "error", {n \in OnlineOf("xapp") : ~rec[n].ok}, TRUE)
    \/ Says1(f, "RAN_SOURCES_DISAGREE", "warn", OnlineOf("xapp"), TRUE)
    \/ Says1(f, "VERSION_SKEW", "warn", Troubled("other commit"), FALSE)
    \/ Says1(f, "LOGGING_UNREACHABLE", "warn", Troubled("posts fail"), FALSE)
    \/ b /\ Says1(f, "PARTICIPANT_LOST", "error", participants_of(r) \ Online, FALSE)

LEMMA Says1Subset ==
    ASSUME NEW f, NEW c, NEW v, NEW zoned, NEW S, NEW T, S \subseteq T,
           Says1(f, c, v, S, zoned)
    PROVE  Says1(f, c, v, T, zoned)
  BY DEF Says1

LEMMA OthersSay ==
    ASSUME NEW r, NEW b \in BOOLEAN, NEW f,
           \/ f \in Topology(b) \/ f \in RenderStarved(b) \/ f \in TransportMismatch(r)
           \/ f \in CodecMismatch(r) \/ f \in ClockOffset \/ f \in ClockSkew
           \/ f \in RenderCrossHost(b) \/ f \in EdgeIdle(b)
           \/ f \in NotConnected(b) \/ f \in StreamMismatch(b) \/ f \in MediaNoFrames(b)
           \/ f \in GnbSilent \/ f \in XappFaults \/ f \in PolicyNotApplied
           \/ f \in SourcesDisagree \/ f \in VersionSkew \/ f \in Unlogged
           \/ f \in ParticipantLost(r, b)
    PROVE  OtherSays(f, r, b)
  <1>1. CASE f \in Topology(b)
    <2>1. \/ f \in OfAll("TOPOLOGY_ZONE_MISMATCH", "warn",
                         {n \in Online \cap declared : fleet.declared[n] # ZoneOf(n)})
          \/ f \in OfAll("TOPOLOGY_UNDECLARED", "warn", Online \ declared)
          \/ f \in OfAll("TOPOLOGY_MISSING", "warn", declared \ Online)
          \/ f \in OfAll("TOPOLOGY_MISSING", "warn", {})
      BY <1>1 DEF Topology
    <2>2. f \notin OfAll("TOPOLOGY_MISSING", "warn", {})
      BY DEF OfAll
    <2> QED BY <2>1, <2>2, AboutSays DEF OtherSays
  <1>2. CASE f \in RenderStarved(b)
    <2>1. Says1(f, "RENDER_STARVED", "error",
                {n \in OnlineOf("render") :
                    /\ b /\ rec[n].subscribed /\ ~Rising(n)
                    /\ \E e \in OnlineOf("edge") : Rising(e)}, FALSE)
      BY <1>2, AboutSays DEF RenderStarved
    <2>2. {n \in OnlineOf("render") :
                    /\ b /\ rec[n].subscribed /\ ~Rising(n)
                    /\ \E e \in OnlineOf("edge") : Rising(e)}
              \subseteq {n \in OnlineOf("render") : b /\ rec[n].subscribed /\ ~Rising(n)}
      OBVIOUS
    <2> QED BY <2>1, <2>2, Says1Subset DEF OtherSays
  <1>3. CASE f \in TransportMismatch(r)
    <2>1. PICK z \in zones(r) : f \in About("TRANSPORT_MISMATCH", "error", Odd(Session(z)))
      BY <1>3 DEF TransportMismatch
    <2> QED BY <2>1, AboutSays DEF OtherSays
  <1>4. CASE f \in CodecMismatch(r)
    <2>1. PICK z \in zones(r) : \E v : f \in About("CODEC_MISMATCH", v, Odd(Session(z)))
      BY <1>4 DEF CodecMismatch
    <2>2. PICK v : f \in About("CODEC_MISMATCH", v, Odd(Session(z)))
      BY <2>1
    <2>3. Says1(f, "CODEC_MISMATCH", v, Odd(Session(z)), TRUE)
      BY <2>2, AboutSays
    <2>4. Says1(f, "CODEC_MISMATCH", f.severity, Odd(Session(z)), TRUE)
      BY <2>3 DEF Says1
    <2> QED BY <2>4 DEF OtherSays
  <1>5. CASE f \in ClockOffset \/ f \in ClockSkew
    BY <1>5, AboutSays DEF OtherSays, ClockOffset, ClockSkew
  <1>6. CASE f \in RenderCrossHost(b)
    <2> DEFINE S == {n \in OnlineOf("render") :
                       /\ b /\ rec[n].running
                       /\ OnlineOf("client") # {}
                       /\ \A c \in OnlineOf("client") : Kit(c) # Kit(n)}
    <2>1. Says1(f, "RENDER_CROSS_HOST", "warn", S, FALSE)
      BY <1>6, AboutSays DEF RenderCrossHost
    <2>2. S \subseteq OnlineOf("render")
      OBVIOUS
    <2> QED BY <2>1, <2>2, Says1Subset DEF OtherSays
  <1>7. CASE f \in EdgeIdle(b)
    BY <1>7, AboutSays DEF OtherSays, EdgeIdle
  <1>8. CASE f \in NotConnected(b)
    <2>1. b
      BY <1>8 DEF NotConnected
    <2>2. f \in About("MEDIA_NOT_CONNECTED", "error",
                      {n \in Ends("sender") \cup Ends("receiver") : ~rec[n].ok})
      BY <1>8, <2>1 DEF NotConnected
    <2> QED BY <2>2, AboutSays DEF OtherSays
  <1>9. CASE f \in StreamMismatch(b)
    <2> DEFINE S == {n \in Ends("receiver") :
                       LET near == {s \in Ends("sender") : ZoneOf(s) = ZoneOf(n)}
                       IN  near # {} /\ \A s \in near : Kit(s) # Kit(n)}
    <2>1. b
      BY <1>9 DEF StreamMismatch
    <2>2. f \in About("STREAM_MISMATCH", "error", S)
      BY <1>9, <2>1 DEF StreamMismatch
    <2>3. Says1(f, "STREAM_MISMATCH", "error", S, TRUE)
      BY <2>2, AboutSays
    <2>4. S \subseteq {n \in Ends("receiver") : \E s \in Ends("sender") :
                          ZoneOf(s) = ZoneOf(n) /\ Kit(s) # Kit(n)}
      OBVIOUS
    <2> QED BY <2>3, <2>4, Says1Subset DEF OtherSays
  <1>10. CASE f \in MediaNoFrames(b)
    <2>1. b
      BY <1>10 DEF MediaNoFrames
    <2>2. Says1(f, "MEDIA_NO_FRAMES", "error", Uplink \cup Downlink, TRUE)
      BY <1>10, <2>1, AboutSays DEF MediaNoFrames
    <2>3. Uplink \cup Downlink \subseteq {n \in Online : Flat(n)}
      BY DEF Uplink, Downlink, OnlineOf, Ends
    <2> QED BY <2>2, <2>3, Says1Subset DEF OtherSays
  <1>11. CASE f \in GnbSilent
    <2>1. Says1(f, "GNB_SILENT", "warn", {n \in OnlineOf("gnb") : Flat(n)}, FALSE)
      BY <1>11, AboutSays DEF GnbSilent
    <2>2. {n \in OnlineOf("gnb") : Flat(n)} \subseteq OnlineOf("gnb")
      OBVIOUS
    <2> QED BY <2>1, <2>2, Says1Subset DEF OtherSays
  <1>12. CASE f \in XappFaults
    <2>1. PICK n \in OnlineOf("xapp") :
             f \in IF ~rec[n].ok /\ "no E2" \in fleet.troubles[n]
                   THEN About("XAPP_NO_E2", "warn", {n})
                   ELSE IF rec[n].running /\ Flat(n) THEN About("KPM_SILENT", "warn", {n})
                   ELSE {}
      BY <1>12 DEF XappFaults
    <2>2. \/ f \in About("XAPP_NO_E2", "warn", {n})
          \/ f \in About("KPM_SILENT", "warn", {n})
      BY <2>1
    <2>3. {n} \subseteq OnlineOf("xapp")
      OBVIOUS
    <2>4. \/ Says1(f, "XAPP_NO_E2", "warn", {n}, TRUE)
          \/ Says1(f, "KPM_SILENT", "warn", {n}, TRUE)
      BY <2>2, AboutSays
    <2>5. \/ Says1(f, "XAPP_NO_E2", "warn", OnlineOf("xapp"), TRUE)
          \/ Says1(f, "KPM_SILENT", "warn", OnlineOf("xapp"), TRUE)
      BY <2>3, <2>4, Says1Subset
    <2> QED BY <2>5 DEF OtherSays
  <1>13. CASE f \in PolicyNotApplied
    <2> DEFINE S == {n \in OnlineOf("xapp") : ~rec[n].ok /\ "no E2" \notin fleet.troubles[n]}
    <2>1. Says1(f, "POLICY_NOT_APPLIED", "error", S, TRUE)
      BY <1>13, AboutSays DEF PolicyNotApplied
    <2>2. S \subseteq {n \in OnlineOf("xapp") : ~rec[n].ok}
      OBVIOUS
    <2> QED BY <2>1, <2>2, Says1Subset DEF OtherSays
  <1>14. CASE f \in SourcesDisagree
    <2> DEFINE S == {n \in OnlineOf("xapp") \cap Troubled("scale") : \E g \in OnlineOf("gnb") :
              ZoneOf(g) = ZoneOf(n) /\ rec[g].run # NoRun /\ rec[g].run = rec[n].run}
    <2>1. Says1(f, "RAN_SOURCES_DISAGREE", "warn", S, TRUE)
      BY <1>14, AboutSays DEF SourcesDisagree
    <2>2. S \subseteq OnlineOf("xapp")
      OBVIOUS
    <2> QED BY <2>1, <2>2, Says1Subset DEF OtherSays
  <1>15. CASE f \in VersionSkew \/ f \in Unlogged
    BY <1>15, AboutSays DEF OtherSays, VersionSkew, Unlogged
  <1>16. CASE f \in ParticipantLost(r, b)
    <2> DEFINE S == {n \in participants_of(r) \ Online : ~rec[n].departed}
    <2>1. b
      BY <1>16 DEF ParticipantLost
    <2>2. Says1(f, "PARTICIPANT_LOST", "error", S, FALSE)
      BY <1>16, <2>1, AboutSays DEF ParticipantLost
    <2>3. S \subseteq participants_of(r) \ Online
      OBVIOUS
    <2> QED BY <2>1, <2>2, <2>3, Says1Subset DEF OtherSays
  <1> QED BY <1>1, <1>2, <1>3, <1>4, <1>5, <1>6, <1>7, <1>8, <1>9, <1>10, <1>11,
             <1>12, <1>13, <1>14, <1>15, <1>16

LEMMA Diagnosed ==
    ASSUME NEW r, NEW b \in BOOLEAN, NEW f \in diagnose(r, b)
    PROVE  \/ f \in Absences(r, b) \/ f \in LinkFaults \/ f \in RunMismatch(r)
           \/ OtherSays(f, r, b)
  BY OthersSay DEF diagnose

(* The sets of nodes the diagnoses pick from are sets of nodes.             *)
LEMMA NodeSets ==
    /\ Online \subseteq Node
    /\ \A t : OnlineOf(t) \subseteq Online /\ Ends(t) \subseteq Online
              /\ Troubled(t) \subseteq Online
    /\ \A z : In(z) \subseteq Online /\ Session(z) \subseteq In(z)
    /\ \A S : Odd(S) \subseteq S
    /\ \A r : participants_of(r) \subseteq Node
    /\ \A l \in Links : l[1] \in Online /\ l[2] \in Online /\ l = <<l[1], l[2]>>
  BY DEF Online, OnlineOf, Ends, Troubled, In, Session, Odd, participants_of, Links

LEMMA Says1Zone ==
    ASSUME Types, NEW f, NEW c, NEW v, NEW S, NEW zoned \in BOOLEAN,
           Says1(f, c, v, S, zoned), zoned => S \subseteq Node
    PROVE  f.zone \in Zone \cup {"all"} /\ f.code = c
  BY FleetOfTypes DEF Says1

LEMMA OtherZone ==
    ASSUME Types, NEW r, NEW b \in BOOLEAN, NEW f, OtherSays(f, r, b)
    PROVE  f.zone \in Zone \cup {"all"} /\ f.code \notin {"ABSENT", "RUN_MISMATCH"}
  <1>1. \A z : Odd(Session(z)) \subseteq Node
    BY NodeSets
  <1>2. /\ \A t : OnlineOf(t) \subseteq Node /\ Troubled(t) \subseteq Node
        /\ {n \in Ends("sender") \cup Ends("receiver") : ~rec[n].ok} \subseteq Node
        /\ {n \in Ends("receiver") : \E s \in Ends("sender") :
                 ZoneOf(s) = ZoneOf(n) /\ Kit(s) # Kit(n)} \subseteq Node
        /\ {n \in Online : Flat(n)} \subseteq Node
        /\ {n \in OnlineOf("xapp") : ~rec[n].ok} \subseteq Node
    BY NodeSets
  <1>3. CASE Says1(f, "TOPOLOGY_ZONE_MISMATCH", "warn",
              {n \in Online \cap declared : fleet.declared[n] # ZoneOf(n)}, FALSE)
    BY <1>3 DEF Says1
  <1>4. CASE Says1(f, "TOPOLOGY_UNDECLARED", "warn",
              Online \ declared, FALSE)
    BY <1>4 DEF Says1
  <1>5. CASE Says1(f, "TOPOLOGY_MISSING", "warn",
              declared \ Online, FALSE)
    BY <1>5 DEF Says1
  <1>6. CASE Says1(f, "RENDER_STARVED", "error",
              {n \in OnlineOf("render") : b /\ rec[n].subscribed /\ ~Rising(n)}, FALSE)
    BY <1>6 DEF Says1
  <1>7. CASE Says1(f, "CLOCK_OFFSET", "error",
              Troubled("adrift"), TRUE)
    BY <1>7, <1>2, FleetOfTypes DEF Says1
  <1>8. CASE Says1(f, "CLOCK_SKEW", "error",
              Troubled("negative delays"), TRUE)
    BY <1>8, <1>2, FleetOfTypes DEF Says1
  <1>9. CASE Says1(f, "RENDER_CROSS_HOST", "warn",
              OnlineOf("render"), FALSE)
    BY <1>9 DEF Says1
  <1>10. CASE Says1(f, "EDGE_IDLE", "error",
              {n \in OnlineOf("edge") : b /\ ~rec[n].subscribed}, FALSE)
    BY <1>10 DEF Says1
  <1>11. CASE Says1(f, "MEDIA_NOT_CONNECTED", "error",
              {n \in Ends("sender") \cup Ends("receiver") : ~rec[n].ok}, TRUE)
    BY <1>11, <1>2, FleetOfTypes DEF Says1
  <1>12. CASE Says1(f, "STREAM_MISMATCH", "error",
              {n \in Ends("receiver") : \E s \in Ends("sender") :
                  ZoneOf(s) = ZoneOf(n) /\ Kit(s) # Kit(n)}, TRUE)
    BY <1>12, <1>2, FleetOfTypes DEF Says1
  <1>13. CASE Says1(f, "MEDIA_NO_FRAMES", "error",
              {n \in Online : Flat(n)}, TRUE)
    BY <1>13, <1>2, FleetOfTypes DEF Says1
  <1>14. CASE Says1(f, "GNB_SILENT", "warn",
              OnlineOf("gnb"), FALSE)
    BY <1>14 DEF Says1
  <1>15. CASE Says1(f, "XAPP_NO_E2", "warn",
              OnlineOf("xapp"), TRUE)
    BY <1>15, <1>2, FleetOfTypes DEF Says1
  <1>16. CASE Says1(f, "KPM_SILENT", "warn",
              OnlineOf("xapp"), TRUE)
    BY <1>16, <1>2, FleetOfTypes DEF Says1
  <1>17. CASE Says1(f, "POLICY_NOT_APPLIED", "error",
              {n \in OnlineOf("xapp") : ~rec[n].ok}, TRUE)
    BY <1>17, <1>2, FleetOfTypes DEF Says1
  <1>18. CASE Says1(f, "RAN_SOURCES_DISAGREE", "warn",
              OnlineOf("xapp"), TRUE)
    BY <1>18, <1>2, FleetOfTypes DEF Says1
  <1>19. CASE Says1(f, "VERSION_SKEW", "warn",
              Troubled("other commit"), FALSE)
    BY <1>19 DEF Says1
  <1>20. CASE Says1(f, "LOGGING_UNREACHABLE", "warn",
              Troubled("posts fail"), FALSE)
    BY <1>20 DEF Says1
  <1>21. CASE Says1(f, "PARTICIPANT_LOST", "error",
              participants_of(r) \ Online, FALSE)
    BY <1>21 DEF Says1
  <1>22. CASE \E z \in zones(r) :
               \/ Says1(f, "TRANSPORT_MISMATCH", "error", Odd(Session(z)), TRUE)
               \/ Says1(f, "CODEC_MISMATCH", f.severity, Odd(Session(z)), TRUE)
    BY <1>22, <1>1, FleetOfTypes DEF Says1
  <1> QED BY <1>3, <1>4, <1>5, <1>6, <1>7, <1>8, <1>9, <1>10, <1>11, <1>12, <1>13, <1>14, <1>15, <1>16, <1>17, <1>18, <1>19, <1>20, <1>21, <1>22 DEF OtherSays

(* Every finding of a pass belongs to a zone or to none.                    *)
LEMMA FindingZones ==
    ASSUME Types, NEW r \in Run \cup {NoRun}, NEW b \in BOOLEAN, r = NoRun => b = FALSE,
           NEW f \in diagnose(r, b)
    PROVE  f.zone \in Zone \cup {"all"}
  <1>1. CASE f \in Absences(r, b)
    <2>1. r \in Run /\ f.zone = place[r]
      BY <1>1, AbsenceSays
    <2> QED BY <2>1 DEF Types
  <1>2. CASE f \in LinkFaults
    <2>1. PICK l \in Links : f.zone = ZoneOf(l[1])
      BY <1>2, LinkFaultSays
    <2> QED BY <2>1, NodeSets, FleetOfTypes
  <1>3. CASE f \in RunMismatch(r)
    <2>1. {n \in In(place[r]) : rec[n].run \notin {NoRun, r}} \subseteq Node
      BY NodeSets
    <2>2. Says1(f, "RUN_MISMATCH", "error",
                {n \in In(place[r]) : rec[n].run \notin {NoRun, r}}, TRUE)
      BY <1>3, RunMismatchSays
    <2> QED BY <2>1, <2>2, Says1Zone
  <1>4. CASE OtherSays(f, r, b)
    BY <1>4, OtherZone
  <1> QED BY <1>1, <1>2, <1>3, <1>4, Diagnosed

-----------------------------------------------------------------------------
(* Quorum and absence.                                                      *)
LEMMA QuorumAgreesStep ==
    ASSUME RunInv, QuorumAgrees, [Next]_vars
    PROVE  QuorumAgrees'
  <1> USE DEF RunInv
  <1>1. ASSUME UNCHANGED <<findings, state, place, profile>> PROVE QuorumAgrees'
    BY <1>1 DEF QuorumAgrees, required_roles_for
  <1>2. ASSUME NEW n \in Node, NodeStep(n) PROVE QuorumAgrees'
    BY <1>1, <1>2, NodeStepRecord
  <1>3. ASSUME NEW r \in Run, NEW p \in Profile, StartRun(r, p) PROVE QuorumAgrees'
    <2>1. /\ state' = [state EXCEPT ![r] = "starting"]
          /\ place' = [place EXCEPT ![r] = fleet.runs[r]]
          /\ profile' = [profile EXCEPT ![r] = p]
          /\ UNCHANGED findings
      BY <1>3, StateFacts DEF StartRun
    <2>2. \A q \in Run : state'[q] = "running" =>
              state[q] = "running" /\ place'[q] = place[q] /\ profile'[q] = profile[q]
      BY <2>1 DEF Types
    <2> QED BY <2>1, <2>2 DEF QuorumAgrees, required_roles_for
  <1>4. ASSUME NEW r \in Run, Stop(r) PROVE QuorumAgrees'
    <2>1. /\ state' = [state EXCEPT ![r] = "stopping"]
          /\ UNCHANGED <<findings, place, profile>>
      BY <1>4, StateFacts DEF Stop
    <2>2. \A q \in Run : state'[q] = "running" => state[q] = "running"
      BY <2>1 DEF Types
    <2> QED BY <2>1, <2>2 DEF QuorumAgrees, required_roles_for
  <1>5. CASE Pass
    <2>1. UNCHANGED <<fleet, profile, place>> /\ findings' = refresh_findings(state')
      BY <1>5 DEF Pass
    <2> SUFFICES ASSUME NEW r \in Run, state'[r] = "running",
                        NEW f \in findings', f.code = "ABSENT", f.zone = place[r],
                        NEW t \in required_roles_for(profile[r]), f.subject = <<t>>
                 PROVE  FALSE
      BY <2>1 DEF QuorumAgrees, required_roles_for
    <2>2. has_quorum(r)
      BY <1>5, PassRuns, SuperviseRange
    <2>3. PICK n \in participants_of(r) \cap Online : TypeOf(n) = t
      BY <2>2 DEF has_quorum
    <2>4. n \in Node /\ rec[n].run = r /\ r # NoRun
      BY <2>3, FleetOfTypes DEF participants_of
    <2>5. n \in In(place[r])
      BY <2>3, <2>4 DEF RecordsBelong, In
    <2>6. PICK q \in Run \cup {NoRun}, b \in BOOLEAN : f \in diagnose(q, b)
      BY <2>1, Refreshed
    <2>7. f \in Absences(q, b)
      <3>1. f \notin LinkFaults
        BY LinkFaultSays
      <3>2. f \notin RunMismatch(q)
        BY RunMismatchSays DEF Says1
      <3>3. ~OtherSays(f, q, b)
        BY OtherZone
      <3> QED BY <2>6, <3>1, <3>2, <3>3, Diagnosed
    <2>8. PICK u \in NodeType : f.subject = <<u>> /\ \A m \in In(place[q]) : TypeOf(m) # u
      BY <2>7, AbsenceSays
    <2>9. u = t /\ place[q] = place[r]
      BY <2>7, <2>8, AbsenceSays
    <2> QED BY <2>3, <2>5, <2>8, <2>9
  <1>6. CASE UNCHANGED vars
    BY <1>1, <1>6 DEF vars
  <1> QED BY <1>2, <1>3, <1>4, <1>5, <1>6 DEF Next, NodeStep

LEMMA ZonesOfFindingsStep ==
    ASSUME RunInv, ZonesOfFindings, [Next]_vars
    PROVE  ZonesOfFindings'
  <1> USE DEF RunInv
  <1>1. CASE Pass
    <2>1. findings' = refresh_findings(state')
      BY <1>1 DEF Pass
    <2> SUFFICES ASSUME NEW f \in findings' PROVE f.zone \in Zone \cup {"all"}
      BY DEF ZonesOfFindings
    <2>2. PICK q \in Run \cup {NoRun}, b \in BOOLEAN :
              f \in diagnose(q, b) /\ (q = NoRun => b = FALSE)
      BY <2>1, Refreshed
    <2> QED BY <2>2, FindingZones
  <1>2. CASE UNCHANGED findings
    BY <1>2 DEF ZonesOfFindings
  <1>3. Pass \/ UNCHANGED findings
    BY DEF Next, on_hello, on_status, Grace, on_goodbye, on_disconnect, StartRun, Stop, vars
  <1> QED BY <1>1, <1>2, <1>3

-----------------------------------------------------------------------------
(* A node that is told off for its run holds one that is over.              *)
LEMMA RunMismatchStep ==
    ASSUME RunInv, Pass, NEW n \in Node, NEW f \in findings',
           f.code = "RUN_MISMATCH", f.subject = <<n>>
    PROVE  rec[n].run \notin active_runs'
  <1> USE DEF RunInv
  <1>1. PICK q \in Run \cup {NoRun}, b \in BOOLEAN :
            /\ f \in diagnose(q, b)
            /\ q # NoRun => q \in Run /\ state'[q] \in OCCUPIES_SLOT
    BY PassRuns, Refreshed
  <1>2. f \in RunMismatch(q)
    <2>1. f \notin Absences(q, b)
      BY AbsenceSays
    <2>2. f \notin LinkFaults
      BY LinkFaultSays
    <2>3. ~OtherSays(f, q, b)
      BY OtherZone
    <2> QED BY <1>1, <2>1, <2>2, <2>3, Diagnosed
  <1>3. q \in active_runs'
    BY <1>1, <1>2, RunMismatchSays DEF active_runs
  <1>4. n \in In(place[q]) /\ rec[n].run \notin {NoRun, q}
    <2>1. PICK m \in In(place[q]) : rec[m].run \notin {NoRun, q} /\ f.subject = <<m>>
      BY <1>2, RunMismatchSays DEF Says1
    <2> QED BY <2>1
  <1> SUFFICES ASSUME rec[n].run \in active_runs' PROVE FALSE
    OBVIOUS
  <1>5. rec[n].run \in active_runs /\ q \in active_runs
    BY <1>3, PassRuns
  <1>6. place[rec[n].run] = ZoneOf(n) /\ ZoneOf(n) = place[q]
    BY <1>4, <1>5 DEF RecordsBelong, In
  <1> QED BY <1>4, <1>5, <1>6 DEF OneRunPerZone

-----------------------------------------------------------------------------
(* A zone in which everything works.                                        *)
Calm(f, z) == f.zone # z /\ \A n \in Node : ZoneOf(n) = z => f.subject # <<n>>

LEMMA CalmElsewhere ==
    ASSUME Types, NEW z \in Zone, NEW f, NEW c, NEW v, NEW S, NEW zoned \in BOOLEAN,
           Says1(f, c, v, S, zoned), \A n \in S : ZoneOf(n) # z
    PROVE  Calm(f, z)
  <1>1. z # "all"
    BY WatchAssumption
  <1> QED BY <1>1 DEF Says1, Calm

(* Nodes deployed alike are none of them odd.                               *)
LEMMA AlikeNotOdd ==
    ASSUME NEW S, S \subseteq Node, \A n \in S : Kit(n) \in {"k", "l"},
           \A x, y \in S : Kit(x) = Kit(y)
    PROVE  Odd(S) = {}
  <1>1. IsFiniteSet(S) /\ Cardinality(S) \in Nat
    BY WatchAssumption, FS_Subset, FS_CardinalityType
  <1>2. CASE \A n \in S : Kit(n) = "k"
    <2>1. {n \in S : Kit(n) = "k"} = S
      BY <1>2
    <2>2. 2 * Cardinality(S) >= Cardinality(S)
      BY <1>1
    <2>3. Majority(S) = "k"
      BY <2>1, <2>2 DEF Majority
    <2> QED BY <1>2, <2>3 DEF Odd
  <1>3. CASE \A n \in S : Kit(n) = "l"
    <2>1. {n \in S : Kit(n) = "k"} = {}
      BY <1>3
    <2>2. CASE S = {}
      BY <2>2 DEF Odd
    <2>3. CASE S # {}
      <3>1. Cardinality(S) # 0
        BY <1>1, <2>3, FS_EmptySet
      <3>2. Cardinality({n \in S : Kit(n) = "k"}) = 0
        BY <2>1, FS_EmptySet
      <3>3. ~(2 * 0 >= Cardinality(S))
        BY <1>1, <3>1
      <3>4. Majority(S) = "l"
        BY <3>2, <3>3 DEF Majority
      <3> QED BY <1>3, <3>4 DEF Odd
    <2> QED BY <2>2, <2>3
  <1> QED BY <1>2, <1>3

HealthyRun(z, r) ==
    LET here == {n \in fleet.nodes : ZoneOf(n) = z}
    IN  /\ r \in Run /\ Accepting(r) /\ place[r] = z
        /\ \A n \in here : Well(n, r)
        /\ \A x, y \in here : Kit(x) = Kit(y)
        /\ \A t \in NodeType : Roles[t].absence = "error" /\ serves(t, profile[r])
                              => \E n \in here : TypeOf(n) = t

(* Whoever was heard of in the zone is well.                                *)
LEMMA HeardIsWell ==
    ASSUME RunInv, NEW z \in Zone, NEW r, HealthyRun(z, r)
    PROVE  \A n \in Node :
               ZoneOf(n) = z /\ (rec[n].connected \/ rec[n].run # NoRun)
               => n \in fleet.nodes /\ Well(n, r)
  <1> SUFFICES ASSUME NEW n \in Node, ZoneOf(n) = z,
                      rec[n].connected \/ rec[n].run # NoRun
               PROVE  n \in fleet.nodes /\ Well(n, r)
    OBVIOUS
  <1>1. n \in fleet.nodes
    BY UnheardRecord DEF RunInv, RecordsBelong
  <1> QED BY <1>1 DEF HealthyRun

(* The single nodes an error can be about are not nodes of such a zone.     *)
LEMMA HealthyOthers ==
    ASSUME RunInv, NEW z \in Zone, NEW r, HealthyRun(z, r),
           NEW q, NEW b \in BOOLEAN, NEW f, OtherSays(f, q, b),
           f.severity = "error", b => q # NoRun
    PROVE  Calm(f, z)
  <1> USE DEF RunInv
  <1>1. \A n \in Online : ZoneOf(n) = z => n \in fleet.nodes /\ Well(n, r) /\ n \in Node
    BY HeardIsWell DEF Online
  <1>2. \A n \in OnlineOf("render") : ZoneOf(n) = z => rec[n].subscribed /\ Rising(n)
    BY <1>1 DEF OnlineOf, Well
  <1>3. \A n \in OnlineOf("edge") : ZoneOf(n) = z => rec[n].subscribed
    BY <1>1 DEF OnlineOf, Well
  <1>4. \A n \in Online : ZoneOf(n) = z => rec[n].ok /\ ~Flat(n) /\ fleet.troubles[n] = {}
    BY <1>1 DEF Well, Flat
  <1>5. \A t : \A n \in Troubled(t) : ZoneOf(n) # z
    BY <1>4 DEF Troubled
  <1>6. \A y : \A n \in Odd(Session(y)) : ZoneOf(n) # z
    <2> SUFFICES ASSUME NEW y, NEW n \in Odd(Session(y)), ZoneOf(n) = z PROVE FALSE
      OBVIOUS
    <2>1. n \in Session(y) /\ y = z
      BY DEF Odd, Session, In
    <2>2. Session(z) \subseteq {m \in fleet.nodes : ZoneOf(m) = z}
      BY <1>1 DEF Session, In
    <2>3. \A x, m \in Session(z) : Kit(x) = Kit(m)
      BY <2>2 DEF HealthyRun
    <2>4. Session(z) \subseteq Node
      BY NodeSets
    <2>5. Odd(Session(z)) = {}
      BY <2>3, <2>4, FleetOfTypes, AlikeNotOdd
    <2> QED BY <2>1, <2>5
  <1>7. \A n \in Ends("sender") \cup Ends("receiver") : n \in Online
    BY DEF Ends, OnlineOf
  <1>8. \A n, m \in Online : ZoneOf(n) = z /\ ZoneOf(m) = z => Kit(m) = Kit(n)
    BY <1>1 DEF HealthyRun
  <1>9. CASE Says1(f, "RENDER_STARVED", "error",
              {n \in OnlineOf("render") : b /\ rec[n].subscribed /\ ~Rising(n)}, FALSE)
    <2>1. \A n \in {n \in OnlineOf("render") : b /\ rec[n].subscribed /\ ~Rising(n)} :
              ZoneOf(n) # z
      BY <1>2
    <2> QED BY <1>9, <2>1, CalmElsewhere
  <1>10. CASE \E y \in zones(q) :
               \/ Says1(f, "TRANSPORT_MISMATCH", "error", Odd(Session(y)), TRUE)
               \/ Says1(f, "CODEC_MISMATCH", f.severity, Odd(Session(y)), TRUE)
    BY <1>10, <1>6, CalmElsewhere
  <1>11. CASE \/ Says1(f, "CLOCK_OFFSET", "error", Troubled("adrift"), TRUE)
              \/ Says1(f, "CLOCK_SKEW", "error", Troubled("negative delays"), TRUE)
    BY <1>11, <1>5, CalmElsewhere
  <1>12. CASE Says1(f, "EDGE_IDLE", "error",
                    {n \in OnlineOf("edge") : b /\ ~rec[n].subscribed}, FALSE)
    <2>1. \A n \in {n \in OnlineOf("edge") : b /\ ~rec[n].subscribed} : ZoneOf(n) # z
      BY <1>3
    <2> QED BY <1>12, <2>1, CalmElsewhere
  <1>13. CASE Says1(f, "MEDIA_NOT_CONNECTED", "error",
                    {n \in Ends("sender") \cup Ends("receiver") : ~rec[n].ok}, TRUE)
    <2>1. \A n \in {n \in Ends("sender") \cup Ends("receiver") : ~rec[n].ok} : ZoneOf(n) # z
      BY <1>4, <1>7
    <2> QED BY <1>13, <2>1, CalmElsewhere
  <1>14. CASE Says1(f, "STREAM_MISMATCH", "error",
                    {n \in Ends("receiver") : \E s \in Ends("sender") :
                        ZoneOf(s) = ZoneOf(n) /\ Kit(s) # Kit(n)}, TRUE)
    <2>1. \A n \in {n \in Ends("receiver") : \E s \in Ends("sender") :
                        ZoneOf(s) = ZoneOf(n) /\ Kit(s) # Kit(n)} : ZoneOf(n) # z
      BY <1>7, <1>8
    <2> QED BY <1>14, <2>1, CalmElsewhere
  <1>15. CASE Says1(f, "MEDIA_NO_FRAMES", "error", {n \in Online : Flat(n)}, TRUE)
    <2>1. \A n \in {n \in Online : Flat(n)} : ZoneOf(n) # z
      BY <1>4
    <2> QED BY <1>15, <2>1, CalmElsewhere
  <1>16. CASE Says1(f, "POLICY_NOT_APPLIED", "error",
                    {n \in OnlineOf("xapp") : ~rec[n].ok}, TRUE)
    <2>1. \A n \in {n \in OnlineOf("xapp") : ~rec[n].ok} : ZoneOf(n) # z
      BY <1>4 DEF OnlineOf
    <2> QED BY <1>16, <2>1, CalmElsewhere
  <1>17. CASE b /\ Says1(f, "PARTICIPANT_LOST", "error", participants_of(q) \ Online, FALSE)
    <2>1. \A n \in participants_of(q) \ Online : ZoneOf(n) # z
      <3> SUFFICES ASSUME NEW n \in participants_of(q) \ Online, ZoneOf(n) = z PROVE FALSE
        OBVIOUS
      <3>1. n \in Node /\ rec[n].run # NoRun /\ ~rec[n].connected
        BY <1>17 DEF participants_of, Online
      <3> QED BY <3>1, HeardIsWell DEF Well
    <2> QED BY <1>17, <2>1, CalmElsewhere
  <1>18. \A S, c, zoned : ~Says1(f, c, "warn", S, zoned)
    BY DEF Says1
  <1> QED BY <1>9, <1>10, <1>11, <1>12, <1>13, <1>14, <1>15, <1>16, <1>17, <1>18
          DEF OtherSays

(* The links of the zone carry frames.                                      *)
LEMMA HealthyLinks ==
    ASSUME RunInv, NEW z \in Zone, NEW r, HealthyRun(z, r), NEW f \in LinkFaults
    PROVE  Calm(f, z)
  <1> USE DEF RunInv
  <1>1. PICK l \in Links : /\ LinkFault(l[1], l[2]) # "none"
                           /\ f.subject = l /\ f.zone = ZoneOf(l[1])
    BY LinkFaultSays
  <1>2. /\ l[1] \in Online /\ l[2] \in Online /\ TypeOf(l[2]) = "edge"
        /\ ZoneOf(l[1]) = ZoneOf(l[2]) /\ l = <<l[1], l[2]>>
    BY DEF Links, OnlineOf
  <1>3. ZoneOf(l[1]) # z
    <2> SUFFICES ASSUME ZoneOf(l[1]) = z PROVE FALSE
      OBVIOUS
    <2>1. \A n \in {l[1], l[2]} : n \in fleet.nodes /\ ZoneOf(n) = z /\ Well(n, r)
      BY <1>2, HeardIsWell DEF Online
    <2>2. Kit(l[1]) = Kit(l[2])
      BY <2>1 DEF HealthyRun
    <2>3. rec[l[2]].peers /\ ~Flat(l[2])
      BY <1>2, <2>1 DEF Well, Flat
    <2>4. LinkFault(l[1], l[2]) = "none"
      BY <2>2, <2>3 DEF LinkFault
    <2> QED BY <1>1, <2>4
  <1>4. \A n \in Node : f.subject # <<n>>
    BY <1>1, <1>2
  <1> QED BY <1>1, <1>3, <1>4 DEF Calm

(* No run but its own is diagnosed of the zone, and that one has everyone.  *)
LEMMA HealthyStep ==
    ASSUME RunInv, Pass, NEW z \in Zone, Healthy(z), NEW f \in findings',
           f.severity = "error"
    PROVE  f.zone # z /\ \A n \in Node : ZoneOf(n) = z => f.subject # <<n>>
  <1> USE DEF RunInv
  <1>1. PICK r : HealthyRun(z, r)
    BY DEF Healthy, HealthyRun
  <1>2. PICK q \in Run \cup {NoRun}, b \in BOOLEAN :
            /\ f \in diagnose(q, b)
            /\ q = NoRun => b = FALSE
            /\ q # NoRun => q \in Run /\ state'[q] \in OCCUPIES_SLOT
    BY PassRuns, Refreshed
  <1>3. q # NoRun => q \in active_runs /\ (place[q] = z => q = r)
    <2>1. q # NoRun => q \in active_runs
      BY <1>2, PassRuns DEF active_runs
    <2>2. r \in active_runs /\ place[r] = z
      BY <1>1, StateFacts DEF HealthyRun, Accepting, active_runs
    <2> QED BY <2>1, <2>2 DEF OneRunPerZone
  <1>4. CASE f \in Absences(q, b)
    <2>1. PICK t \in NodeType : /\ f.subject = <<t>> /\ f.severity = Roles[t].absence
                                /\ serves(t, profile[q])
                                /\ \A n \in In(place[q]) : TypeOf(n) # t
      BY <1>4, AbsenceSays
    <2>2. q # NoRun /\ f.zone = place[q]
      BY <1>2, <1>4, AbsenceSays
    <2>3. f.zone # z
      <3> SUFFICES ASSUME f.zone = z PROVE FALSE
        OBVIOUS
      <3>1. q = r /\ place[r] = z
        BY <1>3, <2>2
      <3>2. PICK n \in fleet.nodes : ZoneOf(n) = z /\ TypeOf(n) = t
        BY <1>1, <2>1, <3>1 DEF HealthyRun
      <3>3. n \in Online
        BY <1>1, <3>2, FleetOfTypes DEF HealthyRun, Well, Online
      <3> QED BY <2>1, <3>1, <3>2, <3>3 DEF In
    <2>4. \A n \in Node : f.subject # <<n>>
      <3>1. \A n \in Node : n # t
        BY WatchAssumption
      <3> QED BY <2>1, <3>1
    <2> QED BY <2>3, <2>4
  <1>5. CASE f \in LinkFaults
    BY <1>1, <1>5, HealthyLinks DEF Calm
  <1>6. CASE f \in RunMismatch(q)
    <2> DEFINE S == {n \in In(place[q]) : rec[n].run \notin {NoRun, q}}
    <2>1. q # NoRun /\ Says1(f, "RUN_MISMATCH", "error", S, TRUE)
      BY <1>6, RunMismatchSays
    <2>2. \A n \in S : ZoneOf(n) # z
      <3> SUFFICES ASSUME NEW n \in S, ZoneOf(n) = z PROVE FALSE
        OBVIOUS
      <3>1. n \in Online /\ place[q] = z /\ rec[n].run # q /\ n \in Node
        BY NodeSets DEF In
      <3>2. q = r
        BY <1>3, <2>1, <3>1
      <3> QED BY <1>1, <3>1, <3>2, HeardIsWell DEF Online, Well
    <2> HIDE DEF S
    <2>3. Calm(f, z)
      BY <2>1, <2>2, CalmElsewhere
    <2> QED BY <2>3 DEF Calm
  <1>7. CASE OtherSays(f, q, b)
    <2>1. b => q # NoRun
      BY <1>2
    <2>2. Calm(f, z)
      BY <1>1, <1>7, <2>1, HealthyOthers
    <2> QED BY <2>2 DEF Calm
  <1> QED BY <1>2, <1>4, <1>5, <1>6, <1>7, Diagnosed

-----------------------------------------------------------------------------
(* The records of the nodes stay well formed and every node is held to a    *)
(* run of its own zone, and two active runs are never in one zone: what the *)
(* registry and the orchestrator rely on when they look a run up by zone.   *)
THEOREM RunInvHolds == Spec => []RunInv
  <1>1. Init => RunInv
    BY RunInvInit
  <1>2. RunInv /\ [Next]_vars => RunInv'
    BY RunInvStep
  <1> QED BY <1>1, <1>2, PTL DEF Spec

(* The registry and the findings are well typed, and every finding of       *)
(* workflow.py is of a declared zone or of none.                            *)
THEOREM WatchTypes == Spec => []WatchTypeOK
  <1>1. Init => ZonesOfFindings
    BY DEF Init, ZonesOfFindings
  <1>2. RunInv /\ ZonesOfFindings /\ [Next]_vars => ZonesOfFindings'
    BY ZonesOfFindingsStep
  <1>3. RunInv /\ ZonesOfFindings => WatchTypeOK
    BY WatchTypeParts DEF RunInv
  <1> QED BY <1>1, <1>2, <1>3, RunInvHolds, PTL DEF Spec

(* The quorum of a run that runs (orchestrator.py) and the WF_*_ABSENT      *)
(* findings (workflow.py) never disagree, for any role rules.               *)
THEOREM QuorumAlwaysAgrees == Spec => []QuorumAgrees
  <1>1. Init => QuorumAgrees
    BY DEF Init, QuorumAgrees
  <1>2. RunInv /\ QuorumAgrees /\ [Next]_vars => QuorumAgrees'
    BY QuorumAgreesStep
  <1> QED BY <1>1, <1>2, RunInvHolds, PTL DEF Spec

(* WF_RUN_MISMATCH is only said of nodes that hold a run that is over.      *)
THEOREM MismatchedRunsAreOver == Spec => RunMismatchIsOld
  <1>1. RunInv /\ [Next]_vars =>
            [Pass => \A n \in Node : (\E f \in findings' : f.code = "RUN_MISMATCH"
                                                         /\ f.subject = <<n>>)
                                     => rec[n].run \notin active_runs']_vars
    BY RunMismatchStep
  <1> QED BY <1>1, RunInvHolds, PTL DEF Spec, RunMismatchIsOld

(* No pass raises an error about a zone in which everything works, whatever *)
(* the other zones do.                                                      *)
THEOREM HealthyZonesAreQuiet == Spec => HealthyZoneIsQuiet
  <1>1. RunInv /\ [Next]_vars =>
            [Pass => \A z \in Zone : Healthy(z) =>
                \A f \in findings' : f.severity = "error" =>
                    /\ f.zone # z
                    /\ \A n \in Node : ZoneOf(n) = z => f.subject # <<n>>]_vars
    BY HealthyStep
  <1> QED BY <1>1, RunInvHolds, PTL DEF Spec, HealthyZoneIsQuiet

(* What a pass says of a link is what it judges of it: every link with a    *)
(* fault is named, though it runs through no run that is diagnosed, and a   *)
(* pair of nodes is named for nothing else.                                 *)
LinkNamed(c, e) == \E f \in findings : f.subject = <<c, e>>

LEMMA LinkStep ==
    ASSUME RunInv, Pass, NEW c \in Node, NEW e \in Node
    PROVE  LinkNamed(c, e)' <=> <<c, e>> \in Links /\ LinkFault(c, e) # "none"
  <1>1. findings' = refresh_findings(state')
    BY DEF Pass
  <1>2. LinkNamed(c, e)' <=> \E f \in refresh_findings(state') : f.subject = <<c, e>>
    BY <1>1 DEF LinkNamed
  <1>3. ASSUME <<c, e>> \in Links, LinkFault(c, e) # "none"
        PROVE  \E f \in refresh_findings(state') : f.subject = <<c, e>>
    <2> DEFINE g == Finding(LinkFault(c, e), "error", <<c, e>>, ZoneOf(c))
               active == {r \in Run : state'[r] \in OCCUPIES_SLOT}
    <2>1. g \in LinkFaults
      <3>1. <<c, e>>[1] = c /\ <<c, e>>[2] = e
        OBVIOUS
      <3> QED BY <1>3, <3>1 DEF LinkFaults
    <2>2. g.subject = <<c, e>>
      BY DEF Finding
    <2>3. \A r, b : LinkFaults \subseteq diagnose(r, b)
      BY DEF diagnose
    <2> HIDE DEF g
    <2>4. CASE active = {}
      <3>1. refresh_findings(state') = diagnose(NoRun, FALSE)
        BY <2>4 DEF refresh_findings
      <3> QED BY <2>1, <2>2, <2>3, <3>1
    <2>5. CASE active # {}
      <3>1. refresh_findings(state') =
                UNION {diagnose(r, state'[r] \in ACCEPTS_PARTICIPANTS) : r \in active}
        BY <2>5 DEF refresh_findings
      <3>2. PICK r \in active : TRUE
        BY <2>5
      <3>3. g \in diagnose(r, state'[r] \in ACCEPTS_PARTICIPANTS)
        BY <2>1, <2>3
      <3> QED BY <2>2, <3>1, <3>2, <3>3
    <2> QED BY <2>4, <2>5
  <1>4. ASSUME NEW f \in refresh_findings(state'), f.subject = <<c, e>>
        PROVE  <<c, e>> \in Links /\ LinkFault(c, e) # "none"
    <2>1. PICK r \in Run \cup {NoRun}, b \in BOOLEAN : f \in diagnose(r, b)
      BY Refreshed
    <2>2. \A t : f.subject # <<t>>
      BY <1>4
    <2>3. ~OtherSays(f, r, b)
      BY <2>2 DEF OtherSays, Says1
    <2>4. f \notin Absences(r, b)
      BY <2>2, AbsenceSays
    <2>5. f \notin RunMismatch(r)
      BY <2>2, RunMismatchSays DEF Says1
    <2>6. f \in LinkFaults
      BY <2>1, <2>3, <2>4, <2>5, Diagnosed
    <2>7. PICK l \in Links : LinkFault(l[1], l[2]) # "none" /\ f.subject = l
      BY <2>6, LinkFaultSays
    <2>8. l = <<c, e>> /\ l[1] = c /\ l[2] = e
      BY <1>4, <2>7
    <2> QED BY <2>7, <2>8
  <1> QED BY <1>2, <1>3, <1>4

(* The safety half of SilenceIsReported: the pass that finds a client's     *)
(* count risen and its edge's not names that link, whichever runs are       *)
(* active, and a pass names a link for a fault of its own only              *)
(* (workflow.py, "the silent failures").                                    *)
THEOREM LinksAreJudged ==
    Spec => [][Pass => \A c, e \in Node :
                  /\ LinkNamed(c, e)' <=>
                         <<c, e>> \in Links /\ LinkFault(c, e) # "none"
                  /\ SilentLink(c, e) /\ Rising(c) /\ Flat(e) => LinkNamed(c, e)']_vars
  <1>1. \A c, e \in Node : SilentLink(c, e) /\ Rising(c) /\ Flat(e)
                           => <<c, e>> \in Links /\ LinkFault(c, e) # "none"
    BY DEF SilentLink, LinkFault
  <1>2. RunInv /\ [Next]_vars =>
            [Pass => \A c, e \in Node :
                /\ LinkNamed(c, e)' <=>
                       <<c, e>> \in Links /\ LinkFault(c, e) # "none"
                /\ SilentLink(c, e) /\ Rising(c) /\ Flat(e) => LinkNamed(c, e)']_vars
    BY <1>1, LinkStep
  <1> QED BY <1>2, RunInvHolds, PTL DEF Spec
=============================================================================
