------------------------------- MODULE Watch --------------------------------
(***************************************************************************)
(* The watch the admin keeps over its fleet: node records (registry.py),   *)
(* the supervisor's pass and the diagnosis it makes of the registry        *)
(* (workflow.py) under the role rules and the declared fleet (topology.py).*)
(*                                                                         *)
(* What a status says is chosen among what its node's type can say;        *)
(* Pipeline and ControlPlane say how a node gets there.  A counter is      *)
(* abstracted to its trend, where it stands against the previous pass.     *)
(* How a node was deployed (middleware, codec, reliability, stream, host)  *)
(* is one choice, its kit: two nodes agree in all of these or in none.     *)
(* The standing troubles of a node (its clock, its commit, its snapshots)  *)
(* are constants of the fleet.  Wording and remedies are left out.         *)
(***************************************************************************)
EXTENDS Naturals, FiniteSets, RunState

CONSTANTS
    Node,
    Zone,
    Fleets,     \* the fleets considered
    Overrides,  \* the roles a topology file overrides, and their rules
    MaxRun,     \* bound: runs ever started
    Followed    \* the links whose silence is followed

Run == 1..MaxRun
NoRun == 0

Robotics == {"client", "edge", "render"}       \* NODE_PROFILE
Media == {"relay", "sender", "receiver"}
NodeType == Robotics \cup Media \cup {"gnb", "xapp"}
Profile == {"robotics", "media"}

serves(type, p) ==
    type \in {"gnb", "xapp"} \cup (IF p = "media" THEN Media ELSE Robotics)

Rule(required, absence) == [required |-> required, absence |-> absence]

DEFAULT_ROLES ==
    [t \in NodeType |->
        IF t \in {"render", "xapp"} THEN Rule(FALSE, "none")
        ELSE IF t = "gnb" THEN Rule(FALSE, "warn") ELSE Rule(TRUE, "error")]

(* A file overrides single roles; the others keep their defaults.          *)
Roles == [t \in NodeType |-> IF t \in DOMAIN Overrides THEN Overrides[t]
                             ELSE DEFAULT_ROLES[t]]

required_roles_for(p) == {t \in NodeType : serves(t, p) /\ Roles[t].required}

(* A fleet as deployed: its nodes with type, zone, kit and troubles, the   *)
(* zones a file declares for some of them, the nodes whose counters are    *)
(* followed, and its bounds: the zones of its runs, and who leaves.         *)
ASSUME WatchAssumption ==
    /\ MaxRun \in Nat
    /\ IsFiniteSet(Node) /\ Node \cap NodeType = {}
    /\ Zone # {} /\ "all" \notin Zone
    /\ \A f \in Fleets : /\ f.nodes \subseteq Node
                          /\ f.type \in [Node -> NodeType]
                          /\ f.zone \in [Node -> Zone]
                          /\ f.kit \in [Node -> {"k", "l"}]
                          /\ \A r \in DOMAIN f.runs : f.runs[r] \in Zone

VARIABLES
    fleet,      \* the fleet, one of Fleets
    profile,    \* Run -> the profile of its parameters
    place,      \* Run -> its zone
    state,      \* Run -> its state
    rec,        \* Node -> its record
    findings    \* of the last pass

vars == <<fleet, profile, place, state, rec, findings>>

TypeOf(n) == fleet.type[n]
ZoneOf(n) == fleet.zone[n]
Kit(n) == fleet.kit[n]

-----------------------------------------------------------------------------
(* Records.  streaming is "settled" once it lasted the grace period; trend *)
(* is "unsaid" without a count, "first" with one the last pass did not     *)
(* have and else its place against that pass.                              *)
Unheard == [connected |-> FALSE, departed |-> FALSE,
            run |-> NoRun, running |-> FALSE, streaming |-> "no",
            subscribed |-> FALSE, peers |-> FALSE, ok |-> TRUE,
            trend |-> "unsaid"]

Online == {n \in Node : rec[n].connected}
OnlineOf(t) == {n \in Online : TypeOf(n) = t}
participants_of(r) == {n \in Node : rec[n].run = r}

Rising(n) == rec[n].trend = "up"
Flat(n) == rec[n].trend = "same"

active_runs == {r \in Run : state[r] \in OCCUPIES_SLOT}
Accepting(r) == r # NoRun /\ state[r] \in ACCEPTS_PARTICIPANTS

(* Mutant: a new process is still held to record its last run.             *)
HelloKeepsRunning(n) ==
    /\ n \in fleet.nodes
    /\ ~rec[n].connected
    /\ \E run \in {NoRun, rec[n].run} :
           rec' = [rec EXCEPT ![n].connected = TRUE, ![n].departed = FALSE,
                              ![n].run = run]
    /\ UNCHANGED <<fleet, profile, place, state, findings>>

(* on_hello: what the record said of the node before is kept.  The process *)
(* is a new one, which has no run, or the same with its run.               *)
on_hello(n) ==
    /\ n \in fleet.nodes
    /\ ~rec[n].connected
    /\ \E run \in {NoRun, rec[n].run} :
           rec' = [rec EXCEPT ![n].connected = TRUE, ![n].departed = FALSE,
                              ![n].run = run,
                              ![n].running = @ /\ run # NoRun]
    /\ UNCHANGED <<fleet, profile, place, state, findings>>

(* What a status of n can say: a run of its zone or the one it had, whether *)
(* it records it, and for its type whether it streams or is subscribed,     *)
(* sees a peer, and is well (a media connection, the xApp's E2 or policy).  *)
Runs(n) == {NoRun, rec[n].run} \cup {r \in Run : Accepting(r) /\ place[r] = ZoneOf(n)
                                                 /\ serves(TypeOf(n), profile[r])}

Says(n) ==
    LET type == TypeOf(n)
    IN  {s \in [run : Runs(n), running : BOOLEAN, streaming : {FALSE, type = "client"},
                subscribed : {FALSE, (type \in {"edge", "render"})},
                peers : {FALSE, type = "edge"},
                ok : {TRUE, (type \notin {"sender", "receiver", "xapp"})}] :
            /\ s.running => s.run # NoRun
            /\ s.streaming = (type = "client" /\ s.running)
            /\ s.subscribed => s.running
            /\ s.peers => s.subscribed}

(* How its counter moved since it was last said: not at all, up, or from    *)
(* nothing, as a node counts anew for every run and in a new process.       *)
Moves(n, s) ==
    LET same_count == s.running /\ rec[n].running /\ s.run = rec[n].run
    IN  {"same"} \cup (IF same_count \/ TypeOf(n) = "gnb" THEN {"grew"} ELSE {})
                \cup (IF same_count THEN {} ELSE {"anew"})

Trends(was, move) ==
    IF was \in {"unsaid", "first"} THEN {"first"}
    ELSE IF move = "same" THEN {was}
    ELSE IF move = "grew" /\ was # "down" THEN {"up"}
    ELSE {"same", "up", "down"}

on_status(n) ==
    /\ rec[n].connected
    /\ \E s \in Says(n), move \in {"same", "grew", "anew"} :
        /\ move \in Moves(n, s)
        /\ \E t \in IF n \in fleet.counted THEN Trends(rec[n].trend, move)
                    ELSE {"unsaid"} :
           rec' = [rec EXCEPT ![n] =
               [connected |-> TRUE, departed |-> @.departed,
                run |-> s.run, running |-> s.running,
                streaming |-> IF ~s.streaming THEN "no"
                              ELSE IF @.streaming = "no" THEN "fresh" ELSE @.streaming,
                subscribed |-> s.subscribed, peers |-> s.peers, ok |-> s.ok,
                trend |-> t]]
    /\ UNCHANGED <<fleet, profile, place, state, findings>>

(* PEER_GRACE_S passes.                                                     *)
Grace(n) ==
    /\ rec[n].streaming = "fresh"
    /\ rec' = [rec EXCEPT ![n].streaming = "settled"]
    /\ UNCHANGED <<fleet, profile, place, state, findings>>

on_goodbye(n) ==
    /\ rec[n].connected
    /\ n \in fleet.leaving
    /\ rec' = [rec EXCEPT ![n].connected = FALSE, ![n].departed = TRUE,
                          ![n].running = FALSE, ![n].streaming = "no",
                          ![n].subscribed = FALSE]
    /\ UNCHANGED <<fleet, profile, place, state, findings>>

(* The socket closes, or nothing is heard for the offline timeout.          *)
on_disconnect(n) ==
    /\ rec[n].connected
    /\ n \in fleet.leaving
    /\ rec' = [rec EXCEPT ![n].connected = FALSE]
    /\ UNCHANGED <<fleet, profile, place, state, findings>>

-----------------------------------------------------------------------------
(* The diagnosis of run r, or of the idle platform (NoRun).  A zone of      *)
(* "all" is the empty one: findings that belong to no single zone.          *)
Finding(code, severity, subject, zone) ==
    [code |-> code, severity |-> severity, subject |-> subject, zone |-> zone]
About(code, severity, nodes) == {Finding(code, severity, <<n>>, ZoneOf(n)) : n \in nodes}
OfAll(code, severity, nodes) == {Finding(code, severity, <<n>>, "all") : n \in nodes}

zones(r) ==
    IF r # NoRun THEN {place[r]} ELSE {ZoneOf(n) : n \in Online}
In(z) == {n \in Online : ZoneOf(n) = z}

Absences(r, run_is_active) ==
    IF ~run_is_active THEN {}
    ELSE {Finding("ABSENT", Roles[t].absence, <<t>>, place[r]) :
            t \in {u \in NodeType \ {"render"} :
                     /\ serves(u, profile[r])
                     /\ Roles[u].absence # "none"
                     /\ \A n \in In(place[r]) : TypeOf(n) # u}}

(* The declared fleet; without a declaration there is nothing to say.       *)
declared == DOMAIN fleet.declared
Topology(run_is_active) ==
    IF declared = {} THEN {}
    ELSE OfAll("TOPOLOGY_ZONE_MISMATCH", "warn",
               {n \in Online \cap declared : fleet.declared[n] # ZoneOf(n)})
         \cup OfAll("TOPOLOGY_UNDECLARED", "warn", Online \ declared)
         \cup OfAll("TOPOLOGY_MISSING", "warn",
                    IF run_is_active THEN declared \ Online ELSE {})

RenderStarved(run_is_active) ==
    OfAll("RENDER_STARVED", "error",
          {n \in OnlineOf("render") :
              /\ run_is_active /\ rec[n].subscribed /\ ~Rising(n)
              /\ \E e \in OnlineOf("edge") : Rising(e)})

(* The nodes of a zone that are not deployed like most of it; "k" is the    *)
(* default and wins a tie.                                                  *)
Session(z) == {n \in In(z) : TypeOf(n) \in Robotics}
Majority(S) ==
    IF 2 * Cardinality({n \in S : Kit(n) = "k"}) >= Cardinality(S) THEN "k" ELSE "l"
Odd(S) == {n \in S : Kit(n) # Majority(S)}

TransportMismatch(r) ==
    UNION {About("TRANSPORT_MISMATCH", "error", Odd(Session(z))) : z \in zones(r)}
CodecMismatch(r) ==
    UNION {About("CODEC_MISMATCH",
                 IF \E n \in Session(z) : rec[n].running THEN "error" ELSE "warning",
                 Odd(Session(z))) : z \in zones(r)}

Troubled(trouble) == {n \in Online : trouble \in fleet.troubles[n]}
ClockOffset == About("CLOCK_OFFSET", "error", Troubled("adrift"))
ClockSkew == About("CLOCK_SKEW", "error", Troubled("negative delays"))
VersionSkew == OfAll("VERSION_SKEW", "warn", Troubled("other commit"))
Unlogged == OfAll("LOGGING_UNREACHABLE", "warn", Troubled("posts fail"))

RenderCrossHost(run_is_active) ==
    OfAll("RENDER_CROSS_HOST", "warn",
          {n \in OnlineOf("render") :
              /\ run_is_active /\ rec[n].running
              /\ OnlineOf("client") # {}
              /\ \A c \in OnlineOf("client") : Kit(c) # Kit(n)})

EdgeIdle(run_is_active) ==
    OfAll("EDGE_IDLE", "error",
          {n \in OnlineOf("edge") : run_is_active /\ ~rec[n].subscribed})

(* Mutant: every client is paired with every edge.                         *)
LinksAcross == {l \in OnlineOf("client") \X OnlineOf("edge") :
                    rec[l[1]].streaming # "no" /\ rec[l[2]].subscribed}

(* The silent failures: a streaming client and a subscribed edge of its     *)
(* zone that do not meet, judged in this order.                             *)
Links == {l \in OnlineOf("client") \X OnlineOf("edge") :
            /\ ZoneOf(l[1]) = ZoneOf(l[2])
            /\ rec[l[1]].streaming # "no" /\ rec[l[2]].subscribed}

LinkFault(c, e) ==
    IF Kit(c) # Kit(e) THEN "QOS_MISMATCH"
    ELSE IF ~rec[e].peers /\ rec[c].streaming = "settled" THEN "NO_PEER"
    ELSE IF Rising(c) /\ Flat(e) THEN "NO_FRAMES" ELSE "none"

LinkFaults ==
    {Finding(LinkFault(l[1], l[2]), "error", l, ZoneOf(l[1])) :
        l \in {m \in Links : LinkFault(m[1], m[2]) # "none"}}

(* The media profile.                                                       *)
Ends(t) == {n \in OnlineOf(t) : rec[n].running}
NotConnected(run_is_active) ==
    IF ~run_is_active THEN {}
    ELSE About("MEDIA_NOT_CONNECTED", "error",
               {n \in Ends("sender") \cup Ends("receiver") : ~rec[n].ok})
StreamMismatch(run_is_active) ==
    IF ~run_is_active THEN {}
    ELSE About("STREAM_MISMATCH", "error",
               {n \in Ends("receiver") :
                  LET near == {s \in Ends("sender") : ZoneOf(s) = ZoneOf(n)}
                  IN  near # {} /\ \A s \in near : Kit(s) # Kit(n)})

Uplink == {n \in OnlineOf("relay") :
             Flat(n) /\ \E s \in OnlineOf("sender") : ZoneOf(s) = ZoneOf(n) /\ Rising(s)}
Downlink == {n \in Ends("receiver") :
               Flat(n) /\ \E m \in OnlineOf("relay") : ZoneOf(m) = ZoneOf(n) /\ Rising(m)}
MediaNoFrames(run_is_active) ==
    IF run_is_active THEN About("MEDIA_NO_FRAMES", "error", Uplink \cup Downlink) ELSE {}

(* The radio.                                                               *)
GnbSilent == OfAll("GNB_SILENT", "warn", {n \in OnlineOf("gnb") : Flat(n)})
XappFaults ==
    UNION {IF ~rec[n].ok /\ "no E2" \in fleet.troubles[n]
           THEN About("XAPP_NO_E2", "warn", {n})
           ELSE IF rec[n].running /\ Flat(n) THEN About("KPM_SILENT", "warn", {n})
           ELSE {} : n \in OnlineOf("xapp")}
PolicyNotApplied ==
    About("POLICY_NOT_APPLIED", "error",
          {n \in OnlineOf("xapp") : ~rec[n].ok /\ "no E2" \notin fleet.troubles[n]})
SourcesDisagree ==
    About("RAN_SOURCES_DISAGREE", "warn",
          {n \in OnlineOf("xapp") \cap Troubled("scale") : \E g \in OnlineOf("gnb") :
              ZoneOf(g) = ZoneOf(n) /\ rec[g].run # NoRun /\ rec[g].run = rec[n].run})

(* Mutant: the nodes of every zone are held against the run.               *)
RunMismatchAnywhere(r) ==
    IF r = NoRun THEN {}
    ELSE About("RUN_MISMATCH", "error",
               {n \in Online : rec[n].run \notin {NoRun, r}})

RunMismatch(r) ==
    IF r = NoRun THEN {}
    ELSE About("RUN_MISMATCH", "error",
               {n \in In(place[r]) : rec[n].run \notin {NoRun, r}})

ParticipantLost(r, run_is_active) ==
    IF ~run_is_active THEN {}
    ELSE OfAll("PARTICIPANT_LOST", "error",
               {n \in participants_of(r) \ Online : ~rec[n].departed})

diagnose(r, run_is_active) ==
    Absences(r, run_is_active) \cup Topology(run_is_active)
    \cup RenderStarved(run_is_active) \cup TransportMismatch(r) \cup CodecMismatch(r)
    \cup ClockOffset \cup ClockSkew \cup RenderCrossHost(run_is_active)
    \cup EdgeIdle(run_is_active) \cup LinkFaults
    \cup NotConnected(run_is_active) \cup StreamMismatch(run_is_active)
    \cup MediaNoFrames(run_is_active) \cup GnbSilent \cup XappFaults
    \cup PolicyNotApplied \cup SourcesDisagree \cup RunMismatch(r)
    \cup VersionSkew \cup Unlogged \cup ParticipantLost(r, run_is_active)

(* One diagnosis per run that s has active, or that of the idle platform.   *)
refresh_findings(s) ==
    LET active == {r \in Run : s[r] \in OCCUPIES_SLOT}
    IN  IF active = {} THEN diagnose(NoRun, FALSE)
        ELSE UNION {diagnose(r, s[r] \in ACCEPTS_PARTICIPANTS) : r \in active}

-----------------------------------------------------------------------------
(* Runs.  One is started in a zone whose slot is free; the nodes it calls   *)
(* join when their statuses say so.  Bound: the runs of the fleet, in order.*)
StartRun(r, p) ==
    /\ state[r] = Absent
    /\ r \in DOMAIN fleet.runs /\ p \in fleet.profiles
    /\ r - 1 \in Run => state[r - 1] # Absent
    /\ \A q \in active_runs : place[q] # fleet.runs[r]
    /\ state' = [state EXCEPT ![r] = advance("draft", "start")]
    /\ place' = [place EXCEPT ![r] = fleet.runs[r]]
    /\ profile' = [profile EXCEPT ![r] = p]
    /\ UNCHANGED <<fleet, rec, findings>>

Stop(r) ==
    /\ state[r] \in ACCEPTS_PARTICIPANTS
    /\ state' = [state EXCEPT ![r] = advance(state[r], "stop")]
    /\ UNCHANGED <<fleet, profile, place, rec, findings>>

(* Mutant: any node that records satisfies quorum, whatever its run.       *)
QuorumOfAnyRun(r) ==
    \A t \in required_roles_for(profile[r]) :
        \E n \in Online : TypeOf(n) = t /\ rec[n].running

(* Quorum is judged among the participants of the run.                      *)
has_quorum(r) ==
    \A t \in required_roles_for(profile[r]) :
        \E n \in participants_of(r) \cap Online : TypeOf(n) = t /\ rec[n].running

(* What a pass may make of run r.  A run that starts may pass its timeout,  *)
(* and one that stops may have every report or pass its own: Orchestrator   *)
(* models these.                                                            *)
Judged(r) ==
    CASE state[r] = "starting" /\ has_quorum(r)  -> {"running"}
      [] state[r] = "starting" /\ ~has_quorum(r) -> {"starting", "failed"}
      [] state[r] \in {"running", "degraded"}    ->
            {IF has_quorum(r) THEN "running" ELSE "degraded"}
      [] OTHER                                   -> {"stopping", "stopped"}

all_offline(r) ==
    /\ participants_of(r) \cap Online = {}
    /\ state[r] = "starting" => participants_of(r) # {}

supervise(r) ==
    IF r \notin active_runs THEN {state[r]}
    ELSE IF all_offline(r)
         THEN {IF state[r] = "stopping" THEN "stopped" ELSE "failed"}
         ELSE Judged(r)

(* snapshot_counters.                                                       *)
Rolled(record) == [record EXCEPT !.trend = IF @ = "unsaid" THEN @ ELSE "same"]

(* Mutant: counters are rolled forward before the compare.                 *)
PassRollsFirst ==
    /\ rec' = [n \in Node |-> Rolled(rec[n])]
    /\ UNCHANGED <<fleet, profile, place>>
    /\ \E s \in [Run -> RunStates \cup {Absent}] :
           /\ \A r \in Run : s[r] \in supervise(r)
           /\ state' = s
    /\ findings' = refresh_findings(state)'

(* A pass: every active run is moved on, those still active are diagnosed   *)
(* (or the idle platform), and then the counters are rolled forward.        *)
Pass ==
    /\ rec' = [n \in Node |-> Rolled(rec[n])]
    /\ UNCHANGED <<fleet, profile, place>>
    /\ LET next == [r \in Run |-> supervise(r)]
       IN  \E s \in [Run -> UNION {next[r] : r \in Run}] :
              /\ \A r \in Run : s[r] \in next[r]
              /\ state' = s
    /\ findings' = refresh_findings(state')

-----------------------------------------------------------------------------
Init ==
    /\ fleet \in Fleets
    /\ profile = [r \in Run |-> "robotics"]
    /\ place = [r \in Run |-> CHOOSE z \in Zone : TRUE]
    /\ state = [r \in Run |-> Absent]
    /\ rec = [n \in Node |-> Unheard]
    /\ findings = {}

Next ==
    \/ \E n \in Node : \/ on_hello(n) \/ on_status(n) \/ Grace(n)
                       \/ on_goodbye(n) \/ on_disconnect(n)
    \/ \E r \in Run : \/ \E p \in Profile : StartRun(r, p)
                      \/ Stop(r)
    \/ Pass

Spec == Init /\ [][Next]_vars

(* The supervisor's loop goes on, whatever a pass raises.                   *)
FairSpec == Spec /\ WF_vars(Pass)

-----------------------------------------------------------------------------
(* Type correctness of the registry and of the findings (NodeRecord,        *)
(* Finding).                                                                *)
WatchTypeOK ==
    /\ fleet \in Fleets
    /\ profile \in [Run -> Profile]
    /\ place \in [Run -> Zone]
    /\ state \in [Run -> RunStates \cup {Absent}]
    /\ rec \in [Node -> [connected : BOOLEAN, departed : BOOLEAN,
                          run : Run \cup {NoRun}, running : BOOLEAN,
                          streaming : {"no", "fresh", "settled"},
                          subscribed : BOOLEAN, peers : BOOLEAN, ok : BOOLEAN,
                          trend : {"unsaid", "first", "same", "up", "down"}]]
    /\ \A n \in Node : rec[n].running => rec[n].run # NoRun
    /\ \A f \in findings : f.zone \in Zone \cup {"all"}

(* The quorum rule and the WF_*_ABSENT findings read one set of role rules   *)
(* "so the three cannot disagree" (workflow.py, orchestrator.py): a run the *)
(* supervisor holds to be running lacks no required role in its zone,       *)
(* although one is judged among the participants of the run, the other      *)
(* among the nodes of the zone.                                             *)
QuorumAgrees ==
    \A r \in Run : state[r] = "running" =>
        \A f \in findings :
            f.code = "ABSENT" /\ f.zone = place[r] =>
                \A t \in required_roles_for(profile[r]) : f.subject # <<t>>

(* WF_RUN_MISMATCH is only said of a node that holds on to a run that has   *)
(* ended: two runs at once, in two zones, never accuse each other's nodes.  *)
RunMismatchIsOld ==
    [][Pass => \A n \in Node : (\E f \in findings' : f.code = "RUN_MISMATCH"
                                                   /\ f.subject = <<n>>)
                               => rec[n].run \notin active_runs']_vars

(* A zone in which everything works: an active run that all of its nodes    *)
(* are in, recording, each of them doing what its type does, on one kit.    *)
Well(n, r) ==
    /\ rec[n].connected /\ rec[n].run = r /\ rec[n].running /\ rec[n].ok
    /\ rec[n].trend # "same" /\ fleet.troubles[n] = {}
    /\ TypeOf(n) \in {"edge", "render"} => rec[n].subscribed
    /\ TypeOf(n) = "edge" => rec[n].peers
    /\ TypeOf(n) = "render" => Rising(n)
Healthy(z) ==
    LET here == {n \in fleet.nodes : ZoneOf(n) = z}
    IN  \E r \in Run :
            /\ Accepting(r) /\ place[r] = z
            /\ \A n \in here : Well(n, r)
            /\ \A x, y \in here : Kit(x) = Kit(y)
            /\ \A t \in NodeType : Roles[t].absence = "error" /\ serves(t, profile[r])
                                  => \E n \in here : TypeOf(n) = t

(* No false alarm: whatever another zone does (its run, its kit, its        *)
(* counters), the pass finds no error in a zone in which everything works.  *)
HealthyZoneIsQuiet ==
    [][Pass => \A z \in Zone : Healthy(z) =>
          \A f \in findings' : f.severity = "error" =>
              /\ f.zone # z
              /\ \A n \in Node : ZoneOf(n) = z => f.subject # <<n>>]_vars

(* A client that streams to a subscribed edge of its zone, both staying,    *)
(* and whose frames do not arrive: the edge's count never grows.            *)
SilentLink(c, e) ==
    /\ <<c, e>> \in Links
    /\ rec[c].streaming = "settled"
    /\ rec[e].trend \in {"first", "same"}

(* The silent failures are what the diagnosis exists for: as long as frames *)
(* are published and none arrive, it says so of that link again and again.  *)
SilenceIsReported ==
    \A l \in Followed :
        /\ <>[]SilentLink(l[1], l[2])
        /\ []<><<Pass /\ Rising(l[1])>>_vars
        => []<>(\E f \in findings : f.subject = l)

(* "A run is scoped to its zone: diagnosing the others while it is the      *)
(* subject would attribute their faults to it" (workflow.py): what a pass   *)
(* finds of how a node takes part in a run is said of a zone with a run.    *)
DiagnosedInItsZone ==
    [][Pass => \A f \in findings' : f.code \in {"EDGE_IDLE", "RENDER_STARVED"} =>
          \E r \in active_runs', n \in Node : f.subject = <<n>> /\ place[r] = ZoneOf(n)]_vars
=============================================================================
