# Formal verification of mec-cast

mec-cast is a testbed that streams point clouds and video from mobile clients
over a private 5G network to an edge, and measures every hop.  A measurement is
a *run*.  The admin service decides when a run exists, starts, degrades, stops
and ends; the nodes (lidar clients, edges, renderers, xApps, collectors, relays,
WebRTC peers) record it.  A run that is wrongly failed, recorded into another
run's directory, or left holding its zone costs a measurement, and these are
the mistakes that tests of one component at a time do not reach.  This
directory models that machinery in TLA+, checks it with TLC and proves the most
important results with TLAPS: the control plane (admin service and nodes), the
watch it keeps over its fleet, the point-cloud pipeline the runs measure, the
recorder that measures it, and the xApp with its two ways to the radio network.

## 1. Inventory

Paths are relative to the repository.

| Part | State it keeps | Operations | What makes it correct |
|---|---|---|---|
| Run state machine `services/admin/.../state.py` | none (a table) | `advance`, `allowed_actions` | the buttons offered are the transitions accepted; an ended run stays ended |
| Orchestrator `orchestrator.py` | `_runs`, `_node_sockets`, start and stop timers, `_late_stops` | `create_run`, `act`, `set_ran_policy`, `on_hello`, `on_status`, `on_goodbye`, `attach_node`, `detach_node`, the supervise, keepalive and broadcast loops | one active run per zone; every run leaves `starting` and `stopping`; reports filed under their run; a measurement not failed under its nodes |
| Registry `registry.py` | a record per node: run, state, connection, last seen | `on_hello`, `on_status`, `touch`, `on_goodbye`, `on_disconnect`, `is_online` | a record that says connected can be reached |
| Store `store.py` | `run.json` per run, `journal.jsonl` | `save`, `journal`, `load`, `_replay_journal`, `uuid7` | what is on disk follows memory; a crash at any point does not resurrect a run |
| Node socket endpoint `api.py` | one coroutine per connection | `node_socket`, REST routes | handlers of old and new sockets of one node do not undo each other |
| Wire protocol `protocol.py` (both sides) | none | frames | |
| Diagnostics, topology `workflow.py`, `topology.py` | counters of the previous pass (registry) | `diagnose`, `required_roles_for`, `snapshot_counters` | findings agree with the quorum rule, stay in their zone, and silence is reported |
| RAN policy `ranpolicy.py` | none | `resolve` | |
| Python admin client `client.py` | two bounded queues, identity, socket thread | `publish_status`, `poll`, `goodbye`, `_session` | order kept, drops counted, reconnect announces the run really recorded |
| ROS node base `node_base.py` | `run_id`, `recorder`, last status | `_drain_admin`, `_apply_command`, `_report_status` | records only runs meant for it, stops when told, one report per run |
| Publisher, edge, renderer `publisher_node.py`, `edge_node.py`, `render_node.py`, `sinks.py`, `gpcc.py`, `replay.py` | timer, subscription, coder, sink, counters | `start_run`, `stop_run`, `publish_frame`, `on_cloud`, `on_result`, `close`, `cap` | the frames of a run are joined on run and seq, gaps are counted, an idle node holds nothing |
| xApp `ran/xapp` | run context, policy in force, marker file | `start_run`, `stop_run`, `apply_policy`, `tick`, `boot` | a RAN policy never outlives its run |
| KPM subscription `kpm_monitor.py`, `jsonfeed.py`, `sim.py`, `flexric.py`, `gnb_sim.py`, the E2 bridge | the subscription held, requests, the link, what the far end serves | `try_subscribe`, `unsubscribe`, `_dispatch`, `_connect`, `resubscribe` | what is held is served, nothing served outlives its run |
| RAN collector `ran/collector` | run session, source connection | `run_with_admin`, `RunSession` | the source's lines go to the run they were read in |
| Telemetry recorder `telemetry/src/recorder.rs`, `py.rs`, `ffi.rs` | SPSC ring, drop counters, writer and uploader threads | `try_record`, `shutdown`, `emit_snapshot` | written + dropped = produced |
| Rust and JS admin clients `telemetry/src/admin.rs`, `clients/webrtc_native/admin_client.js` | as the Python client | | |
| Media relay `edge/media-relay` | sessions, frame records | pairing, forwarding, recording | |
| Signaling server `edge/signaling/server.js` | rooms | join, relay, leave | |
| WebRTC native client `clients/webrtc_native` | peer connection, delay measurement | | |
| UE agent, RAN normalisation, offline join tools, deployment scripts | | batch or input/output | |

**Interactions.**  A node opens a WebSocket to the admin, says hello and gets a
welcome naming the run of its zone, if one accepts participants.  The admin
broadcasts `run.start` and `run.stop`; nodes answer every command and every
change with a status, and put their recorder's report into the status after a
stop.  The supervisor judges each active run from the registry every
`diagnostics_interval_s`.  The store is written by the orchestrator alone and
read once, at start-up.

**Where it is hard.**  The admin is one asyncio loop, so its handlers interleave
exactly at their awaits: in `act()` between the first write of a broadcast and
the final `_persist`, in `attach_node` while an old socket is closed, in
`on_status` around a catch-up stop.  Nodes lag behind: a record says what a node
was doing when its last status left.  Connections lose what was in flight, both
ways.  The process may be killed between a manifest write and its journal line,
and in the middle of a broadcast whose run is not on disk yet.  Clocks decide
three outcomes (start timeout, stop timeout, offline timeout).

`PROJECT.json` lists every component with its status and every hazard at its
line.

## 2. The modules

| Module | Models | Role |
|---|---|---|
| `RunState` | `state.py` | pure table, used by all |
| `ZoneSlots` | what the admin promises about zones and runs | abstract specification |
| `Orchestrator` | the admin service, with nodes as an open environment | core |
| `ControlPlane` | the admin, the nodes' run lifecycle, their clients and the network | extends and composes `Orchestrator` |
| `MCOrchestrator`, `MCControlPlane` | constants for TLC | instances |
| `XappControl` | the xApp process, its `rc_control` capability, the osc adapter's control queue | a component of its own |
| `OrchestratorProofs`, `XappControlProofs` | theorems about `Orchestrator` and `XappControl` | TLAPS |
| `FrameFlow` | what the pipeline promises of each sensor's captures | abstract specification |
| `Pipeline`, `MCPipeline` | publisher, edge and renderer of the point-cloud profile over the runs of a process | refines `FrameFlow` |
| `Watch`, `MCWatch` | registry records, the supervisor's pass, every finding of the diagnosis, role rules and the declared fleet | the admin as an observer |
| `KpmFeed` | KPM subscriptions: `kpm_monitor`, `JsonFeedPort`, both transports, gnb-sim or the bridge | a component of its own |
| `Recorder` | producer, writer thread, uploader thread and shutdown of the telemetry recorder | a component of its own |
| `ControlPlaneProofs`, `PipelineProofs`, `WatchProofs`, `RecorderProofs`, `KpmFeedProofs` | theorems about these | TLAPS |

### Orchestrator

`state`, `kind`, `removed`, `reports` are the fields of `_runs` that some guard
reads; a run is identified with its sequence number.  `startingSince` and
`stoppingSince` are the two dicts of monotonic times, abstracted to *none*,
*fresh*, *overdue*, since the code only compares them with a timeout.  `rec` is
the registry: the run and RUNNING state a node last reported, `connected`, and
whether `last_seen` is recent.  `socket` says whether `_node_sockets` has an
entry, `stale` counts handlers whose socket is no longer that entry,
`attaching` counts hellos that await the closing of an older socket.  `tasks`
are handlers suspended in a broadcast, with the targets they have still to
write to.  `manifest`, `journal` and `unjournaled` are the disk.

One action is one uninterrupted stretch of a handler.  `act_start`, `act_stop`
and `_auto_stop` run up to the first write of their broadcast and leave a task;
`Resume` writes to the next target, and after the last one does what the handler
does last: it persists *the state the run has by then*.  `_supervise_run` is the
whole pass over one run: quorum or timeout first, then abandonment, then
reports, then persistence, then the broadcast to the nodes of a failed run.
`Journal` is the second half of `_persist`; nothing but a crash comes between.
`Restart` is a kill at any point followed by `load`, `_replay_journal` and
`start()`.

Abstractions: participants, sites, findings and timestamps are written to the
manifest and never read by a guard; acks and pongs only touch a record;
broadcast targets are taken in any order; the first write of the supervisor's
own broadcast may come a step after its journal line (a harmless extra
interleaving).  Bounds: `MaxRun`, `MaxStale`, `MaxTasks`.

### ControlPlane

A node is its `run_id` and whether it holds a Recorder.  `down[n]` is what was
written to it and not applied, `up[n]` what it published and the admin has not
handled; both keep order, and `Break` loses a suffix of one and a prefix of the
other, as a TCP connection and the client's queues do.  `Connect` is the hello
with the identity of that moment, `Attach` the end of `attach_node`, after which
the welcome is built.  `_drain_admin` applies one frame and publishes the forced
status; `_report_status` is the status timer.  `Forgets` are the nodes that name
no run once stopped (xApp, collector, relay); the ROS nodes keep naming the
last; an instance may leave open which of its `Forgets` are of that kind.
`StartFails` lets `start_run` raise.  `Flowing` are the nodes whose
counters move while they record: the timer suppresses a status equal to the last
one (`node_base.py` line 334), so a node that receives nothing says nothing, and
`EndedRunIsLeft` is claimed only for nodes that are flowing.

A node's process may end, `MaxExits` times.  `finish` is the exit it is asked
for: it stops the run and queues a goodbye with the report of the Recorder it
closed.  `WelcomeRaises` is a `start_run` that raises out of the *welcome* branch,
which unlike a command is not guarded: the exception leaves `rclpy.spin`, and
`finish` runs on the way out, over whatever the start had built.  `HandleGoodbye`
is `on_goodbye` and the end of that connection.  `Exit` is the process gone,
killed at any point or a second after its goodbye; the restarted one knows no run
and is offered the active one again.  After its goodbye a process drains no
frame, and its client, which waits about 30 s to retry, does not reconnect.  What
a dead process had sent and the admin has not handled is either handled before
its end or lost with it.

Not modelled: the bound of the inbound queue (64 frames, which a node drains
several times a second), and an admin restart under live nodes (`Crashes` is
FALSE here; `crash` has it with nodes that say anything a node may say).

### Pipeline

A ROS node runs one callback at a time, so each handler (`start_run`,
`stop_run`, `publish_frame`, `on_cloud`, `on_result`) is one action and the
nodes interleave.  `pub`, `edge` and `render` are the fields of the nodes that a
guard or a status reads: the run, what the start built (timer, subscription,
coder, sink, publisher of results) and the counters; `run # NoRun` stands for
`recorder is not None`.  `left` is the run the node had before, `due` a timer
whose callback the executor has not yet called: it may be called after the run
it was made for is over, or in the next one.  `up` and `down` are the queues of
the two subscriptions, KEEP_LAST of their depth, behind links that may lose any
frame; a new subscription starts empty.  `viewer` is rerun's server, which
belongs to the process and not to a run: a stream started while the last still
holds the port is *dead* without anybody raising.  A start may raise at its
checks, at a coder, at the recorder (whose constructor raises when its directory
or file cannot be had, `py.rs:160`), at the sink, at the QoS of a topic, or at
the timer's period, and leaves what was built by then.  Where the coder is
built before the recorder (client and renderer), a recorder that does not open
leaves an idle node with a coder, which the next `stop_run` does not touch as it
returns early: `unopened` remembers that it happened.  A start out of a welcome
that raises kills the process, which comes back without a run.  Commands and
welcomes come at any time or never (`MayJoin`); `ControlPlane` says how.
`measured` and `shown` are the logs, in order, of the capture stamps that the
edge recorded and the renderer drew; `FrameFlow` speaks of them.

Abstractions: a frame is its envelope (sensor, trace, seq, capture); that it
cannot be coded, decoded or drawn is a choice; points, centroids and files are
left out.  `Rejoins` and `PageFails` are premises, see the divergences below.

### Watch

`rec` is what `NodeRegistry` keeps per node, with a counter abstracted to its
`trend` against the previous pass, because the diagnosis only compares the two;
`streaming` keeps whether the grace period of a stream is over.  `on_status` is
the whole of `NodeRegistry.on_status`, with what a status may say chosen among
what the node's type can (`Says`), including the counters that start anew with a
run or a process (`Moves`).  `diagnose` has one operator per check of
`workflow.py`, each with its guards, severity, subject and zone; `Pass` is the
body of the supervisor's loop: every run judged, the findings of the runs then
active, and last the counters rolled forward.  How a node was deployed
(middleware, codec, reliability, stream, host) is one choice, its *kit*, so two
nodes agree in all of these or in none; standing conditions of a host (clock,
commit, unreachable log service) are constants of the fleet.  Wording, remedies
and the order of findings are left out.  Node endings are limited to the fleets'
`leaving`, and runs to the zones of `runs`.

### KpmFeed

The xApp's main thread makes one request at a time and waits for `reply` or its
timeout; `doing` is the request.  `subs`, `requests`, `ids` and `handle` are
`JsonFeedPort._subs`, `._sub_requests`, `._ids` and `KpmMonitor.handle`; `out` and
`in` are what is under way on the link, `served` and `refused` what the far end
serves and refused on it.  A link that goes loses what is under way to the far
end, which forgets; a new one starts with the subscriptions the port holds
(`Resubscribe`).  `adapter` chooses between gnb-sim, which may be unreachable and
grants everything, and the bridge process, which is started again at the next
send and may refuse any subscription, first or repeated, or have no E2 node
(`MayRefuse`): its reasons come and go with the RAN, so they are a choice.

Each link has a reader, a thread of its own.  What the reader of a link that went
has still to hand over stays in `old`, and `dispatchOld` does it at any later
moment, also when another link stands and another request waits; the last thing a
bridge's reader does is to fail every subscription that waits by then
(`FailWaiting`), whichever bridge it was asked of.  `AnswerCrossesTimeout` is
`_request` giving up between the reader's look at `_replies` and its use of it:
the `KeyError` ends the reader, and the bridge it read is read no more while it
runs (`reading`), whereas gnb-sim's connection is replaced at the next send.
`granted` and `abandoned` are history: what was ever granted, and the requests
that failed before their answer counted.

Abstractions: an id is the number of its subscription; indications, and the pause
between two tries, are left out.  *Served* means a slot of the bridge or a
subscription of gnb-sim's handler; an E2 node that leaves under a bridge that
stays takes neither away.  A `subscribe_kpm` whose send raises leaks one entry of
`_subs` and uses up one id, with no request behind it: it is left out.  So is a
gnb-sim connection abandoned after a `KeyError`, which the simulator may serve
until it closes.

### Recorder

One action is what a thread does between two accesses to what it shares: the
ring, the drop counter, the stop flag, the snapshot channel.  `try_record` and
`CountDrop` are the two halves of a push that fails; the mutex of the Python
binding, or the single thread of the C one, keeps shutdown out between them
(`Close`).  The writer goes round `drain`, `drained`, `snapshot`, `judge`, with
the stop flag as it read it in `seen`.  `disk` counts the rows known to be
flushed.  Whether there is a `logging_url` is chosen at the start.  A sample is
one of many, so ring and channel are counts; what the rows hold and the delay
statistics are left out, and `writeln!` does not fail.

### XappControl

`policy`, `pstate`, `stale` and `marker` are `RcControl.policy` (with its node and
the schedule steps left), `.state`, `._stale` and the marker file.  `doing` is
where the main thread stands: handlers are cut exactly where a crash could fall
between a control handed to the RIC and a write to the marker, within that write
(the file is truncated before its text is there: `Torn`), and in the wait of
`on_stop`.  `pending` is `OscPort._pending`, `unanswered` the answers still
under way: an answer is matched with the oldest entry, whichever control it was
for, so a late one counts for another.  `owed` is `sent - acked - failed`, which
that wait reads; a send that raises reaches no RIC, is counted at once and again
when its entry expires.  `capped` is, for each E2 node and UE, whether the last
control handed over was a cap; `unsent` remembers that the revert under way was
not handed over.  A control the RIC refuses is recorded as failed and is outside
what the xApp can promise.  `tick` is split into its three parts (boot, schedule
steps, admin loss), each of which reads a clock or a connection that may have
changed since the last.  A command is handled only while the admin is reachable.
`Launch` is a new process, whose first `on_boot` reads the marker and removes one
it cannot read.

Left out: ratios and `control.csv`, a disk that refuses the marker, the standalone
mode, a repeated start of the same run (it does nothing), and answers of the other
adapters, which are matched by id and do not expire.

`rc_control.py` says that a policy never outlives its run.  `CapSlipsOnlySo` is the
form of it that holds: with one E2 node and a process that ends at most once, a cap
loses its last trace (the policy in force, the leftover of boot, the marker) only
where the send of its revert raises (`RevertRaised`) or the process dies within
the write of its marker (`EndsBeforeMarker`).  The two premises are needed.  With
two E2 nodes, a policy replaced by one for the same UE on the other node is not
reverted (`on_policy` compares the UE only).  With two ends, a leftover that waits
in memory for an E2 node is forgotten when this process's own marker has
overwritten the file.  TLC shows either by changing one constant of
`XappPolicy.cfg`, and `OrphansHaveFiveCauses` proves that there is nothing else.

## 3. What is checked

| Run | Expect | Properties | Question |
|---|---|---|---|
| `slots` (`OrchSlots.cfg`) | pass | `OneActiveRunPerZone`, `PersistedWhenQuiet`, `ImplementsZoneSlots` | Two runs over two zones, without crashes: at most one active run per zone, as the abstract ZoneSlots has it when nothing may empty a slot, through starts, refused starts, stops, timeouts, reports and suspended broadcasts; and what is on disk once handlers are quiet. |
| `crash` (`OrchCrash.cfg`) | pass | `TypeOK`, `ConnectedHasSocket`, `StartIsRemembered`, `StoppingResolves`, `TimedStartResolves` | The process killed and restarted at any step, with reconnects overlapping old sockets and up to three suspended broadcasts; under fair scheduling of the loop alone a run leaves starting and stopping whatever the nodes do. |
| `reconnect` (`OrchReconnect.cfg`) | violation | `CurrentSocketIsConnected` | The handler of the replaced socket marks the reconnected node disconnected. |
| `replay` (`OrchReplay.cfg`) | violation | `StoppedStaysStopped` | A kill between the manifest and the journal write lets the older journal line overrule a stopped manifest. |
| `node` (`CPNode.cfg`) | pass | `NodesTypeOK`, `ReportsBelong`, `RecordsOwnZone`, `EndedRunIsLeft` | One node, two runs over two zones, starts that may fail: nodes record only what is meant for them, reports are filed where they belong and an ended run is left. |
| `breaks` (`CPBreaks.cfg`) | pass | `EndedRunIsTold` | Connections break, frames are lost, a reconnect overlaps the old socket, and the node ends by a goodbye, a kill or a start that raises, and comes back: a node that goes on recording an ended run is sent the one catch-up stop. |
| `xapp` (`XappPolicy.cfg`) | pass | `ControlTypeOK`, `CapSlipsOnlySo`, `InForceIsOnDisk`, `StaleIsReverted`, `LostAdminReverts`, `StopEnds` | Policies of two UEs applied, replaced, stepped and reverted while E2 nodes come and go, sends raise, answers are late or lost and the process ends once, also within the write of its marker: where a cap can lose its last trace, and that every other leftover or orphaned policy is reverted. |
| `pipeline` (`PipeFlow.cfg`) | pass | `PipeTypeOK`, `StreamLive`, `IdleHoldsNothing`, `NoGapNoLoss`, `FramesAccounted`, `ImplementsFrameFlow` | Frames of a coded and then an uncoded run from a client over the edge to a renderer with a served viewer: queues overflow, links lose frames, codecs fail, nodes die, stop late, and start halfway or without their recorder; each capture is measured, then shown, once at most and in order. |
| `watch` (`WatchFleet.cfg`) | pass | `WatchTypeOK`, `QuorumAgrees`, `RunMismatchIsOld`, `HealthyZoneIsQuiet`, `SilenceIsReported` | Eleven fleets of up to three nodes, each about some of the diagnoses: what the supervisor makes of runs and what the diagnosis says of them agree, a healthy zone is accused of nothing, and a silent link is reported. |
| `zones` (`WatchZones.cfg`) | violation | `DiagnosedInItsZone` | With two zones, an edge of the zone that has no run is diagnosed as idle in the run of the other. |
| `kpm` (`KpmFeed.cfg`) | pass | `FeedTypeOK`, `HeldIsServed`, `ServedIsOwned`, `FeedRecovers` | KPM subscriptions of two runs over both transports, with one link loss, an answer that comes too late, two refusals at any request of the bridge (first or repeated), and readers of a dead bridge that finish late: what the monitor holds was granted and is served or was refused anew, and what is served is owned. |
| `recorder` (`RecFlow.cfg`) | pass | `RecorderTypeOK`, `SamplesConserved`, `SnapshotsTell`, `ShutdownEnds` | A recorder with and without uploads: five samples through a ring of two, two due snapshots and any at the end through a channel of one, posts that fail, and a shutdown at any moment. |

Bounds, and why they suffice.  `slots` has two runs and two zones, the least in
which a slot can be contended and a zone confused with another; a third run meets
no guard that the second does not.  All four runs of `Orchestrator` have one node,
a client, and the quorum cut down to that role: with it a run can gain and lose
its quorum and all its nodes, but not part of them.  Partial loss is in `watch`,
where the quorum of a run is judged over fleets of up to three nodes, and in the
theorems, which hold for any nodes and quorum rules (`OnlineRunNotFailedHolds` is
about partial loss, and only proved).  `crash` has one run, since a crash meets
runs one by one, and three tasks, so that a start, a stop and a second stop of one
run are suspended at once; that crashes keep the slots exclusive and nothing else
empties them is proved (`ImplementsZoneSlotsHolds`) and checked in `slots` without
crashes, where the abstract `Crash` is switched off (`CanCrash`).  One superseded
socket is enough for every order of close, attach and detach of a reconnect.
Queues of two let one frame overtake nothing but wait behind another, and fill up.
In `ControlPlane` one node is enough, since the frames of two nodes meet in the
admin only.  `node` has two runs over two zones and no breaks or process ends, to
stay within minutes; `breaks` has one run and one process end (`MaxExits`), which
meets every point of that run: what it asks is about a node and the run it did not
leave, and a second run adds no guard to that.

`Pipeline` has a coded and an uncoded run, one client, four captures, an edge
queue of two and a renderer queue of one: a frame can be lost at the link, in
either queue and in the coder, a late frame can meet the next run, and the
replay ends before the captures do.  `Watch` has eleven fleets of two or three
nodes, each about some of the findings, because each finding relates at most two
nodes and a run; two zones, two runs.  `KpmFeed` has two runs, one drop, one
request given up and two refusals, so that a drop or a crossed timeout can meet a
request, a held subscription, one refused anew or one abandoned, the reader of the
dead bridge can meet the next request, and a run that lost one subscription can
start another.  `Recorder` has five samples for a
ring of two and a channel of one, so that both overfill and the writer comes to
rest in between.

For the xApp, two UEs are the least in which a policy can be replaced by one that
must revert it, three pending controls hold a revert, an apply and a boot revert
at once, and one end of the process covers every crash point.

Fairness.  `FairSpec` assumes only the admin's own scheduling: a suspended
broadcast is resumed (a write to a dead peer fails eventually), `_persist` goes
on, the supervisor passes over every active run, and the clock advances in a
state that is timed.  Nothing is assumed of operators or nodes, so
`StoppingResolves` holds with a participant that stays online and never reports.
In `ControlPlane`, `FairSpecAll` adds that nodes drain, report and reconnect and
that the admin handles their frames: each is a timer or a loop of its own.  In
`Watch` only the supervisor's loop is fair; the nodes that stream and stay are
premises of `SilenceIsReported`.  In `KpmFeed` the tick and the status timer come
round (strong fairness of the request for nodes, since other requests keep the
main thread busy in between), requests end, and a reader that lives and the far
end go on.  Drops, refusals, crossed timeouts and requests given up on a standing link come to an end with
their bounds, as they must if a subscription is to be had at all; that the far end
is reachable and read and the run goes on from some point is a premise of
`FeedRecovers`.  Nothing is assumed of the readers of links that went.  In `Recorder` each thread goes on, a post ends by
its timeout, and shutdown, once begun, goes on; nothing says that it is called
or that samples come.  `Pipeline` states safety only.  In `XappControl` the main thread
goes on with what it began and ticks, the adapter's loop expires what is not
answered, and a try of `on_boot` that can succeed again and again succeeds once;
`StaleIsReverted` supposes that an E2 node stays connected from some point on.
`StopEnds` needs no deadline in `on_stop`, since the adapter's timeout is shorter.

### Disagreements found

Each is shown by a run whose single property TLC refutes.

* **reconnect** (`services/admin/src/mec_cast_admin/orchestrator.py:397`): detach_node calls registry.on_disconnect for every socket that ends, also one that a reconnect has replaced, so a node with a live socket is shown disconnected, is no target of any command and counts as offline until its next hello. orchestrator.py:389 says "A reconnect before the old socket was reaped. The new one wins."
* **replay** (`services/admin/src/mec_cast_admin/store.py:319`): _replay_journal applies every journal line of a run, older ones included: killed between save() and journal(), a run whose manifest says stopped is set back to stopping by the journal and then rewritten as failed by start(). store.py:291 says "Apply transitions the journal recorded after the last manifest write." and store.py:294 "It matters when the process died between the two."
* **zones** (`services/admin/src/mec_cast_admin/workflow.py:489`): The loops over edges and renderers run over the nodes of every zone, and their findings carry no zone: with a run in zone A, an unsubscribed edge of zone B is an error WF_EDGE_IDLE of that run, and as its zone is empty the filter of _supervise_run freezes it into the manifest of A's run. src/services/admin/src/mec_cast_admin/workflow.py:157 says "A run is scoped to its zone: diagnosing the others while it is the subject would attribute their faults to it.", and orchestrator.py:822 "Only this zone's findings".

### Known divergences

These were met while modelling.  They are no run of their own; a premise of a
property, a constant, or the comment of a definition carries each.

Control plane:

* A report that names no run is filed (`on_status`, line 540) under the first
  active run of any zone, although line 537 says "Keyed by the run it belongs to,
  not the active one": with `Forgets = {"c"}` and `MaxRun = 2` TLC refutes
  `ReportsBelong`.  `node` checks it, and the theorem has it, for nodes that name
  their run.
* A node that sends nothing new is never found in an ended run (`Flowing`).
  Between `run.start` and its first status a ROS node's record names its
  *previous* run, so a stop in that window misses it; the one catch-up stop
  repairs it (`EndedRunIsLeft`), unless the connection breaks and loses it, as it
  is never sent again (`orchestrator.py:563`, although lines 66-69 and 552 want a
  lost frame repaired).  `node` therefore checks `EndedRunIsLeft` without breaks,
  and `breaks` what remains: the node is told once (`EndedRunIsTold`).
* A catch-up stop that arrives late stops the run the node has started meanwhile:
  the stop names no run the node compares with (`node_base.py:270`).
* A start the headroom check refuses leaves the run in `starting` with no timer,
  until an operator stops it (`orchestrator.py:281`, although line 248 calls the
  refusal recoverable and line 801 says the start timeout bounds every start);
  `TimedStartResolves` and `PersistedWhenQuiet` except it by name (`Refused`).
* `_report_status` suppresses a status equal to the last, so an unchanging node is
  silent until something moves.

Pipeline:

* Where serving the viewer's page raises, its stream is already up and the
  renderer keeps no sink to close it with (`sinks.py:210`): with
  `PageFails = TRUE` TLC refutes `StreamLive` and `IdleHoldsNothing`.
* A node that joins a run it has left (a restarted client, a second start of the
  same run) counts seq from 0 again, into the same run directory, so run and seq no
  longer name one frame, although
  `docs/architecture/adr/0009-render-return-path.md:194` joins sites on them, and
  the remedy of PARTICIPANT_LOST is to restart the node.  `Rejoins` allows it in the
  model: order, accounting and resources (`ImplementsFrameFlow`, `FramesAccounted`,
  `IdleHoldsNothing`) are proved with it; `NoGapNoLoss` needs `~Rejoins`.
* A recorder that does not open leaves an idle client with its encoder, or an idle
  renderer with its decoder, until the next start (`publisher_node.py:297`,
  `render_node.py:230`); the edge, which opens its recorder first, is spared.
* A start that raises after the recorder is open leaves the node RUNNING, half
  started; a second start of the same run returns early and does not repair it.

Diagnosis:

* The findings frozen into the manifest of a run that ends are those of the pass
  before (`orchestrator.py:826`).
* `streaming_since` survives a restarted node's hello, so its grace may be over
  at once; the first pass after a reconnect compares with counters from before.
* TOPOLOGY_MISSING says "never connected" of any declared node that is offline.
* An override `required` with absence `none` blocks quorum without a finding; a
  client that is online but has not joined degrades a run without one.
* RENDER_STARVED, RENDER_CROSS_HOST and EDGE_IDLE look at the nodes of all zones
  (run `zones`).

KPM feed (`flexric.py:20` says that a run survives a bridge crash with a gap; it
does, unless one of these happens):

* The answer to a re-sent subscription is awaited by nobody: where a restarted
  bridge refuses it, or the E2 node is not back yet, the status goes on saying
  subscribed, and `kpm_monitor.py:62` does not ask again while it holds a handle
  (`refused` in `HeldIsServed` and `FeedRecovers`).
* A bridge whose reader died of the `KeyError` (`jsonfeed.py:80`) goes on running,
  and nothing it says is heard until it exits; where FlexRIC aborts on a refused
  subscription, every restart meets the same one.
* A subscription granted after its request was given up, or after the reader of
  an earlier bridge had failed it (`flexric.py:131`), is served until the link
  goes, and nobody ends it (`abandoned` in `ServedIsOwned`).

xApp policy:

* A revert whose send raises is not tried again: `_revert` forgets the policy and
  its marker all the same (`rc_control.py:226`, `:271`), and the cap stays.
* A process killed between the truncation of the marker and its text leaves a file
  the next process removes as unreadable, and with it the trace of the policy for
  the same UE that the new one replaces: its cap stays.
* The answer to an apply or a step sets the state to applied whenever it comes, so
  a policy reverted meanwhile may read as applied (`rc_control.py:208`).

Recorder:

* A write the disk refuses is counted as written (`let _ = writeln!`), so the
  report says what was handed to the file, not what it holds.
* A process killed in a write may leave a torn row, to which the next
  incarnation appends.
* A run without rows has no final snapshot, so its drops are in the report only.

## 4. What is proved

`OrchestratorProofs` proves, for every number of runs, nodes, zones, sockets and
tasks, from `ConstantsAssumption` alone:

* `TypeCorrect`: Every variable of the admin service keeps its type, for any number of runs, nodes and zones, with crashes.
* `OneActiveRunPerZoneHolds`: At most one run per zone is active, for every instance.
* `ImplementsZoneSlotsHolds`: The admin service refines the abstract zone slots, where a crash empties them only if the service may crash (CanCrash is Crashes).
* `StartIsRememberedHolds`: A run journalled past draft is never a draft again, whenever the process is killed.
* `ConnectedHasSocketHolds`: A record that says connected has a socket.
* `OnlineRunNotFailedHolds`: While the process lives, a recording run with a participant online is not failed, for any nodes, quorum rules and partial losses.
* `PersistedWhenQuietHolds`: While the process lives, the disk holds the state of every run no handler is working on.
* `AllowedIsTheTable`: The buttons offered for a run are exactly the actions the transition table accepts.
* `TimersRunOut`: Without a restart, a run that stops, or starts with its timer set, only moves on: no step sets the timer back or revives it, and the first pass after the timeout takes it out of its state (the safety half of StoppingResolves and TimedStartResolves).

The argument.  `TypeOK` is inductive.  `StateStep` classifies what any step does
to the states of runs: nothing, a creation, a start whose zone was free, a move
within the slot, an end, or a restart that leaves nobody active; slot exclusion
and the refinement are read off it.  `StartIsRemembered` is not inductive: a
crash recovers from the disk, so the disk must never be *ahead* of memory.  The
strengthening `DiskBehind` says that whatever the journal or (where the journal
is silent) the manifest has past draft, memory has past draft too, that the
journal never knows a run the manifest does not, and that no suspended handler
works on an absent run.  It is preserved by living steps because every write
writes the current state (`WritesOnly`) and states never go back to draft
(`PastStays`), and by a restart because recovery reads exactly those two places.
`PersistedWhenQuiet` needs a third invariant: each run is *settled* (disk equals
memory) or *owed* a write, by a suspended handler, by the pending journal line,
or as a refused start; the last handler of a run to finish settles it.

`OnlineRunNotFailedHolds` and `PersistedWhenQuietHolds` assume `~Crashes`: a
restart marks what was active failed and forgets unwritten states by design.
`ImplementsZoneSlotsHolds` covers both cases: where the service cannot crash, the
abstract slots cannot be emptied by a crash either.

`TimersRunOut` is what can be proved of `StoppingResolves` and
`TimedStartResolves`: as long as the admin's process lives, a run that stops, or
that starts with a timer, never has its timer set back, and the next pass after the
timeout takes it out of its state.  That the supervisor does take its steps is fairness, and
stays with TLC.

`XappControlProofs` proves, from `ControlAssumption`:

* `InForceIsOnDiskHolds`: While the xApp lives, the marker on disk names the policy in force, for every number of E2 nodes, UEs and crashes.
* `ControlTypes`: Types of the xApp's policy state, for every number of nodes, UEs, controls and ends of the process, with the bound on what a stop waits for: never more than the controls whose entry is still in the queue.
* `WaitIsForAnEntry`: A stop never waits for an outcome whose entry has left the queue: while it waits, something in the queue can still be answered, expire or be lost.
* `OwedIsPending`: Where no send raises, what is counted as owed is exactly the number of entries of the queue that are counted (all but the revert of boot).
* `OrphansHaveFiveCauses`: With any number of E2 nodes and ends of the process a cap loses its last trace in five ways only: the send of its revert raised, the process died within the write of its marker, it ended before it reverted a leftover whose marker was overwritten, a policy of the same UE moved to another node, or a leftover was reverted elsewhere.
* `CapSlipsOnlySoHolds`: With one E2 node and one end of the process the first two of these are the only ones, for any number of UEs, steps and controls.

`InForceIsOnDisk` is inductive.  The two theorems about caps go through what a
handler cut between two effects still knows: that the cap it is about to forget has
been lifted, or its send raised (`Traced`), and, for the first process, that there
is nothing to clean up and that a marker without a policy is the one `on_boot` read
(`FirstEnd`).  `OrphansHaveFiveCauses` says of any number of E2 nodes and ends what
a step must do to take the last trace of a cap; `CapSlipsOnlySoHolds` assumes one
E2 node and `MaxEnds <= 1`, under which three of the five are impossible: the first
premise is what makes a control for a UE undo any other.

The bound on `owed` in `ControlTypeOK` needs the queue of controls: `Counters` says
that `owed` is at most the number of entries that are counted (`Counted`, the
cardinality of a set of positions, for which three lemmas say what an append, a
tail and the empty queue do), and equal to it where no send raises, since a send
that raises leaves an entry that is not owed.

`ControlPlaneProofs` proves, from `ConstantsAssumption` and `NodesAssumption`:

* `ComposedImplements`: SpecAll implies the Spec of Orchestrator: nodes, clients and network refine the open environment the admin is modelled in, so every theorem about the admin alone holds of the composition.
* `NodesTypeOKHolds`: The variables of nodes, links and process ends keep their types, for every number of nodes, runs and ends.
* `RecordsOwnZoneHolds`: A node never records a run of another zone or profile, through starts, welcomes, breaks and process ends in any order.
* `ReportsBelongHolds`: Where every node keeps naming its last run, a report is filed under a run its node recorded, by status or by goodbye, however late.
* `AdminPromisesHold`: The composition of admin, nodes and network keeps what is proved of the admin in its open environment: slots, remembered starts, sockets, timers and the refinement.

`CPInv` types the queues by what may be in them: towards a node, starts and offers
only of runs of its zone and profile that exist (`Meant`), from it, reports only of
runs it recorded (`UpFrames`).  Both sets only grow while the admin's process lives
(`Grows`), so a frame stays right however long it waits; and the targets a suspended
start has left are of its run's zone (`TargetsMeant`), though their records may have
changed since.  `ComposedImplements` follows from the runs that frames name: they
exist.  `ReportsBelongHolds` assumes `Forgets = {}`; the known divergences
say why.  `AdminPromisesHold` is the use of it: what section 4 proves of the
admin alone, read off for the whole.

`PipelineProofs` proves, from `PipelineAssumption` (`StreamAlwaysLive` and
`IdleAlwaysHoldsNothing` with `~PageFails`, `NoGapMeansNoLoss` with one client and
`~Rejoins`):

* `PipeTypes`: The variables of client, edge and renderer keep their types, for every queue length, number of runs, frames and failures.
* `StreamAlwaysLive`: While serving the page does not raise, the viewer of a recording renderer is never one whose port another holds.
* `FramesAlwaysAccounted`: Every frame an edge with a downlink measured is counted once: a result sent, a result that could not be coded, or a frame not decoded.
* `NoGapMeansNoLoss`: With one client that joins no run it left, an edge without a gap has measured every capture between its first and its last, for any queue depth, losses, encode errors and restarts.
* `TopicsSeparateCodecs`: No subscribed node ever holds a frame of another codec than its run's, through every change of run at either end.
* `IdleAlwaysHoldsNothing`: While serving the page does not raise, a node without a run holds no timer, subscription, coder, sink or port, but for the coder of a start whose recorder did not open, wherever its starts raised.
* `PipelineImplementsFrameFlow`: Pipeline implements FrameFlow: in the logs of what was measured and of what was shown, a capture of a sensor appears at most once, in the order of capture, and is measured before it is shown.
* `DrawnWasMeasured`: Every capture in the log of what a renderer drew is in the log of what the edge measured, whatever is lost, restarted or stopped.

`PipeInv` adds to the types that every queued frame was captured (`Queued`), what
the parts of an idle node are (`PubNode`, `EdgeHeld`, `RenderHeld`), that the
stream is up exactly while a sink is (`StreamOfSink`) and the frame accounting.
The refinement needs an order: along screen, queue, log of the edge, queue and
sensor the captures of one sensor only grow (`FlowInv`).  So what the edge measures
next follows all it has logged, and what the renderer draws next follows all it has
drawn and is in the edge's log: each step is a `Measure`, a `Show` or a stutter that
logs nothing.  None of it needs `~Rejoins`: a client that counts its seq anew still
captures later.

`NoGapMeansNoLoss` needs two invariants more.  `AlignInv`: within a run the seq and
the capture of a sensor's frames differ by one number, because `publish_frame` moves
both or neither, frames it could not code included.  `GapInv`: as long as the edge
has counted no gap, what it measured of one sensor is an unbroken stretch that
ends in the frame of its `last`.  A node that joins a run it left counts its seq from
0 again, so `~Rejoins` is needed: two captures would share a seq.  `DrawnWasMeasured`
holds since a frame is logged before its result is sent, and
`TopicsSeparateCodecs` since a start empties the queue of the node that starts.

`WatchProofs` proves, from `WatchAssumption`:

* `WatchTypes`: Records and findings keep their types, for all nodes, zones, declared fleets and role overrides.
* `QuorumAlwaysAgrees`: The quorum of a running run and the findings about absent roles never disagree, for any role rules.
* `MismatchedRunsAreOver`: A node is only accused of holding another run when that run is over, for any number of zones and runs at once.
* `HealthyZonesAreQuiet`: No pass raises an error about a zone in which everything works, whatever the other zones do.
* `LinksAreJudged`: A pass names a link exactly where it has a fault, whichever runs are active: in particular every link whose client rises while its edge stands still (the safety half of SilenceIsReported).

`RunInv` says that no two active runs share a zone, that a record that is running
has a run, and that a record names a started run of its own zone.
`QuorumAgrees` needs the last: the quorum counts participants of the run, the
findings count nodes of the zone.
`HealthyZoneIsQuiet` goes through the findings one by one; the two whose
judgement is over a set of nodes (transport and codec) need that in a healthy
zone the majority is everybody.  `LinksAreJudged` is the converse for links, and the
safety half of `SilenceIsReported`: the pass that finds the client's count risen and
the edge's not does name the link.

`RecorderProofs` proves, from `RecorderAssumption`:

* `RecorderTypes`: No counter exceeds the samples produced, and ring and channel never overfill, for every capacity, channel and number of samples.
* `SamplesAlwaysConserved`: The report of a recorder counts every sample produced exactly once, and what it counts as written is on disk, for every interleaving of producer, writer and shutdown.
* `SnapshotsAlwaysTell`: The last snapshot knows of every row and every drop, and every snapshot built was posted, failed or is counted as dropped.
* `ShutdownIsBounded`: After the stop every step of writer, uploader or shutdown brings the end nearer by a measure bounded by ring and channel (the safety half of ShutdownEnds), for every capacity.

`RecInv` says where every sample and every snapshot is at each moment, that who
knows of the stop knows that nothing is produced any more, and that the
snapshot of a round that knew of it is up to date.

`ShutdownIsBounded` gives `ShutdownEnds` its measure.  `WriterWork` weighs what is
in the ring and how far the writer is from the judgement that lets it leave, three
for one, since one of its rounds may put one more snapshot into the channel, which
takes the uploader two steps; `UploadWork` and `JoinWork` weigh the rest.  After
the stop the sum is at most `3 * Capacity + 2 * Channel + 28` and every step takes
from it.  The module also proves of the guards that some part can always move
until shutdown is over (`ShutdownNeverStuck`); that it does is fairness.

`KpmFeedProofs` proves, from `FeedAssumption`, for any number of runs, drops,
refusals and requests given up:

* `FeedTypes`: The port keeps exactly the request of the subscription the monitor holds, and every id in use was given out, for every number of runs, drops, refusals and requests given up.
* `HeldIsAlwaysServed`: The subscription the monitor holds was granted, and on a link it is served, was refused anew on that link, or its request is on the way: with refusals of any request, crossed timeouts and readers of earlier links that lag.
* `ServedIsAlwaysOwned`: The far end serves only what is held, being asked for, just ended, or abandoned: granted after its request had timed out or had been failed by the reader of an earlier bridge.

`FeedInv` follows every message and every reader: ids under way were given out, no
end is under way for what is held or being asked for, an answer that says granted,
on the link, in what an old reader has left to do, or handed over, is of a
subscription that was granted, and a request on its way is owned, abandoned, or has
its end behind it in the queue.  A request sent again is of the subscription held.
Its parts are preserved step by step; the steps that send nothing share a lemma, and
so do those that do: a message goes behind what the link held, or on a new link
behind the one subscription sent again.

Every invariant that a passing run checks is a theorem, and every action property
and both refinements.  Out of the prover's reach, and checked by TLC only:

* liveness under fairness (`StoppingResolves`, `TimedStartResolves`,
  `EndedRunIsLeft`, `EndedRunIsTold`, `StaleIsReverted`, `LostAdminReverts`, `StopEnds`,
  `SilenceIsReported`, `FeedRecovers`, `ShutdownEnds`), which needs ENABLED; of
  four of them the safety half is proved, see `TimersRunOut`, `LinksAreJudged` and
  `ShutdownIsBounded`;
* that a property does not hold (the runs that expect a violation);
* what folds and recursive functions compute for every input, which needs
  induction over data.

## 5. Plan

1. (done) Run states, admin service, its disk and sockets; composition with the
   nodes; the abstract zone slots and the refinement; their proofs.
2. (done) `XappControl`: the xApp's policy, its marker file, boot and crash; proof
   that the policy in force is on disk and of the ways a cap can lose its owner.
3. (done) `Pipeline` and its abstract `FrameFlow`, with the refinement, the frame
   accounting and the resources of idle nodes as theorems.
4. (done) `Watch`: the diagnosis over the registry; proof that findings agree with
   the quorum, accuse nobody of another zone's run and leave a healthy zone quiet.
5. (done) `KpmFeed`: subscriptions over links that go, with late and refused
   answers; what is held is served and what is served is owned, as theorems.
6. (done) `Recorder`: ring, writer, snapshots, uploader, shutdown; the conservation
   law written + dropped = produced as a theorem.
   The steps of a shutdown are bounded, for every ring and channel.
7. (done) `ControlPlane` with goodbye and node processes that end and come back,
   and the proofs of `RecordsOwnZone`, `ReportsBelong` and that the composition is a
   behaviour of `Orchestrator`.  Left: `set_ran_policy`.
8. The collector's session, the media relay's sessions and records, the
   signaling rooms, the WebRTC client's lifecycle, the other admin clients.
9. Pure algorithms against reference definitions: `uuid7`, percentiles of
   `DelayStats`, policy validation.
10. Proofs left: the safety halves of `FeedRecovers` (a refused or late answer
    leaves a retry), of `LostAdminReverts` and of `EndedRunIsLeft` (a node in an
    ended run always has a stop or a welcome on its way).

Not planned: parsers and formatters (RAN normalisation, dataset files, the bytes
of G-PCC), geometry and drawing, foreign-function glue, the UE agent (it changes
a host's interface and takes no part in runs), the operator page's script, and
deployment scripts: no state whose order of change matters, or nothing but
input/output.

## 6. Running

    tlc -config OrchSlots.cfg MCOrchestrator
    tlc -config XappPolicy.cfg XappControl
    tlc -config PipeFlow.cfg MCPipeline
    tlc -config WatchFleet.cfg MCWatch
    tlc -config KpmFeed.cfg KpmFeed
    tlc -config RecFlow.cfg Recorder
    tlapm OrchestratorProofs.tla          (and the other *Proofs modules)

`PROJECT.json` maps every definition to the lines it translates.  `Mutant:`
definitions in the modules are plausible mistakes; substituted for the
definition after them, each makes the property it is paired with fail.
