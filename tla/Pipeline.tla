------------------------------ MODULE Pipeline ------------------------------
(***************************************************************************)
(* The point-cloud pipeline of a robotics run: lidar clients publish       *)
(* frames, the edge measures and processes them and sends the result back, *)
(* a renderer measures and draws it.                                       *)
(*                                                                         *)
(* A node runs one callback at a time (rclpy's single-threaded executor),  *)
(* so each handler is one action; the nodes interleave.  The admin is      *)
(* abstracted to the run it has active and to commands and welcomes that   *)
(* reach a node at any time or never (ControlPlane models them).           *)
(*                                                                         *)
(* A frame is abstracted to its envelope: sensor, trace (the run it was    *)
(* captured in), seq, and the capture stamp, a counter of the sensor's     *)
(* captures.  Points, centroids, voxels and bitstreams are left out; that  *)
(* they cannot be coded, decoded or drawn is a choice, and so is where a   *)
(* start raises: at its checks, a coder, the recorder, the sink or the QoS *)
(* of a topic.  A decoder that fails on a frame reopens.                   *)
(***************************************************************************)
EXTENDS Integers, Sequences

CONSTANTS
    Lidar,          \* the lidar clients of the zone
    MaxRun,         \* bound: runs of the zone, one after the other
    MaxCaptures,    \* bound: captures of each sensor
    EdgeDepth,      \* KEEP_LAST depth of the edge's subscription
    RenderDepth,    \* KEEP_LAST depth of the renderer's subscription
    Codec,          \* run -> "none" or "gpcc", the run's codec parameter
    ReplayLeft,     \* frames a non-looping replay has; 0: a pattern, no end
    PublishResult,  \* whether the edge sends the downlink
    Serve,          \* whether the renderer's sink is a served rerun viewer
    PageFails,      \* whether serving the viewer's page may raise
    Rejoins         \* whether a node may join a run it has left

Run == 1..MaxRun
NoRun == 0

ASSUME PipelineAssumption ==
    /\ MaxRun \in Nat /\ MaxCaptures \in Nat /\ ReplayLeft \in Nat
    /\ EdgeDepth \in Nat \ {0} /\ RenderDepth \in Nat \ {0}
    /\ Codec \in [Run -> {"none", "gpcc"}]
    /\ {PublishResult, Serve, PageFails, Rejoins} \subseteq BOOLEAN

VARIABLES
    active,     \* the run the admin tells nodes to join
    pub,        \* Lidar -> state of the publisher node
    clock,      \* Lidar -> captures so far, the capture stamp
    edge,       \* state of the edge node
    render,     \* state of the renderer node
    viewer,     \* rerun in the renderer's process: its ports
    up,         \* frames queued at the edge's subscription
    down,       \* frames queued at the renderer's subscription
    samples,    \* the edge's samples: the run recorded under, and the frame
    measured,   \* history: Lidar -> capture stamps the edge recorded, in order
    shown       \* history: Lidar -> capture stamps drawn, in order

logs == <<measured, shown>>
vars == <<active, pub, clock, edge, render, viewer, up, down, samples, logs>>

Frame == [lidar : Lidar, trace : Run, seq : Nat, capture : Nat]

(***************************************************************************)
(* A node has a recorder iff run is a run; `left` is the last run it left. *)
(* `unopened` is history: the recorder of its last start did not open.     *)
(***************************************************************************)
IdlePub == [run |-> NoRun, left |-> NoRun, timer |-> FALSE, due |-> FALSE,
            encoder |-> FALSE, seq |-> 0, published |-> 0, encodeErrors |-> 0,
            unopened |-> FALSE]

IdleEdge == [run |-> NoRun, left |-> NoRun, sub |-> FALSE, decoder |-> FALSE,
             encoder |-> FALSE, out |-> FALSE, last |-> -1, frames |-> 0,
             results |-> 0, resultErrors |-> 0, decodeErrors |-> 0, gaps |-> 0]

IdleRender == [run |-> NoRun, left |-> NoRun, sub |-> FALSE, decoder |-> FALSE,
               sink |-> FALSE, capped |-> FALSE, last |-> -1, frames |-> 0,
               drawn |-> 0, gaps |-> 0, unopened |-> FALSE]

NoViewer == [stream |-> "closed", page |-> FALSE]

Init ==
    /\ active = NoRun
    /\ pub = [l \in Lidar |-> IdlePub]
    /\ clock = [l \in Lidar |-> 0]
    /\ edge = IdleEdge
    /\ render = IdleRender
    /\ viewer = NoViewer
    /\ up = <<>> /\ down = <<>>
    /\ samples = {}
    /\ measured = [l \in Lidar |-> <<>>]
    /\ shown = measured

Coded(n) == n.run # NoRun /\ Codec[n.run] = "gpcc"

(* The encoder refuses an empty cloud or a point below its origin; the      *)
(* decoder refuses what is not one whole frame, and is opened afresh.       *)
MayNotEncode(n) == n.encoder
MayNotDecode(n) == Coded(n)

(* Mutant: a second start of the run being recorded is taken for a new one. *)
MayJoinAgain(n) == active # NoRun /\ (Rejoins \/ active # n.left)

(* The early return of start_run, and what the environment sends.           *)
MayJoin(n) ==
    /\ active \notin {NoRun, n.run}
    /\ Rejoins \/ active # n.left

Left(n) == IF n.run = NoRun THEN n.left ELSE n.run

NextRun ==
    /\ active < MaxRun
    /\ active' = active + 1
    /\ UNCHANGED <<pub, clock, edge, render, viewer, up, down, samples, logs>>

-----------------------------------------------------------------------------
(* The publisher.                                                           *)

PubStopped(n) == [n EXCEPT !.left = Left(n), !.run = NoRun,
                           !.timer = FALSE, !.encoder = FALSE]

PubStarted(n) == [PubStopped(n) EXCEPT
    !.run = active, !.timer = TRUE, !.encoder = Codec[active] = "gpcc",
    !.seq = 0, !.published = 0, !.encodeErrors = 0, !.unopened = FALSE]

(* Refused before anything is built.  stop_run returns early on a node      *)
(* without a recorder, whatever else it holds.                              *)
PubRefused(n) == IF n.run = NoRun THEN n ELSE PubStopped(n)

(* The recorder's constructor raises: the encoder is built already.         *)
PubUnopened(n) ==
    [PubStarted(n) EXCEPT !.run = NoRun, !.timer = FALSE, !.unopened = TRUE]

(* start_run refuses a pattern, dataset or codec, finds that the recorder   *)
(* does not open, or raises when the timer's period cannot be had (a rate   *)
(* of 0).  A raise kills a node whose start came with a welcome: it comes   *)
(* back idle.                                                               *)
PubStart(l) ==
    /\ MayJoin(pub[l])
    /\ \E n \in {PubStarted(pub[l]), PubRefused(pub[l]), PubUnopened(pub[l]),
                 [PubStarted(pub[l]) EXCEPT !.timer = FALSE],
                 [IdlePub EXCEPT !.left = active]} :
           pub' = [pub EXCEPT ![l] = n]
    /\ UNCHANGED <<active, clock, edge, render, viewer, up, down, samples, logs>>

PubStop(l) ==
    /\ pub[l].run # NoRun
    /\ pub' = [pub EXCEPT ![l] = PubStopped(@)]
    /\ UNCHANGED <<active, clock, edge, render, viewer, up, down, samples, logs>>

(* The process dies and is restarted by its container.                      *)
PubDies(l) ==
    /\ pub[l].run # NoRun
    /\ pub' = [pub EXCEPT ![l] = [IdlePub EXCEPT !.left = pub[l].run]]
    /\ UNCHANGED <<active, clock, edge, render, viewer, up, down, samples, logs>>

(* The timer's period is over; the executor calls publish_frame later.      *)
Tick(l) ==
    /\ pub[l].timer /\ ~pub[l].due
    /\ pub' = [pub EXCEPT ![l].due = TRUE]
    /\ UNCHANGED <<active, clock, edge, render, viewer, up, down, samples, logs>>

(* Mutants: a queue without a bound; a frame not coded that keeps its seq.  *)
KeepAll(q, f, depth) == Append(q, f)
NotSentKeepsSeq(n) == [n EXCEPT !.encodeErrors = @ + 1]

(* A reader keeps the last `depth` frames of its topic, the topic of its    *)
(* codec; the link may lose any frame.                                      *)
KeepLast(q, f, depth) == IF Len(q) < depth THEN Append(q, f) ELSE Append(Tail(q), f)

Delivered(q, f, reader, depth) ==
    {q} \cup (IF reader.sub /\ Codec[reader.run] = Codec[f.trace]
              THEN {KeepLast(q, f, depth)} ELSE {})

HasPoints(seq) == ReplayLeft = 0 \/ seq < ReplayLeft

NotSent(n) == [n EXCEPT !.seq = @ + 1, !.encodeErrors = @ + 1]
Sent(n) == [n EXCEPT !.seq = @ + 1, !.published = @ + 1]

CapturedFrame(l) == [lidar |-> l, trace |-> pub[l].run, seq |-> pub[l].seq,
                     capture |-> clock[l] + 1]

publish_frame(l) ==
    LET n == [pub[l] EXCEPT !.due = FALSE] IN
    /\ pub[l].due
    /\ \/ /\ n.run = NoRun \/ ~HasPoints(n.seq)
          /\ pub' = [pub EXCEPT ![l] = n]
          /\ UNCHANGED <<clock, up>>
       \/ /\ n.run # NoRun /\ HasPoints(n.seq) /\ clock[l] < MaxCaptures
          /\ clock' = [clock EXCEPT ![l] = @ + 1]
          /\ \/ /\ MayNotEncode(n)
                /\ pub' = [pub EXCEPT ![l] = NotSent(n)]
                /\ UNCHANGED up
             \/ /\ pub' = [pub EXCEPT ![l] = Sent(n)]
                /\ up' \in Delivered(up, CapturedFrame(l), edge, EdgeDepth)
    /\ UNCHANGED <<active, edge, render, viewer, down, samples, logs>>

-----------------------------------------------------------------------------
(* The edge.                                                                *)

(* Mutants: a stop that forgets the decoder; a start that keeps a counter.  *)
EdgeStoppedDecoding(n) == [n EXCEPT !.left = Left(n), !.run = NoRun,
                                    !.sub = FALSE, !.out = FALSE, !.encoder = FALSE]
EdgeStartedCounting == [IdleEdge EXCEPT
    !.run = active, !.left = Left(edge), !.sub = TRUE, !.out = PublishResult,
    !.decoder = Codec[active] = "gpcc", !.resultErrors = edge.resultErrors,
    !.encoder = PublishResult /\ Codec[active] = "gpcc"]

EdgeStopped(n) == [n EXCEPT !.left = Left(n), !.run = NoRun, !.sub = FALSE,
                            !.out = FALSE, !.encoder = FALSE, !.decoder = FALSE]

EdgeStarted == [IdleEdge EXCEPT
    !.run = active, !.left = Left(edge), !.sub = TRUE, !.out = PublishResult,
    !.decoder = Codec[active] = "gpcc",
    !.encoder = PublishResult /\ Codec[active] = "gpcc"]

(* After its checks start_run resets its counters and opens the recorder,   *)
(* then the decoder of a coded run, the subscription, the result's encoder  *)
(* and its publisher.  Where one of these cannot be made it raises there:   *)
(* idle without a recorder, half started with one.                          *)
EdgeUnopened == [IdleEdge EXCEPT !.left = Left(edge)]

EdgeRefused == IF edge.run = NoRun THEN edge ELSE EdgeStopped(edge)

NotSubscribed == [EdgeStarted EXCEPT !.sub = FALSE, !.encoder = FALSE, !.out = FALSE]
NotPublishing == [EdgeStarted EXCEPT !.out = FALSE]

EdgeHalfStarted ==
    {NotSubscribed, NotPublishing}
      \cup IF Codec[active] # "gpcc" THEN {}
           ELSE {[NotSubscribed EXCEPT !.decoder = FALSE],
                 [NotPublishing EXCEPT !.encoder = FALSE]}

EdgeStart ==
    /\ MayJoin(edge)
    /\ edge' \in {EdgeStarted, EdgeRefused, EdgeUnopened, [IdleEdge EXCEPT !.left = active]}
                   \cup EdgeHalfStarted
    /\ up' = <<>>
    /\ UNCHANGED <<active, pub, clock, render, viewer, down, samples, logs>>

EdgeStop ==
    /\ edge.run # NoRun
    /\ edge' = EdgeStopped(edge)
    /\ up' = <<>>
    /\ UNCHANGED <<active, pub, clock, render, viewer, down, samples, logs>>

Gaps(n, f) == IF n.last # -1 /\ f.seq # n.last + 1 THEN n.gaps + 1 ELSE n.gaps

(* on_cloud, on_cloud_gpcc: record the frame, then send its result if it    *)
(* could be decoded, there is a downlink and the result could be coded.     *)
Recorded(f) == [edge EXCEPT !.last = f.seq, !.gaps = Gaps(edge, f), !.frames = @ + 1]

(* Mutant: the path that publishes a result returns before the record.      *)
processPublishesFirst(f) ==
    \/ /\ samples' = samples \cup {[run |-> edge.run, frame |-> f]}
       /\ measured' = [measured EXCEPT ![f.lidar] = Append(@, f.capture)]
       /\ MayNotDecode(edge)
       /\ edge' = [Recorded(f) EXCEPT !.decodeErrors = @ + 1]
       /\ UNCHANGED down
    \/ /\ edge.out
       /\ edge' = [Recorded(f) EXCEPT !.results = @ + 1]
       /\ down' \in Delivered(down, f, render, RenderDepth)
       /\ UNCHANGED <<samples, measured>>

process(f) ==
    /\ samples' = samples \cup {[run |-> edge.run, frame |-> f]}
    /\ measured' = [measured EXCEPT ![f.lidar] = Append(@, f.capture)]
    /\ \/ /\ MayNotDecode(edge)
          /\ edge' = [Recorded(f) EXCEPT !.decodeErrors = @ + 1]
          /\ UNCHANGED down
       \/ /\ ~edge.out
          /\ edge' = Recorded(f)
          /\ UNCHANGED down
       \/ /\ edge.out /\ MayNotEncode(edge)
          /\ edge' = [Recorded(f) EXCEPT !.resultErrors = @ + 1]
          /\ UNCHANGED down
       \/ /\ edge.out
          /\ edge' = [Recorded(f) EXCEPT !.results = @ + 1]
          /\ down' \in Delivered(down, f, render, RenderDepth)

on_cloud ==
    /\ edge.sub /\ up # <<>>
    /\ process(Head(up))
    /\ up' = Tail(up)
    /\ UNCHANGED <<active, pub, clock, render, viewer, shown>>

-----------------------------------------------------------------------------
(* The renderer.                                                            *)

(* A server on a port the process still holds comes up dead, and rerun      *)
(* raises nothing.  The page is served once per process, and a sink that    *)
(* cannot serve it raises with its stream already up.                       *)
ServeStream(v) == IF v.stream = "closed" THEN "live" ELSE "dead"
install_sinks(v) == IF Serve THEN [stream |-> ServeStream(v), page |-> TRUE] ELSE v
PageRaises(v) == [stream |-> ServeStream(v), page |-> FALSE]

(* Mutant: close as the no-op it once was.                                  *)
closeNothing(v) == v
close(v) == IF Serve THEN [v EXCEPT !.stream = "closed"] ELSE v

(* The cap on the recording drops the whole set of sinks, but never while   *)
(* one of them is being served.                                             *)
cap(v) == IF Serve THEN v ELSE [v EXCEPT !.stream = "closed"]

RenderStopped(n) == [n EXCEPT !.left = Left(n), !.run = NoRun, !.sub = FALSE,
                              !.sink = FALSE, !.decoder = FALSE]
ViewerStopped == IF render.sink THEN close(viewer) ELSE viewer

RenderStarted == [IdleRender EXCEPT
    !.run = active, !.left = Left(render), !.sub = TRUE, !.sink = TRUE,
    !.decoder = Codec[active] = "gpcc"]

RenderRefused == IF render.run = NoRun THEN render ELSE RenderStopped(render)

(* The recorder's constructor raises: the decoder is made already.          *)
RenderUnopened ==
    [RenderStarted EXCEPT !.run = NoRun, !.sub = FALSE, !.sink = FALSE, !.unopened = TRUE]

(* After the recorder: no sink of that kind, a viewer without its page, no  *)
(* such QoS for the subscription.                                           *)
RenderHalfStarted(sink) == [RenderStarted EXCEPT !.sub = FALSE, !.sink = sink]

(* The decoder is made before the recorder, then the sink, and the          *)
(* subscription last.                                                       *)
RenderStart ==
    /\ MayJoin(render)
    /\ \/ /\ render' \in {RenderStarted, RenderHalfStarted(TRUE)}
          /\ viewer' = install_sinks(ViewerStopped)
       \/ /\ PageFails /\ Serve /\ ~viewer.page
          /\ render' = RenderHalfStarted(FALSE)
          /\ viewer' = PageRaises(ViewerStopped)
       \/ /\ render' \in {RenderHalfStarted(FALSE), RenderRefused, RenderUnopened}
          /\ viewer' = ViewerStopped
       \/ /\ render' = [IdleRender EXCEPT !.left = active]
          /\ viewer' = NoViewer
    /\ down' = <<>>
    /\ UNCHANGED <<active, pub, clock, edge, up, samples, logs>>

RenderStop ==
    /\ render.run # NoRun
    /\ render' = RenderStopped(render)
    /\ viewer' = ViewerStopped
    /\ down' = <<>>
    /\ UNCHANGED <<active, pub, clock, edge, up, samples, logs>>

(* on_result, on_result_gpcc: a frame that cannot be decoded or drawn is    *)
(* recorded all the same.                                                   *)
draw_and_record(f) ==
    LET n == [render EXCEPT !.last = f.seq, !.gaps = Gaps(render, f), !.frames = @ + 1]
    IN  \/ /\ render' = n
           /\ UNCHANGED <<viewer, shown>>
        \/ /\ \E over \in {FALSE, ~render.capped} :
                  /\ render' = [n EXCEPT !.drawn = @ + 1, !.capped = @ \/ over]
                  /\ viewer' = IF over THEN cap(viewer) ELSE viewer
           /\ shown' = [shown EXCEPT ![f.lidar] = Append(@, f.capture)]

on_result ==
    /\ render.sub /\ down # <<>>
    /\ draw_and_record(Head(down))
    /\ down' = Tail(down)
    /\ UNCHANGED <<active, pub, clock, edge, up, samples, measured>>

-----------------------------------------------------------------------------
PubNext(l) == PubStart(l) \/ PubStop(l) \/ PubDies(l) \/ Tick(l) \/ publish_frame(l)
EdgeNext == EdgeStart \/ EdgeStop \/ on_cloud
RenderNext == RenderStart \/ RenderStop \/ on_result

Next ==
    \/ NextRun
    \/ \E l \in Lidar : PubNext(l)
    \/ EdgeNext
    \/ RenderNext

Spec == Init /\ [][Next]_vars

-----------------------------------------------------------------------------
(* Properties.                                                              *)

(* Every variable has the shape the nodes give it; the queues are as deep   *)
(* as cloud_qos makes them and hold frames of an active or older run.       *)
PipeTypeOK ==
    /\ active \in 0..MaxRun
    /\ pub \in [Lidar -> [run : 0..active, left : 0..active, timer : BOOLEAN,
                         due : BOOLEAN, encoder : BOOLEAN, seq : Nat,
                         published : Nat, encodeErrors : Nat,
                         unopened : BOOLEAN]]
    /\ clock \in [Lidar -> 0..MaxCaptures]
    /\ edge \in [run : 0..active, left : 0..active, sub : BOOLEAN,
                 decoder : BOOLEAN, encoder : BOOLEAN, out : BOOLEAN,
                 last : Int, frames : Nat, results : Nat,
                 resultErrors : Nat, decodeErrors : Nat, gaps : Nat]
    /\ render \in [run : 0..active, left : 0..active, sub : BOOLEAN,
                   decoder : BOOLEAN, sink : BOOLEAN, capped : BOOLEAN,
                   last : Int, frames : Nat, drawn : Nat, gaps : Nat,
                   unopened : BOOLEAN]
    /\ viewer \in [stream : {"closed", "live", "dead"}, page : BOOLEAN]
    /\ up \in Seq(Frame) /\ Len(up) <= EdgeDepth
    /\ down \in Seq(Frame) /\ Len(down) <= RenderDepth
    /\ samples \subseteq [run : 1..active, frame : Frame]
    /\ measured \in [Lidar -> Seq(1..MaxCaptures)]
    /\ shown \in [Lidar -> Seq(1..MaxCaptures)]

(* While a renderer draws into a served sink, its stream is up: closing the *)
(* sink of the last run freed the port, and reaching the recording's cap    *)
(* did not restart the server (sinks.py, close and draw).                   *)
StreamLive == render.sink /\ Serve => viewer.stream = "live"

(* A node without a run holds no timer, subscription, codec, sink or port,  *)
(* however its last start or stop went, but for a coder built before the    *)
(* recorder of a start that did not open (start_run and stop_run of the     *)
(* three nodes).                                                            *)
IdleHoldsNothing ==
    /\ \A l \in Lidar : pub[l].run = NoRun =>
           ~pub[l].timer /\ (pub[l].encoder => pub[l].unopened)
    /\ edge.run = NoRun =>
           ~(edge.sub \/ edge.decoder \/ edge.encoder \/ edge.out)
    /\ render.run = NoRun =>
           /\ ~(render.sub \/ render.sink)
           /\ render.decoder => render.unopened
           /\ viewer.stream = "closed"

(* With one client, an edge that counts no gap has lost no frame between    *)
(* the first and the last it measured, whether the link dropped it, the     *)
(* queue overflowed or the publisher could not code it (edge_node.py,       *)
(* _process: "exact in the 1-client case").                                 *)
Measured == {s.frame : s \in {t \in samples : t.run = edge.run}}

NoGapNoLoss ==
    /\ edge.run # NoRun /\ edge.gaps = 0
    /\ \A f, g \in Measured : f.lidar = g.lidar /\ f.trace = g.trace
    => \A f, g \in Measured : \A k \in f.capture..g.capture :
           \E h \in Measured : h.capture = k

(* Every frame the edge measured while it had a downlink is accounted for:  *)
(* a result sent, one that could not be coded, or a frame not decoded.      *)
FramesAccounted ==
    edge.out => edge.frames = edge.results + edge.resultErrors + edge.decodeErrors

(* The pipeline implements FrameFlow: each capture is measured before it is *)
(* shown, and at each stage once at most and never after a later one.       *)
Flow == INSTANCE FrameFlow WITH Source <- Lidar, captured <- clock

ImplementsFrameFlow == Flow!Spec
=============================================================================
