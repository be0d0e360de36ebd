--------------------------- MODULE PipelineProofs ---------------------------
(***************************************************************************)
(* Theorems about the point-cloud pipeline, for any number of clients,     *)
(* runs, captures and queue depths.                                        *)
(***************************************************************************)
EXTENDS Pipeline, SequenceTheorems, TLAPS

-----------------------------------------------------------------------------
(* Types, one variable at a time.                                           *)

PubType == [run : 0..active, left : 0..active, timer : BOOLEAN,
            due : BOOLEAN, encoder : BOOLEAN, seq : Nat,
            published : Nat, encodeErrors : Nat, unopened : BOOLEAN]
EdgeType == [run : 0..active, left : 0..active, sub : BOOLEAN,
             decoder : BOOLEAN, encoder : BOOLEAN, out : BOOLEAN,
             last : Int, frames : Nat, results : Nat,
             resultErrors : Nat, decodeErrors : Nat, gaps : Nat]
RenderType == [run : 0..active, left : 0..active, sub : BOOLEAN,
               decoder : BOOLEAN, sink : BOOLEAN, capped : BOOLEAN,
               last : Int, frames : Nat, drawn : Nat, gaps : Nat,
               unopened : BOOLEAN]
LogType == [Lidar -> Seq(1..MaxCaptures)]
ViewerType == [stream : {"closed", "live", "dead"}, page : BOOLEAN]

(* The queue of a topic stays within its depth and holds frames.            *)
LEMMA KeepLastType ==
    ASSUME NEW S, NEW q \in Seq(S), NEW f \in S, NEW depth \in Nat \ {0},
           Len(q) <= depth
    PROVE  KeepLast(q, f, depth) \in Seq(S) /\ Len(KeepLast(q, f, depth)) <= depth
  <1>1. CASE Len(q) < depth
    BY <1>1 DEF KeepLast
  <1>2. CASE ~(Len(q) < depth)
    <2>1. q # <<>>
      BY <1>2
    <2>2. Tail(q) \in Seq(S) /\ Len(Tail(q)) = Len(q) - 1
      BY <2>1, HeadTailProperties
    <2> QED BY <1>2, <2>2 DEF KeepLast
  <1> QED BY <1>1, <1>2

LEMMA DeliveredType ==
    ASSUME NEW S, NEW q \in Seq(S), NEW f \in S, NEW reader,
           NEW depth \in Nat \ {0}, Len(q) <= depth,
           NEW r \in Delivered(q, f, reader, depth)
    PROVE  r \in Seq(S) /\ Len(r) <= depth
  BY KeepLastType DEF Delivered

LEMMA QueueHead ==
    ASSUME NEW S, NEW q \in Seq(S), NEW depth \in Nat, Len(q) <= depth, q # <<>>
    PROVE  Head(q) \in S /\ Tail(q) \in Seq(S) /\ Len(Tail(q)) <= depth
  BY HeadTailProperties

LEMMA TypeInit == Init => PipeTypeOK
  <1>1. <<>> \in Seq(1..MaxCaptures)
    OBVIOUS
  <1> QED
   BY <1>1, PipelineAssumption DEF Init, PipeTypeOK, IdlePub, IdleEdge, IdleRender,
     NoViewer, NoRun, Run

LEMMA NextRunType == PipeTypeOK /\ NextRun => PipeTypeOK'
  <1> SUFFICES ASSUME PipeTypeOK, NextRun PROVE PipeTypeOK'
    OBVIOUS
  <1>0. /\ active < MaxRun /\ active' = active + 1
        /\ UNCHANGED <<pub, clock, edge, render, viewer, up, down, samples, logs>>
    BY Zenon DEF NextRun
  <1>a. active \in 0..MaxRun /\ MaxRun \in Nat
    BY PipelineAssumption, Zenon DEF PipeTypeOK
  <1>1. /\ active \in Nat /\ active' = active + 1 /\ active' \in 0..MaxRun
        /\ UNCHANGED <<pub, clock, edge, render, viewer, up, down, samples, logs>>
    BY <1>0, <1>a
  <1>2. 0..active \subseteq 0..active' /\ 1..active \subseteq 1..active'
    BY <1>1
  <1>3. pub' \in [Lidar -> PubType']
    BY <1>1, <1>2 DEF PipeTypeOK, PubType
  <1>4. edge' \in EdgeType'
    BY <1>1, <1>2 DEF PipeTypeOK, EdgeType
  <1>5. render' \in RenderType'
    BY <1>1, <1>2 DEF PipeTypeOK, RenderType
  <1>6. samples' \subseteq [run : 1..active', frame : Frame]
    BY <1>1, <1>2 DEF PipeTypeOK
  <1> QED
    BY <1>1, <1>3, <1>4, <1>5, <1>6 DEF PipeTypeOK, PubType, EdgeType, RenderType, logs

(* A node with one field replaced is a node.                                *)
LEMMA PubUpdate ==
    ASSUME NEW n \in PubType
    PROVE  /\ \A v \in 0..active : [n EXCEPT !.run = v] \in PubType
           /\ \A v \in 0..active : [n EXCEPT !.left = v] \in PubType
           /\ \A v \in BOOLEAN : [n EXCEPT !.timer = v] \in PubType
           /\ \A v \in BOOLEAN : [n EXCEPT !.due = v] \in PubType
           /\ \A v \in BOOLEAN : [n EXCEPT !.encoder = v] \in PubType
           /\ \A v \in Nat : [n EXCEPT !.seq = v] \in PubType
           /\ \A v \in Nat : [n EXCEPT !.published = v] \in PubType
           /\ \A v \in Nat : [n EXCEPT !.encodeErrors = v] \in PubType
           /\ \A v \in BOOLEAN : [n EXCEPT !.unopened = v] \in PubType
  <1>1. \A v \in 0..active : [n EXCEPT !.run = v] \in PubType
    BY DEF PubType
  <1>2. \A v \in 0..active : [n EXCEPT !.left = v] \in PubType
    BY DEF PubType
  <1>3. \A v \in BOOLEAN : [n EXCEPT !.timer = v] \in PubType
    BY DEF PubType
  <1>4. \A v \in BOOLEAN : [n EXCEPT !.due = v] \in PubType
    BY DEF PubType
  <1>5. \A v \in BOOLEAN : [n EXCEPT !.encoder = v] \in PubType
    BY DEF PubType
  <1>6. \A v \in Nat : [n EXCEPT !.seq = v] \in PubType
    BY DEF PubType
  <1>7. \A v \in Nat : [n EXCEPT !.published = v] \in PubType
    BY DEF PubType
  <1>8. \A v \in Nat : [n EXCEPT !.encodeErrors = v] \in PubType
    BY DEF PubType
  <1>9. \A v \in BOOLEAN : [n EXCEPT !.unopened = v] \in PubType
    BY DEF PubType
  <1> QED BY <1>1, <1>2, <1>3, <1>4, <1>5, <1>6, <1>7, <1>8, <1>9

LEMMA PubFields ==
    ASSUME NEW n \in PubType
    PROVE  /\ n.run \in 0..active /\ n.left \in 0..active
           /\ n.timer \in BOOLEAN /\ n.due \in BOOLEAN /\ n.encoder \in BOOLEAN
           /\ n.seq \in Nat /\ n.seq + 1 \in Nat
           /\ n.published + 1 \in Nat /\ n.encodeErrors + 1 \in Nat
  BY DEF PubType

(* What a start or a stop makes of a node is a node.                        *)
LEMMA PubTypes ==
    ASSUME active \in Nat, NEW n \in PubType
    PROVE  /\ PubStopped(n) \in PubType
           /\ PubStarted(n) \in PubType
           /\ PubRefused(n) \in PubType /\ PubUnopened(n) \in PubType
           /\ NotSent(n) \in PubType /\ Sent(n) \in PubType
           /\ \A v \in 0..active : [IdlePub EXCEPT !.left = v] \in PubType
  <1>1. 0 \in 0..active /\ active \in 0..active /\ 0 \in Nat
    OBVIOUS
  <1>2. Left(n) \in 0..active
    BY PubFields DEF Left
  <1>3. PubStopped(n) \in PubType
    BY <1>1, <1>2, PubUpdate DEF PubStopped, NoRun
  <1>4. (Codec[active] = "gpcc") \in BOOLEAN
    OBVIOUS
  <1>5. PubStarted(n) \in PubType
    BY <1>1, <1>3, <1>4, PubUpdate DEF PubStarted
  <1>6. NotSent(n) \in PubType
    BY PubFields, PubUpdate DEF NotSent
  <1>7. Sent(n) \in PubType
    BY PubFields, PubUpdate DEF Sent
  <1>8. IdlePub \in PubType
    BY <1>1 DEF IdlePub, PubType, NoRun
  <1>9. \A v \in 0..active : [IdlePub EXCEPT !.left = v] \in PubType
    BY <1>8, PubUpdate
  <1>10. PubRefused(n) \in PubType
    BY <1>3 DEF PubRefused
  <1>11. PubUnopened(n) \in PubType
    BY <1>1, <1>5, PubUpdate DEF PubUnopened, NoRun
  <1> QED BY <1>3, <1>5, <1>6, <1>7, <1>9, <1>10, <1>11

LEMMA EdgeUpdate ==
    ASSUME NEW n \in EdgeType
    PROVE  /\ \A v \in 0..active : [n EXCEPT !.run = v] \in EdgeType
           /\ \A v \in 0..active : [n EXCEPT !.left = v] \in EdgeType
           /\ \A v \in BOOLEAN : [n EXCEPT !.sub = v] \in EdgeType
           /\ \A v \in BOOLEAN : [n EXCEPT !.decoder = v] \in EdgeType
           /\ \A v \in BOOLEAN : [n EXCEPT !.encoder = v] \in EdgeType
           /\ \A v \in BOOLEAN : [n EXCEPT !.out = v] \in EdgeType
           /\ \A v \in Int : [n EXCEPT !.last = v] \in EdgeType
           /\ \A v \in Nat : [n EXCEPT !.frames = v] \in EdgeType
           /\ \A v \in Nat : [n EXCEPT !.results = v] \in EdgeType
           /\ \A v \in Nat : [n EXCEPT !.resultErrors = v] \in EdgeType
           /\ \A v \in Nat : [n EXCEPT !.decodeErrors = v] \in EdgeType
           /\ \A v \in Nat : [n EXCEPT !.gaps = v] \in EdgeType
  <1>1. \A v \in 0..active : [n EXCEPT !.run = v] \in EdgeType
    BY DEF EdgeType
  <1>2. \A v \in 0..active : [n EXCEPT !.left = v] \in EdgeType
    BY DEF EdgeType
  <1>3. \A v \in BOOLEAN : [n EXCEPT !.sub = v] \in EdgeType
    BY DEF EdgeType
  <1>4. \A v \in BOOLEAN : [n EXCEPT !.decoder = v] \in EdgeType
    BY DEF EdgeType
  <1>5. \A v \in BOOLEAN : [n EXCEPT !.encoder = v] \in EdgeType
    BY DEF EdgeType
  <1>6. \A v \in BOOLEAN : [n EXCEPT !.out = v] \in EdgeType
    BY DEF EdgeType
  <1>7. \A v \in Int : [n EXCEPT !.last = v] \in EdgeType
    BY DEF EdgeType
  <1>8. \A v \in Nat : [n EXCEPT !.frames = v] \in EdgeType
    BY DEF EdgeType
  <1>9. \A v \in Nat : [n EXCEPT !.results = v] \in EdgeType
    BY DEF EdgeType
  <1>10. \A v \in Nat : [n EXCEPT !.resultErrors = v] \in EdgeType
    BY DEF EdgeType
  <1>11. \A v \in Nat : [n EXCEPT !.decodeErrors = v] \in EdgeType
    BY DEF EdgeType
  <1>12. \A v \in Nat : [n EXCEPT !.gaps = v] \in EdgeType
    BY DEF EdgeType
  <1> QED BY <1>1, <1>2, <1>3, <1>4, <1>5, <1>6, <1>7, <1>8, <1>9, <1>10,
             <1>11, <1>12

LEMMA EdgeFields ==
    ASSUME NEW n \in EdgeType
    PROVE  /\ n.run \in 0..active /\ n.left \in 0..active
           /\ n.frames \in Nat /\ n.frames + 1 \in Nat
           /\ n.results \in Nat /\ n.results + 1 \in Nat
           /\ n.resultErrors \in Nat /\ n.resultErrors + 1 \in Nat
           /\ n.decodeErrors \in Nat /\ n.decodeErrors + 1 \in Nat
           /\ n.gaps \in Nat /\ n.gaps + 1 \in Nat /\ n.last \in Int
  BY DEF EdgeType

LEMMA EdgeTypes ==
    ASSUME active \in Nat, edge \in EdgeType
    PROVE  /\ EdgeStopped(edge) \in EdgeType
           /\ EdgeStarted \in EdgeType
           /\ EdgeRefused \in EdgeType /\ EdgeUnopened \in EdgeType
           /\ EdgeHalfStarted \subseteq EdgeType
           /\ \A v \in 0..active : [IdleEdge EXCEPT !.left = v] \in EdgeType
           /\ \A f \in Frame : /\ Recorded(f) \in EdgeType
                                /\ [Recorded(f) EXCEPT !.decodeErrors = @ + 1] \in EdgeType
                                /\ [Recorded(f) EXCEPT !.resultErrors = @ + 1] \in EdgeType
                                /\ [Recorded(f) EXCEPT !.results = @ + 1] \in EdgeType
  <1>1. 0 \in 0..active /\ active \in 0..active
    OBVIOUS
  <1>2. Left(edge) \in 0..active
    BY EdgeFields DEF Left
  <1>3. EdgeStopped(edge) \in EdgeType
    BY <1>1, <1>2, EdgeUpdate DEF EdgeStopped, NoRun
  <1>4. IdleEdge \in EdgeType
    BY <1>1 DEF IdleEdge, EdgeType, NoRun
  <1>5. /\ PublishResult \in BOOLEAN /\ (Codec[active] = "gpcc") \in BOOLEAN
        /\ (PublishResult /\ Codec[active] = "gpcc") \in BOOLEAN
    BY PipelineAssumption
  <1>6. EdgeStarted \in EdgeType
    BY <1>1, <1>2, <1>4, <1>5, EdgeUpdate DEF EdgeStarted
  <1>7. EdgeHalfStarted \subseteq EdgeType
    <2>1. NotPublishing \in EdgeType
      BY <1>6, EdgeUpdate DEF NotPublishing
    <2>2. NotSubscribed \in EdgeType
      BY <1>6, EdgeUpdate DEF NotSubscribed
    <2> QED BY <2>1, <2>2, EdgeUpdate DEF EdgeHalfStarted
  <1>10. EdgeRefused \in EdgeType
    BY <1>3 DEF EdgeRefused
  <1>11. EdgeUnopened \in EdgeType
    BY <1>2, <1>4, EdgeUpdate DEF EdgeUnopened
  <1>8. \A v \in 0..active : [IdleEdge EXCEPT !.left = v] \in EdgeType
    BY <1>4, EdgeUpdate
  <1>9. ASSUME NEW f \in Frame
        PROVE  /\ Recorded(f) \in EdgeType
               /\ [Recorded(f) EXCEPT !.decodeErrors = @ + 1] \in EdgeType
               /\ [Recorded(f) EXCEPT !.resultErrors = @ + 1] \in EdgeType
               /\ [Recorded(f) EXCEPT !.results = @ + 1] \in EdgeType
    <2>1. f.seq \in Int
      BY DEF Frame
    <2>2. Gaps(edge, f) \in Nat
      BY EdgeFields DEF Gaps
    <2>3. Recorded(f) \in EdgeType
      BY <2>1, <2>2, EdgeFields, EdgeUpdate DEF Recorded
    <2> QED BY <2>3, EdgeFields, EdgeUpdate
  <1> QED BY <1>3, <1>6, <1>7, <1>8, <1>9, <1>10, <1>11

LEMMA RenderUpdate ==
    ASSUME NEW n \in RenderType
    PROVE  /\ \A v \in 0..active : [n EXCEPT !.run = v] \in RenderType
           /\ \A v \in 0..active : [n EXCEPT !.left = v] \in RenderType
           /\ \A v \in BOOLEAN : [n EXCEPT !.sub = v] \in RenderType
           /\ \A v \in BOOLEAN : [n EXCEPT !.decoder = v] \in RenderType
           /\ \A v \in BOOLEAN : [n EXCEPT !.sink = v] \in RenderType
           /\ \A v \in BOOLEAN : [n EXCEPT !.capped = v] \in RenderType
           /\ \A v \in Int : [n EXCEPT !.last = v] \in RenderType
           /\ \A v \in Nat : [n EXCEPT !.frames = v] \in RenderType
           /\ \A v \in Nat : [n EXCEPT !.drawn = v] \in RenderType
           /\ \A v \in Nat : [n EXCEPT !.gaps = v] \in RenderType
           /\ \A v \in BOOLEAN : [n EXCEPT !.unopened = v] \in RenderType
  <1>1. \A v \in 0..active : [n EXCEPT !.run = v] \in RenderType
    BY DEF RenderType
  <1>2. \A v \in 0..active : [n EXCEPT !.left = v] \in RenderType
    BY DEF RenderType
  <1>3. \A v \in BOOLEAN : [n EXCEPT !.sub = v] \in RenderType
    BY DEF RenderType
  <1>4. \A v \in BOOLEAN : [n EXCEPT !.decoder = v] \in RenderType
    BY DEF RenderType
  <1>5. \A v \in BOOLEAN : [n EXCEPT !.sink = v] \in RenderType
    BY DEF RenderType
  <1>6. \A v \in BOOLEAN : [n EXCEPT !.capped = v] \in RenderType
    BY DEF RenderType
  <1>7. \A v \in Int : [n EXCEPT !.last = v] \in RenderType
    BY DEF RenderType
  <1>8. \A v \in Nat : [n EXCEPT !.frames = v] \in RenderType
    BY DEF RenderType
  <1>9. \A v \in Nat : [n EXCEPT !.drawn = v] \in RenderType
    BY DEF RenderType
  <1>10. \A v \in Nat : [n EXCEPT !.gaps = v] \in RenderType
    BY DEF RenderType
  <1>11. \A v \in BOOLEAN : [n EXCEPT !.unopened = v] \in RenderType
    BY DEF RenderType
  <1> QED BY <1>1, <1>2, <1>3, <1>4, <1>5, <1>6, <1>7, <1>8, <1>9, <1>10, <1>11

LEMMA RenderFields ==
    ASSUME NEW n \in RenderType
    PROVE  /\ n.run \in 0..active /\ n.left \in 0..active /\ n.capped \in BOOLEAN
           /\ n.frames + 1 \in Nat /\ n.drawn + 1 \in Nat
           /\ n.gaps \in Nat /\ n.gaps + 1 \in Nat
  BY DEF RenderType

LEMMA RenderTypes ==
    ASSUME active \in Nat, render \in RenderType
    PROVE  /\ RenderStopped(render) \in RenderType
           /\ RenderStarted \in RenderType
           /\ \A b \in BOOLEAN : RenderHalfStarted(b) \in RenderType
           /\ RenderRefused \in RenderType /\ RenderUnopened \in RenderType
           /\ [IdleRender EXCEPT !.left = active] \in RenderType
  <1>1. 0 \in 0..active /\ active \in 0..active
    OBVIOUS
  <1>2. Left(render) \in 0..active
    BY RenderFields DEF Left
  <1>3. RenderStopped(render) \in RenderType
    BY <1>1, <1>2, RenderUpdate DEF RenderStopped, NoRun
  <1>4. IdleRender \in RenderType
    BY <1>1 DEF IdleRender, RenderType, NoRun
  <1>5. (Codec[active] = "gpcc") \in BOOLEAN
    OBVIOUS
  <1>6. RenderStarted \in RenderType
    BY <1>1, <1>2, <1>4, <1>5, RenderUpdate DEF RenderStarted
  <1>7. \A b \in BOOLEAN : RenderHalfStarted(b) \in RenderType
    BY <1>6, RenderUpdate DEF RenderHalfStarted
  <1>8. [IdleRender EXCEPT !.left = active] \in RenderType
    BY <1>1, <1>4, RenderUpdate
  <1>9. RenderRefused \in RenderType
    BY <1>3 DEF RenderRefused
  <1>10. RenderUnopened \in RenderType
    BY <1>1, <1>6, RenderUpdate DEF RenderUnopened, NoRun
  <1> QED BY <1>3, <1>6, <1>7, <1>8, <1>9, <1>10

LEMMA ViewerTypes ==
    ASSUME viewer \in ViewerType
    PROVE  /\ ViewerStopped \in ViewerType /\ NoViewer \in ViewerType
           /\ \A v \in ViewerType :
                 /\ install_sinks(v) \in ViewerType /\ PageRaises(v) \in ViewerType
                 /\ cap(v) \in ViewerType
  <1>1. \A v \in ViewerType : [v EXCEPT !.stream = "closed"] \in ViewerType
    BY DEF ViewerType
  <1>2. ViewerStopped \in ViewerType
    BY <1>1 DEF ViewerStopped, close
  <1>3. NoViewer \in ViewerType
    BY DEF NoViewer, ViewerType
  <1>4. ASSUME NEW v \in ViewerType PROVE install_sinks(v) \in ViewerType
    BY DEF install_sinks, ServeStream, ViewerType
  <1>5. ASSUME NEW v \in ViewerType PROVE PageRaises(v) \in ViewerType
    BY DEF PageRaises, ServeStream, ViewerType
  <1>6. ASSUME NEW v \in ViewerType PROVE cap(v) \in ViewerType
    BY <1>1 DEF cap
  <1> QED BY <1>2, <1>3, <1>4, <1>5, <1>6

(* A frame in a queue was captured: its stamp is not past the sensor's      *)
(* clock, which bounds what the renderer can show.                          *)
CapturedFrames == {f \in Frame : f.capture \in 1..clock[f.lidar]}

Queued == up \in Seq(CapturedFrames) /\ down \in Seq(CapturedFrames)

LEMMA SeqSubset ==
    ASSUME NEW S, NEW T, S \subseteq T, NEW q \in Seq(S)
    PROVE  q \in Seq(T)
  BY SeqDef

LEMMA QueuedKept ==
    /\ Queued /\ UNCHANGED <<clock, up, down>> => Queued'
    /\ Queued /\ UNCHANGED <<clock, down>> /\ up' = <<>> => Queued'
    /\ Queued /\ UNCHANGED <<clock, up>> /\ down' = <<>> => Queued'
  <1>1. UNCHANGED clock => CapturedFrames' = CapturedFrames
    BY DEF CapturedFrames
  <1>2. \A S : <<>> \in Seq(S)
    OBVIOUS
  <1> QED BY <1>1, <1>2 DEF Queued

(* The stamp of a queued frame may be logged.                               *)
LEMMA LogAppend ==
    ASSUME NEW log \in LogType, NEW f \in CapturedFrames,
           clock \in [Lidar -> 0..MaxCaptures]
    PROVE  [log EXCEPT ![f.lidar] = Append(@, f.capture)] \in LogType
  <1>1. f.lidar \in Lidar /\ f.capture \in 1..clock[f.lidar]
    BY DEF CapturedFrames, Frame
  <1>2. f.capture \in 1..MaxCaptures
    BY <1>1, PipelineAssumption
  <1>3. Append(log[f.lidar], f.capture) \in Seq(1..MaxCaptures)
    BY <1>1, <1>2 DEF LogType
  <1> QED BY <1>1, <1>3 DEF LogType

(* The same, as one formula; what a step that keeps `active` must show.     *)
LEMMA TypeParts ==
    PipeTypeOK <=> /\ active \in 0..MaxRun
                   /\ pub \in [Lidar -> PubType]
                   /\ clock \in [Lidar -> 0..MaxCaptures]
                   /\ edge \in EdgeType
                   /\ render \in RenderType
                   /\ viewer \in ViewerType
                   /\ up \in Seq(Frame) /\ Len(up) <= EdgeDepth
                   /\ down \in Seq(Frame) /\ Len(down) <= RenderDepth
                   /\ samples \subseteq [run : 1..active, frame : Frame]
                   /\ measured \in LogType /\ shown \in LogType
  BY DEF PipeTypeOK, PubType, EdgeType, RenderType, ViewerType, LogType

LEMMA TypePartsAfter ==
    ASSUME UNCHANGED active,
           pub' \in [Lidar -> PubType],
           clock' \in [Lidar -> 0..MaxCaptures],
           edge' \in EdgeType,
           render' \in RenderType,
           viewer' \in ViewerType,
           up' \in Seq(Frame), Len(up') <= EdgeDepth,
           down' \in Seq(Frame), Len(down') <= RenderDepth,
           samples' \subseteq [run : 1..active, frame : Frame],
           measured' \in LogType, shown' \in LogType,
           active \in 0..MaxRun
    PROVE  PipeTypeOK'
  BY DEF PipeTypeOK, PubType, EdgeType, RenderType, ViewerType, LogType

(* Frames a publisher captures are of a run, and are frames.                *)
LEMMA CapturedFrameType ==
    ASSUME PipeTypeOK, NEW l \in Lidar, pub[l].run # NoRun
    PROVE  CapturedFrame(l) \in Frame /\ CapturedFrame(l).capture = clock[l] + 1
  <1>1. active \in 0..MaxRun /\ pub[l] \in PubType /\ clock[l] \in Nat
    BY TypeParts, PipelineAssumption
  <1>2. pub[l].run \in Run /\ pub[l].seq \in Nat
    BY <1>1, PubFields, PipelineAssumption DEF Run, NoRun
  <1> QED BY <1>1, <1>2 DEF CapturedFrame, Frame

(* A publisher's step keeps the types, whichever node it leaves.            *)
LEMMA PubTypeStep ==
    ASSUME PipeTypeOK, Queued, NEW l \in Lidar, PubNext(l)
    PROVE  PipeTypeOK' /\ Queued'
  <1> DEFINE n == pub[l]
             m == [pub[l] EXCEPT !.due = FALSE]
  <1>0. active \in Nat /\ active \in 0..active /\ n \in PubType
    BY TypeParts, PipelineAssumption
  <1>1. active \in Nat /\ active \in 0..active /\ n \in PubType /\ m \in PubType
    BY <1>0, PubUpdate
  <1>2. ASSUME NEW k \in PubType, pub' = [pub EXCEPT ![l] = k],
               UNCHANGED <<active, clock, edge, render, viewer, up, down, samples, logs>>
        PROVE  PipeTypeOK' /\ Queued'
    <2>1. pub' \in [Lidar -> PubType]
      BY <1>2, TypeParts
    <2> QED BY <1>2, <2>1, TypeParts, TypePartsAfter, QueuedKept DEF logs
  <1>3. CASE PubStart(l)
    <2>1. PICK k \in {PubStarted(n), PubRefused(n), PubUnopened(n),
                      [PubStarted(n) EXCEPT !.timer = FALSE],
                      [IdlePub EXCEPT !.left = active]} : pub' = [pub EXCEPT ![l] = k]
      BY <1>3 DEF PubStart
    <2>2. k \in PubType
      BY <1>1, <2>1, PubTypes, PubUpdate
    <2> QED BY <1>2, <1>3, <2>1, <2>2 DEF PubStart
  <1>4. CASE PubStop(l)
    <2>1. pub' = [pub EXCEPT ![l] = PubStopped(n)]
      BY <1>4, <1>1, TypeParts DEF PubStop
    <2>2. PubStopped(n) \in PubType
      BY <1>1, PubTypes
    <2> QED BY <1>2, <1>4, <2>1, <2>2 DEF PubStop
  <1>5. CASE PubDies(l)
    <2>1. [IdlePub EXCEPT !.left = n.run] \in PubType
      BY <1>1, PubTypes, PubFields
    <2> QED BY <1>2, <1>5, <2>1 DEF PubDies
  <1>6. CASE Tick(l)
    <2>1. [n EXCEPT !.due = TRUE] \in PubType
      BY <1>1, PubUpdate
    <2>2. pub' = [pub EXCEPT ![l] = [n EXCEPT !.due = TRUE]]
      BY <1>6 DEF Tick
    <2> QED BY <1>2, <1>6, <2>1, <2>2 DEF Tick
  <1>7. CASE publish_frame(l)
    <2>1. UNCHANGED <<active, edge, render, viewer, down, samples, logs>>
      BY <1>7 DEF publish_frame
    <2>3. PICK k \in {m, NotSent(m), Sent(m)} : pub' = [pub EXCEPT ![l] = k]
      BY <1>7 DEF publish_frame
    <2>4. pub' \in [Lidar -> PubType]
      BY <1>1, <2>3, PubTypes, TypeParts
    <2>5. clock' \in [Lidar -> 0..MaxCaptures]
      <3>1. CASE UNCHANGED clock
        BY <3>1, TypeParts
      <3>2. CASE clock[l] < MaxCaptures /\ clock' = [clock EXCEPT ![l] = @ + 1]
        BY <3>2, TypeParts, PipelineAssumption
      <3> QED BY <1>7, <3>1, <3>2 DEF publish_frame
    <2>6. up' \in Seq(Frame) /\ Len(up') <= EdgeDepth
      <3>1. CASE UNCHANGED up
        BY <3>1, TypeParts
      <3>2. CASE m.run # NoRun /\ up' \in Delivered(up, CapturedFrame(l), edge, EdgeDepth)
        <4>1. m.run = n.run
          BY <1>1 DEF PubType
        <4>2. CapturedFrame(l) \in Frame
          BY <3>2, <4>1, CapturedFrameType
        <4> QED BY <3>2, <4>2, TypeParts, DeliveredType, PipelineAssumption
      <3> QED BY <1>7, <3>1, <3>2 DEF publish_frame
    <2>7. Queued'
      <3>1. CapturedFrames \subseteq CapturedFrames'
        <4>1. clock' = clock \/ clock' = [clock EXCEPT ![l] = @ + 1]
          BY <1>7 DEF publish_frame
        <4>0. clock \in [Lidar -> Nat]
          BY TypeParts, PipelineAssumption
        <4>2. \A i \in Lidar : clock[i] \in Nat /\ clock[i] <= clock'[i]
          BY <4>0, <4>1
        <4>3. \A f \in Frame : f.lidar \in Lidar /\ f.capture \in Nat
          BY DEF Frame
        <4>4. \A i \in Lidar : clock'[i] \in Nat
          BY <2>5, PipelineAssumption
        <4> QED BY <4>2, <4>3, <4>4 DEF CapturedFrames
      <3>2. up \in Seq(CapturedFrames') /\ down' \in Seq(CapturedFrames')
        BY <2>1, <3>1, SeqSubset DEF Queued
      <3>3. CASE m.run # NoRun /\ up' \in Delivered(up, CapturedFrame(l), edge, EdgeDepth)
                 /\ clock' = [clock EXCEPT ![l] = @ + 1]
        <4>1. m.run = n.run
          BY <1>1 DEF PubType
        <4>2. CapturedFrame(l) \in Frame /\ CapturedFrame(l).capture = clock[l] + 1
          BY <3>3, <4>1, CapturedFrameType
        <4>3. CapturedFrame(l).lidar = l
          BY DEF CapturedFrame
        <4>4. clock'[l] = clock[l] + 1 /\ clock[l] \in Nat
          BY <3>3, TypeParts, PipelineAssumption
        <4>5. CapturedFrame(l) \in CapturedFrames'
          BY <4>2, <4>3, <4>4 DEF CapturedFrames
        <4>6. up' \in Seq(CapturedFrames')
          BY <3>2, <3>3, <4>5, TypeParts, DeliveredType, PipelineAssumption
        <4> QED BY <3>2, <4>6 DEF Queued
      <3>4. CASE UNCHANGED up
        BY <3>2, <3>4 DEF Queued
      <3> QED BY <1>7, <3>3, <3>4 DEF publish_frame
    <2> QED BY <2>1, <2>4, <2>5, <2>6, <2>7, TypeParts, TypePartsAfter DEF logs
  <1> QED BY <1>3, <1>4, <1>5, <1>6, <1>7 DEF PubNext

-----------------------------------------------------------------------------
(* What the start, the stop and the handler of the edge make of its fields. *)
LEMMA EdgeStoppedFields ==
    ASSUME edge \in EdgeType
    PROVE  /\ EdgeStopped(edge).run = NoRun /\ EdgeStopped(edge).sub = FALSE
           /\ EdgeStopped(edge).decoder = FALSE /\ EdgeStopped(edge).encoder = FALSE
           /\ EdgeStopped(edge).out = FALSE
  BY DEF EdgeStopped, EdgeType

(* An edge without a run holds nothing, so a frame it takes is of its run.  *)
EdgeHeld == edge.run = NoRun => /\ edge.sub = FALSE /\ edge.decoder = FALSE
                                /\ edge.encoder = FALSE /\ edge.out = FALSE

(* What a start that opened its recorder leaves, whole or half.             *)
EdgeJoined == {EdgeStarted} \cup EdgeHalfStarted

(* What a start that did not leaves: an edge that is stopped, was stopped,  *)
(* or is a new process.                                                     *)
EdgeNotJoined == {EdgeRefused, EdgeUnopened, [IdleEdge EXCEPT !.left = active]}

LEMMA EdgeJoinedFields ==
    \A n \in EdgeJoined :
        /\ n.run = active /\ n.left = Left(edge) /\ n.last = -1
        /\ n.frames = 0 /\ n.results = 0 /\ n.resultErrors = 0 /\ n.decodeErrors = 0
  <1> DEFINE Good(n) ==
        /\ n.run = active /\ n.left = Left(edge) /\ n.last = -1
        /\ n.frames = 0 /\ n.results = 0 /\ n.resultErrors = 0 /\ n.decodeErrors = 0
  <1>1. Good(EdgeStarted)
    BY DEF EdgeStarted, IdleEdge
  <1>2. Good(NotSubscribed) /\ Good([NotSubscribed EXCEPT !.decoder = FALSE])
    BY DEF NotSubscribed, EdgeStarted, IdleEdge
  <1>3. Good(NotPublishing) /\ Good([NotPublishing EXCEPT !.encoder = FALSE])
    BY DEF NotPublishing, EdgeStarted, IdleEdge
  <1> HIDE DEF Good
  <1>4. \A n \in EdgeJoined : Good(n)
    BY <1>1, <1>2, <1>3 DEF EdgeJoined, EdgeHalfStarted
  <1> QED BY <1>4 DEF Good

LEMMA EdgeNotJoinedFields ==
    ASSUME edge \in EdgeType, EdgeHeld, NEW n \in EdgeNotJoined
    PROVE  /\ n.run = NoRun /\ n.sub = FALSE /\ n.decoder = FALSE
           /\ n.encoder = FALSE /\ n.out = FALSE
           /\ n.left \in {Left(edge), active}
  <1>1. CASE n = EdgeRefused
    BY <1>1, EdgeStoppedFields DEF EdgeRefused, EdgeHeld, Left, EdgeStopped, EdgeType
  <1>2. CASE n = EdgeUnopened
    BY <1>2 DEF EdgeUnopened, IdleEdge
  <1>3. CASE n = [IdleEdge EXCEPT !.left = active]
    BY <1>3 DEF IdleEdge
  <1> QED BY <1>1, <1>2, <1>3 DEF EdgeNotJoined

LEMMA EdgeStartLeaves ==
    ASSUME EdgeStart
    PROVE  edge' \in EdgeJoined \cup EdgeNotJoined
  BY DEF EdgeStart, EdgeJoined, EdgeNotJoined

LEMMA RecordedFields ==
    ASSUME edge \in EdgeType, NEW f,
           NEW n \in {Recorded(f), [Recorded(f) EXCEPT !.decodeErrors = @ + 1],
                      [Recorded(f) EXCEPT !.resultErrors = @ + 1],
                      [Recorded(f) EXCEPT !.results = @ + 1]}
    PROVE  /\ n.run = edge.run /\ n.sub = edge.sub /\ n.decoder = edge.decoder
           /\ n.encoder = edge.encoder /\ n.out = edge.out
           /\ n.frames = edge.frames + 1
  BY DEF Recorded, EdgeType

LEMMA RecordedCounters ==
    ASSUME edge \in EdgeType, NEW f
    PROVE  /\ Recorded(f).results = edge.results
           /\ Recorded(f).resultErrors = edge.resultErrors
           /\ Recorded(f).decodeErrors = edge.decodeErrors
           /\ LET n == [Recorded(f) EXCEPT !.decodeErrors = @ + 1]
              IN  /\ n.results = edge.results
                  /\ n.resultErrors = edge.resultErrors
                  /\ n.decodeErrors = edge.decodeErrors + 1
           /\ LET n == [Recorded(f) EXCEPT !.resultErrors = @ + 1]
              IN  /\ n.results = edge.results
                  /\ n.resultErrors = edge.resultErrors + 1
                  /\ n.decodeErrors = edge.decodeErrors
           /\ LET n == [Recorded(f) EXCEPT !.results = @ + 1]
              IN  /\ n.results = edge.results + 1
                  /\ n.resultErrors = edge.resultErrors
                  /\ n.decodeErrors = edge.decodeErrors
  BY DEF Recorded, EdgeType

LEMMA EdgeStep ==
    ASSUME PipeTypeOK, Queued, EdgeHeld, FramesAccounted, EdgeNext
    PROVE  PipeTypeOK' /\ Queued' /\ EdgeHeld' /\ FramesAccounted'
  <1>1. active \in Nat /\ active \in 0..active /\ edge \in EdgeType
    BY TypeParts, PipelineAssumption
  <1>2. /\ <<>> \in Seq(Frame) /\ Len(<<>>) <= EdgeDepth
        /\ UNCHANGED <<clock, down>> /\ up' = <<>> => Queued'
    BY PipelineAssumption, QueuedKept
  <1>3. CASE EdgeStart
    <2>1. edge' \in EdgeType
      BY <1>1, <1>3, EdgeTypes DEF EdgeStart
    <2>2. EdgeHeld' /\ FramesAccounted'
      <3>1. CASE edge' \in EdgeJoined
        <4>1. /\ edge'.run = active /\ active # NoRun
              /\ edge'.frames = 0 /\ edge'.results = 0
              /\ edge'.resultErrors = 0 /\ edge'.decodeErrors = 0
          BY <1>3, <3>1, EdgeJoinedFields DEF EdgeStart, MayJoin
        <4> QED BY <4>1 DEF EdgeHeld, FramesAccounted
      <3>2. CASE edge' \in EdgeNotJoined
        <4>1. /\ edge'.sub = FALSE /\ edge'.decoder = FALSE
              /\ edge'.encoder = FALSE /\ edge'.out = FALSE
          BY <1>1, <3>2, EdgeNotJoinedFields
        <4> QED BY <4>1 DEF EdgeHeld, FramesAccounted
      <3> QED BY <1>3, <3>1, <3>2, EdgeStartLeaves
    <2> QED BY <1>2, <1>3, <2>1, <2>2, TypeParts, TypePartsAfter DEF EdgeStart, logs
  <1>4. CASE EdgeStop
    <2>1. edge' \in EdgeType
      BY <1>1, <1>4, EdgeTypes DEF EdgeStop
    <2>2. EdgeHeld' /\ FramesAccounted'
      BY <1>1, <1>4, EdgeStoppedFields DEF EdgeStop, EdgeHeld, FramesAccounted
    <2> QED BY <1>2, <1>4, <2>1, <2>2, TypeParts, TypePartsAfter DEF EdgeStop, logs
  <1>5. CASE on_cloud
    <2> DEFINE f == Head(up)
    <2>0. /\ f \in CapturedFrames /\ up' \in Seq(CapturedFrames)
          /\ Len(up') <= EdgeDepth /\ CapturedFrames' = CapturedFrames
      BY <1>5, TypeParts, QueueHead, PipelineAssumption
      DEF on_cloud, Queued, CapturedFrames
    <2>1. f \in Frame /\ up' \in Seq(Frame) /\ Len(up') <= EdgeDepth
      BY <2>0, SeqSubset DEF CapturedFrames
    <2>2. process(f) /\ edge.sub
      BY <1>5 DEF on_cloud
    <2> HIDE DEF f
    <2>3. edge' \in EdgeType
      BY <1>1, <2>1, <2>2, EdgeTypes DEF process
    <2>4. down' \in Seq(CapturedFrames) /\ Len(down') <= RenderDepth
      <3>1. CASE UNCHANGED down
        BY <3>1, TypeParts DEF Queued
      <3>2. CASE down' \in Delivered(down, f, render, RenderDepth)
        BY <3>2, <2>0, TypeParts, DeliveredType, PipelineAssumption DEF Queued
      <3> QED BY <2>2, <3>1, <3>2 DEF process
    <2>9. down' \in Seq(Frame) /\ Queued'
      BY <2>0, <2>4, SeqSubset DEF CapturedFrames, Queued
    <2>5. edge.run \in 1..active
      BY <1>1, <2>2, EdgeFields DEF EdgeHeld, NoRun
    <2>6. samples' \subseteq [run : 1..active, frame : Frame]
      <3>1. samples' \subseteq samples \cup {[run |-> edge.run, frame |-> f]}
        BY <2>2 DEF process
      <3>2. samples \subseteq [run : 1..active, frame : Frame]
        BY TypeParts
      <3> QED BY <2>1, <2>5, <3>1, <3>2
    <2>7. EdgeHeld'
      <3>1. Recorded(f).run = edge.run
        BY <1>1, RecordedFields
      <3>2. edge'.run = edge.run
        BY <1>1, <2>2, <3>1, RecordedFields DEF process
      <3> QED BY <2>5, <3>2 DEF EdgeHeld, NoRun
    <2>8. FramesAccounted'
      <3>1. CASE edge' = Recorded(f) /\ ~edge.out
        BY <1>1, <3>1, RecordedFields DEF FramesAccounted
      <3>2. ASSUME edge.out
            PROVE  edge.frames + 1 = edge.results + edge.resultErrors + edge.decodeErrors + 1
        BY <3>2 DEF FramesAccounted
      <3>3. CASE edge' \in {[Recorded(f) EXCEPT !.decodeErrors = @ + 1],
                            [Recorded(f) EXCEPT !.resultErrors = @ + 1],
                            [Recorded(f) EXCEPT !.results = @ + 1]}
        <4>1. edge'.out = edge.out /\ edge'.frames = edge.frames + 1
          BY <1>1, <3>3, RecordedFields
        <4>2. edge'.results + edge'.resultErrors + edge'.decodeErrors
                  = edge.results + edge.resultErrors + edge.decodeErrors + 1
          <5>1. /\ edge.results \in Nat /\ edge.resultErrors \in Nat
                /\ edge.decodeErrors \in Nat
            BY <1>1, EdgeFields
          <5>2. CASE edge' = [Recorded(f) EXCEPT !.decodeErrors = @ + 1]
            <6>1. /\ edge'.results = edge.results
                  /\ edge'.resultErrors = edge.resultErrors
                  /\ edge'.decodeErrors = edge.decodeErrors + 1
              BY <1>1, <5>2, RecordedCounters
            <6> QED BY <5>1, <6>1
          <5>3. CASE edge' = [Recorded(f) EXCEPT !.resultErrors = @ + 1]
            <6>1. /\ edge'.results = edge.results
                  /\ edge'.resultErrors = edge.resultErrors + 1
                  /\ edge'.decodeErrors = edge.decodeErrors
              BY <1>1, <5>3, RecordedCounters
            <6> QED BY <5>1, <6>1
          <5>4. CASE edge' = [Recorded(f) EXCEPT !.results = @ + 1]
            <6>1. /\ edge'.results = edge.results + 1
                  /\ edge'.resultErrors = edge.resultErrors
                  /\ edge'.decodeErrors = edge.decodeErrors
              BY <1>1, <5>4, RecordedCounters
            <6> QED BY <5>1, <6>1
          <5> QED BY <3>3, <5>2, <5>3, <5>4
        <4> QED BY <3>2, <4>1, <4>2 DEF FramesAccounted
      <3> QED BY <2>2, <3>1, <3>3 DEF process
    <2>10. measured' \in LogType
      <3>1. measured' = [measured EXCEPT ![f.lidar] = Append(@, f.capture)]
        BY <2>2 DEF process
      <3> QED BY <2>0, <3>1, LogAppend, TypeParts
    <2> QED BY <1>5, <2>1, <2>3, <2>4, <2>6, <2>7, <2>8, <2>9, <2>10, TypeParts,
            TypePartsAfter DEF on_cloud
  <1> QED BY <1>3, <1>4, <1>5 DEF EdgeNext

-----------------------------------------------------------------------------
(* The renderer holds nothing without a run but the decoder of a start that *)
(* did not open; and, where serving the page does not fail, a sink is drawn *)
(* into exactly while its stream is live.                                   *)
RenderHeld == render.run = NoRun =>
    /\ render.sub = FALSE /\ render.sink = FALSE
    /\ render.decoder = TRUE => render.unopened = TRUE

StreamOfSink == viewer.stream = IF render.sink /\ Serve THEN "live" ELSE "closed"

LEMMA RenderStoppedFields ==
    ASSUME render \in RenderType
    PROVE  /\ RenderStopped(render).run = NoRun /\ RenderStopped(render).sub = FALSE
           /\ RenderStopped(render).decoder = FALSE /\ RenderStopped(render).sink = FALSE
  BY DEF RenderStopped, RenderType

LEMMA RenderStartedFields ==
    /\ RenderStarted.run = active /\ RenderStarted.sink = TRUE
    /\ \A b \in BOOLEAN : /\ RenderHalfStarted(b).run = active
                          /\ RenderHalfStarted(b).sink = b
  BY DEF RenderStarted, RenderHalfStarted, IdleRender

LEMMA RenderUnopenedFields ==
    /\ RenderUnopened.run = NoRun /\ RenderUnopened.sub = FALSE
    /\ RenderUnopened.sink = FALSE /\ RenderUnopened.unopened = TRUE
  BY DEF RenderUnopened, RenderStarted, IdleRender

LEMMA RenderDiedFields ==
    LET n == [IdleRender EXCEPT !.left = active]
    IN  n.run = NoRun /\ n.sub = FALSE /\ n.decoder = FALSE /\ n.sink = FALSE
  BY DEF IdleRender

(* After the sink is closed no stream is left, so the next one comes up.    *)
LEMMA StreamStopped ==
    ASSUME viewer \in ViewerType, Serve \in BOOLEAN, StreamOfSink
    PROVE  /\ ViewerStopped.stream = "closed"
           /\ install_sinks(ViewerStopped).stream = IF Serve THEN "live" ELSE "closed"
  <1>1. ViewerStopped.stream = "closed"
    <2>1. CASE render.sink /\ Serve
      BY <2>1 DEF ViewerStopped, close, ViewerType
    <2>2. CASE ~(render.sink /\ Serve)
      BY <2>2 DEF ViewerStopped, close, ViewerType, StreamOfSink
    <2> QED BY <2>1, <2>2
  <1>2. install_sinks(ViewerStopped).stream = IF Serve THEN "live" ELSE "closed"
    BY <1>1 DEF install_sinks, ServeStream
  <1> QED BY <1>1, <1>2

LEMMA RenderStep ==
    ASSUME PipeTypeOK, Queued, RenderHeld, ~PageFails => StreamOfSink, RenderNext
    PROVE  PipeTypeOK' /\ Queued' /\ RenderHeld' /\ (~PageFails => StreamOfSink')
  <1>1. /\ active \in Nat /\ active \in 0..active /\ render \in RenderType
        /\ viewer \in ViewerType /\ Serve \in BOOLEAN /\ PageFails \in BOOLEAN
    BY TypeParts, PipelineAssumption
  <1>2. /\ <<>> \in Seq(Frame) /\ Len(<<>>) <= RenderDepth
        /\ UNCHANGED <<clock, up>> /\ down' = <<>> => Queued'
    BY PipelineAssumption, QueuedKept
  <1>3. CASE RenderStart
    <2>1. /\ UNCHANGED <<active, pub, clock, edge, up, samples, logs>>
          /\ down' = <<>> /\ active # NoRun
      BY <1>3 DEF RenderStart, MayJoin
    <2>2. ASSUME render' \in RenderType, viewer' \in ViewerType
          PROVE  PipeTypeOK' /\ Queued'
      BY <1>2, <2>1, <2>2, TypeParts, TypePartsAfter DEF logs
    <2>3. ViewerStopped \in ViewerType /\ install_sinks(ViewerStopped) \in ViewerType
          /\ PageRaises(ViewerStopped) \in ViewerType /\ NoViewer \in ViewerType
      BY <1>1, ViewerTypes
    <2>4. CASE /\ render' \in {RenderStarted, RenderHalfStarted(TRUE)}
               /\ viewer' = install_sinks(ViewerStopped)
      <3>1. render' \in RenderType
        BY <1>1, <2>4, RenderTypes
      <3>2. render'.run = active /\ render'.sink = TRUE
        BY <2>4, RenderStartedFields
      <3>3. RenderHeld'
        BY <2>1, <3>2 DEF RenderHeld
      <3>4. ~PageFails => StreamOfSink'
        BY <1>1, <2>4, <3>2, StreamStopped DEF StreamOfSink
      <3> QED BY <2>2, <2>3, <2>4, <3>1, <3>3, <3>4
    <2>5. CASE /\ PageFails /\ render' = RenderHalfStarted(FALSE)
               /\ viewer' = PageRaises(ViewerStopped)
      <3>1. render' \in RenderType
        BY <1>1, <2>5, RenderTypes
      <3>2. render'.run = active
        BY <2>5, RenderStartedFields
      <3>3. RenderHeld'
        BY <2>1, <3>2 DEF RenderHeld
      <3> QED BY <2>2, <2>3, <2>5, <3>1, <3>3
    <2>6. CASE /\ render' \in {RenderHalfStarted(FALSE), RenderRefused, RenderUnopened}
               /\ viewer' = ViewerStopped
      <3>1. render' \in RenderType
        BY <1>1, <2>6, RenderTypes
      <3>2. render'.sink = FALSE \/ (render' = render /\ render.run = NoRun)
        BY <1>1, <2>6, RenderStartedFields, RenderStoppedFields, RenderUnopenedFields
        DEF RenderRefused
      <3>3. RenderHeld'
        <4>1. CASE render' = RenderHalfStarted(FALSE)
          <5>1. render'.run = active
            BY <4>1, RenderStartedFields
          <5> QED BY <2>1, <5>1 DEF RenderHeld
        <4>2. CASE render' = RenderRefused
          BY <1>1, <4>2, RenderStoppedFields DEF RenderRefused, RenderHeld
        <4>3. CASE render' = RenderUnopened
          BY <4>3, RenderUnopenedFields DEF RenderHeld
        <4> QED BY <2>6, <4>1, <4>2, <4>3
      <3>4. render'.sink = FALSE
        BY <3>2 DEF RenderHeld
      <3>5. ~PageFails => StreamOfSink'
        BY <1>1, <2>6, <3>4, StreamStopped DEF StreamOfSink
      <3> QED BY <2>2, <2>3, <2>6, <3>1, <3>3, <3>5
    <2>7. CASE render' = [IdleRender EXCEPT !.left = active] /\ viewer' = NoViewer
      <3>1. render' \in RenderType
        BY <1>1, <2>7, RenderTypes
      <3>2. RenderHeld'
        BY <2>7, RenderDiedFields DEF RenderHeld
      <3>3. ~PageFails => StreamOfSink'
        BY <2>7, RenderDiedFields DEF StreamOfSink, NoViewer
      <3> QED BY <2>2, <2>3, <2>7, <3>1, <3>2, <3>3
    <2> QED BY <1>3, <2>4, <2>5, <2>6, <2>7 DEF RenderStart
  <1>4. CASE RenderStop
    <2>1. render' = RenderStopped(render) /\ viewer' = ViewerStopped
      BY <1>4 DEF RenderStop
    <2>2. render' \in RenderType /\ viewer' \in ViewerType
      BY <1>1, <2>1, RenderTypes, ViewerTypes
    <2>3. RenderHeld'
      BY <1>1, <2>1, RenderStoppedFields DEF RenderHeld
    <2>4. ASSUME ~PageFails PROVE StreamOfSink'
      BY <1>1, <2>1, <2>4, RenderStoppedFields, StreamStopped DEF StreamOfSink
    <2> QED BY <1>2, <1>4, <2>2, <2>3, <2>4, TypeParts, TypePartsAfter DEF RenderStop, logs
  <1>5. CASE on_result
    <2> DEFINE f == Head(down)
               n == [render EXCEPT !.last = f.seq, !.gaps = Gaps(render, f),
                                   !.frames = @ + 1]
    <2>0. /\ f \in CapturedFrames /\ down' \in Seq(CapturedFrames)
          /\ Len(down') <= RenderDepth /\ CapturedFrames' = CapturedFrames
          /\ UNCHANGED up
      BY <1>5, TypeParts, QueueHead, PipelineAssumption
      DEF on_result, Queued, CapturedFrames
    <2>1. /\ f \in Frame /\ down' \in Seq(Frame) /\ Len(down') <= RenderDepth
          /\ Queued'
      BY <2>0, SeqSubset DEF CapturedFrames, Queued
    <2>2. draw_and_record(f) /\ UNCHANGED <<active, pub, clock, edge, up, samples, measured>>
      BY <1>5 DEF on_result
    <2> HIDE DEF f
    <2>3. f.seq \in Int /\ Gaps(render, f) \in Nat
      BY <1>1, <2>1, RenderFields DEF Gaps, Frame
    <2>4. n \in RenderType
      BY <1>1, <2>3, RenderFields, RenderUpdate
    <2>5. n.run = render.run /\ n.sub = render.sub /\ n.decoder = render.decoder
          /\ n.sink = render.sink /\ n.unopened = render.unopened
      BY <1>1 DEF RenderType
    <2>6. CASE render' = n /\ UNCHANGED <<viewer, shown>>
      <3>1. RenderHeld' /\ (~PageFails => StreamOfSink')
        BY <2>5, <2>6 DEF RenderHeld, StreamOfSink
      <3> QED BY <2>1, <2>2, <2>4, <2>6, <3>1, TypeParts, TypePartsAfter
    <2>7. CASE \E over \in {FALSE, ~render.capped} :
                   /\ render' = [n EXCEPT !.drawn = @ + 1, !.capped = @ \/ over]
                   /\ viewer' = IF over THEN cap(viewer) ELSE viewer
                   /\ shown' = [shown EXCEPT ![f.lidar] = Append(@, f.capture)]
      <3>1. PICK over \in {FALSE, ~render.capped} :
                   /\ render' = [n EXCEPT !.drawn = @ + 1, !.capped = @ \/ over]
                   /\ viewer' = IF over THEN cap(viewer) ELSE viewer
                   /\ shown' = [shown EXCEPT ![f.lidar] = Append(@, f.capture)]
        BY <2>7
      <3>2. (n.capped \/ over) \in BOOLEAN
        OBVIOUS
      <3>3. render' \in RenderType
        BY <2>4, <3>1, <3>2, RenderFields, RenderUpdate
      <3>4. viewer' \in ViewerType
        BY <1>1, <3>1, ViewerTypes
      <3>5. render'.run = render.run /\ render'.sub = render.sub
            /\ render'.decoder = render.decoder /\ render'.sink = render.sink
            /\ render'.unopened = render.unopened
        BY <2>4, <2>5, <3>1 DEF RenderType
      <3>6. RenderHeld'
        BY <3>5 DEF RenderHeld
      <3>7. ASSUME ~PageFails PROVE StreamOfSink'
        BY <1>1, <3>1, <3>5, <3>7 DEF StreamOfSink, cap, ViewerType
      <3>8. shown' \in LogType
        BY <2>0, <3>1, LogAppend, TypeParts
      <3> QED BY <2>1, <2>2, <3>1, <3>3, <3>4, <3>6, <3>7, <3>8, TypeParts,
                 TypePartsAfter
    <2> QED BY <2>2, <2>6, <2>7 DEF draw_and_record
  <1> QED BY <1>3, <1>4, <1>5 DEF RenderNext

-----------------------------------------------------------------------------
(* What a step of a publisher makes of the fields that matter.              *)
LEMMA PubStoppedFields ==
    ASSUME NEW n \in PubType
    PROVE  /\ PubStopped(n).run = NoRun /\ PubStopped(n).left = Left(n)
           /\ PubStopped(n).timer = FALSE /\ PubStopped(n).encoder = FALSE
  BY DEF PubStopped, PubType

LEMMA PubStartedFields ==
    ASSUME NEW n \in PubType
    PROVE  \A k \in {PubStarted(n), [PubStarted(n) EXCEPT !.timer = FALSE]} :
               k.run = active /\ k.left = Left(n) /\ k.seq = 0
  BY DEF PubStarted, PubStopped, PubType

LEMMA PubUnopenedFields ==
    ASSUME NEW n \in PubType
    PROVE  /\ PubUnopened(n).run = NoRun /\ PubUnopened(n).left = Left(n)
           /\ PubUnopened(n).timer = FALSE /\ PubUnopened(n).unopened = TRUE
  BY DEF PubUnopened, PubStarted, PubStopped, PubType

LEMMA PubRefusedFields ==
    ASSUME NEW n \in PubType
    PROVE  /\ PubRefused(n).run = NoRun /\ PubRefused(n).left = Left(n)
           /\ n.run = NoRun => PubRefused(n) = n
           /\ n.run # NoRun => PubRefused(n) = PubStopped(n)
  <1>1. CASE n.run = NoRun
    BY <1>1 DEF PubRefused, Left
  <1>2. CASE n.run # NoRun
    BY <1>2, PubStoppedFields DEF PubRefused
  <1> QED BY <1>1, <1>2

LEMMA PubDiedFields ==
    \A v : LET n == [IdlePub EXCEPT !.left = v]
           IN  n.run = NoRun /\ n.left = v /\ n.timer = FALSE /\ n.encoder = FALSE
  BY DEF IdlePub

LEMMA PubTickFields ==
    ASSUME NEW n \in PubType
    PROVE  \A k \in {[n EXCEPT !.due = TRUE], [n EXCEPT !.due = FALSE]} :
               /\ k.run = n.run /\ k.left = n.left /\ k.timer = n.timer
               /\ k.encoder = n.encoder /\ k.seq = n.seq
               /\ k.unopened = n.unopened
  BY DEF PubType

LEMMA PubSentFields ==
    ASSUME NEW n \in PubType
    PROVE  \A k \in {NotSent(n), Sent(n)} :
               /\ k.run = n.run /\ k.left = n.left /\ k.timer = n.timer
               /\ k.encoder = n.encoder /\ k.seq = n.seq + 1
               /\ k.unopened = n.unopened
  BY DEF NotSent, Sent, PubType

(* A publisher without a run has no timer, and at most the encoder of a     *)
(* start that did not open.                                                 *)
Holds(n) == n.run = NoRun =>
    n.timer = FALSE /\ (n.encoder = TRUE => n.unopened = TRUE)

PubNode == \A l \in Lidar : Holds(pub[l])

LEMMA PubHeldStep ==
    ASSUME PipeTypeOK, PubNode, NEW l \in Lidar, PubNext(l)
    PROVE  PubNode'
  <1> DEFINE n == pub[l]
             m == [pub[l] EXCEPT !.due = FALSE]
  <1>0. active \in Nat /\ n \in PubType /\ pub \in [Lidar -> PubType]
    BY TypeParts, PipelineAssumption
  <1>1. /\ m \in PubType /\ m.run = n.run /\ m.timer = n.timer
        /\ m.encoder = n.encoder /\ m.unopened = n.unopened
    BY <1>0, PubUpdate, PubTickFields
  <1>2. Holds(n)
    BY DEF PubNode
  <1>3. SUFFICES ASSUME NEW k, pub' = [pub EXCEPT ![l] = k]
                 PROVE  Holds(k)
    <2>1. \E k : pub' = [pub EXCEPT ![l] = k]
      BY DEF PubNext, PubStart, PubStop, PubDies, Tick, publish_frame
    <2> QED BY <1>0, <1>3, <2>1 DEF PubNode, Holds
  <1>4. pub'[l] = k
    BY <1>0, <1>3
  <1>5. CASE PubStart(l)
    <2>1. /\ active # NoRun
          /\ k \in {PubStarted(n), PubRefused(n), PubUnopened(n),
                    [PubStarted(n) EXCEPT !.timer = FALSE],
                    [IdlePub EXCEPT !.left = active]}
      BY <1>0, <1>4, <1>5 DEF PubStart, MayJoin
    <2>2. CASE k \in {PubStarted(n), [PubStarted(n) EXCEPT !.timer = FALSE]}
      <3>1. k.run = active
        BY <1>0, <2>2, PubStartedFields
      <3> QED BY <2>1, <3>1 DEF Holds
    <2>3. CASE k = PubRefused(n)
      BY <1>0, <1>2, <2>3, PubRefusedFields, PubStoppedFields DEF Holds
    <2>4. CASE k = [IdlePub EXCEPT !.left = active]
      BY <2>4, PubDiedFields DEF Holds
    <2>5. CASE k = PubUnopened(n)
      BY <1>0, <2>5, PubUnopenedFields DEF Holds
    <2> QED BY <2>1, <2>2, <2>3, <2>4, <2>5
  <1>6. CASE PubStop(l)
    <2>1. k = PubStopped(n)
      BY <1>0, <1>4, <1>6 DEF PubStop
    <2> QED BY <1>0, <2>1, PubStoppedFields DEF Holds
  <1>7. CASE PubDies(l)
    <2>1. k = [IdlePub EXCEPT !.left = n.run]
      BY <1>0, <1>4, <1>7 DEF PubDies
    <2> QED BY <2>1, PubDiedFields DEF Holds
  <1>8. CASE Tick(l)
    <2>1. k = [n EXCEPT !.due = TRUE]
      BY <1>0, <1>4, <1>8 DEF Tick
    <2> QED BY <1>0, <1>2, <2>1, PubTickFields DEF Holds
  <1>9. CASE publish_frame(l)
    <2>1. k \in {m, NotSent(m), Sent(m)}
      BY <1>0, <1>4, <1>9 DEF publish_frame
    <2>2. k.run = m.run /\ k.timer = m.timer /\ k.encoder = m.encoder
          /\ k.unopened = m.unopened
      BY <1>1, <2>1, PubSentFields
    <2> QED BY <1>1, <1>2, <2>2 DEF Holds
  <1> QED BY <1>5, <1>6, <1>7, <1>8, <1>9 DEF PubNext

-----------------------------------------------------------------------------
(* The inductive invariant, and what follows from it.                       *)
PipeInv ==
    /\ PipeTypeOK /\ Queued
    /\ PubNode /\ EdgeHeld /\ RenderHeld
    /\ ~PageFails => StreamOfSink
    /\ FramesAccounted

LEMMA PipeInvInit == Init => PipeInv
  <1> SUFFICES ASSUME Init PROVE PipeInv
    OBVIOUS
  <1>1. PipeTypeOK
    BY TypeInit
  <1>2. Queued
    BY DEF Init, Queued
  <1>3. PubNode /\ EdgeHeld /\ RenderHeld
    BY DEF Init, PubNode, Holds, EdgeHeld, RenderHeld, IdlePub, IdleEdge, IdleRender
  <1>4. StreamOfSink
    BY DEF Init, StreamOfSink, IdleRender, NoViewer
  <1>5. FramesAccounted
    BY DEF Init, FramesAccounted, IdleEdge
  <1> QED BY <1>1, <1>2, <1>3, <1>4, <1>5 DEF PipeInv

LEMMA PipeInvStep == PipeInv /\ [Next]_vars => PipeInv'
  <1> SUFFICES ASSUME PipeInv, [Next]_vars PROVE PipeInv'
    OBVIOUS
  <1> USE DEF PipeInv
  <1>1. ASSUME UNCHANGED pub PROVE PubNode'
    BY <1>1 DEF PubNode
  <1>2. ASSUME UNCHANGED edge PROVE EdgeHeld' /\ FramesAccounted'
    BY <1>2 DEF EdgeHeld, FramesAccounted
  <1>3. ASSUME UNCHANGED <<render, viewer>>
        PROVE  RenderHeld' /\ (~PageFails => StreamOfSink')
    BY <1>3 DEF RenderHeld, StreamOfSink
  <1>4. CASE NextRun
    <2>1. PipeTypeOK'
      BY <1>4, NextRunType
    <2> QED BY <1>1, <1>2, <1>3, <1>4, <2>1, QueuedKept DEF NextRun
  <1>5. CASE \E l \in Lidar : PubNext(l)
    <2>1. PICK l \in Lidar : PubNext(l)
      BY <1>5
    <2>2. UNCHANGED <<edge, render, viewer>>
      BY <2>1 DEF PubNext, PubStart, PubStop, PubDies, Tick, publish_frame
    <2>3. PipeTypeOK' /\ Queued'
      BY <2>1, PubTypeStep
    <2>4. PubNode'
      BY <2>1, PubHeldStep
    <2> QED BY <1>2, <1>3, <2>2, <2>3, <2>4
  <1>6. CASE EdgeNext
    <2>1. UNCHANGED <<pub, render, viewer>>
      BY <1>6 DEF EdgeNext, EdgeStart, EdgeStop, on_cloud
    <2> QED BY <1>1, <1>3, <1>6, <2>1, EdgeStep
  <1>7. CASE RenderNext
    <2>1. UNCHANGED <<pub, edge>>
      BY <1>7 DEF RenderNext, RenderStart, RenderStop, on_result
    <2> QED BY <1>1, <1>2, <1>7, <2>1, RenderStep, SMTT(30)
  <1>8. CASE UNCHANGED vars
    <2>1. PipeTypeOK'
      BY <1>8, TypeParts, TypePartsAfter DEF PipeInv, vars, logs
    <2> QED BY <1>1, <1>2, <1>3, <1>8, <2>1, QueuedKept DEF vars
  <1> QED BY <1>4, <1>5, <1>6, <1>7, <1>8 DEF Next

(* Always, the inductive invariant.                                         *)
THEOREM PipeInvHolds == Spec => []PipeInv
  BY PipeInvInit, PipeInvStep, PTL DEF Spec

(* The queues of the edge and the renderer stay within the depth cloud_qos  *)
(* gives them, and every node keeps its shape, for any number of clients.   *)
THEOREM PipeTypes == Spec => []PipeTypeOK
  <1>1. PipeInv => PipeTypeOK
    BY DEF PipeInv
  <1> QED BY <1>1, PipeInvHolds, PTL

(* Where the page can be served, a renderer never draws into a stream that  *)
(* is not up, whatever the order of starts, stops, deaths and the cap.      *)
THEOREM StreamAlwaysLive == ~PageFails => (Spec => []StreamLive)
  <1> SUFFICES ASSUME ~PageFails PROVE Spec => []StreamLive
    OBVIOUS
  <1>1. PipeInv => StreamLive
    BY DEF PipeInv, StreamOfSink, StreamLive
  <1> QED BY <1>1, PipeInvHolds, PTL

(* A node without a run holds no resource, but for a coder its last start   *)
(* built before its recorder failed to open; on the same condition.         *)
THEOREM IdleAlwaysHoldsNothing == ~PageFails => (Spec => []IdleHoldsNothing)
  <1> SUFFICES ASSUME ~PageFails PROVE Spec => []IdleHoldsNothing
    OBVIOUS
  <1>1. PipeInv => IdleHoldsNothing
    <2> SUFFICES ASSUME PipeInv PROVE IdleHoldsNothing
      OBVIOUS
    <2>1. \A l \in Lidar : pub[l].run = NoRun =>
              ~pub[l].timer /\ (pub[l].encoder => pub[l].unopened)
      <3> SUFFICES ASSUME NEW l \in Lidar, pub[l].run = NoRun
                   PROVE  ~pub[l].timer /\ (pub[l].encoder => pub[l].unopened)
        OBVIOUS
      <3>1. Holds(pub[l]) /\ pub[l] \in PubType
        BY TypeParts DEF PipeInv, PubNode
      <3> QED BY <3>1 DEF Holds, PubType
    <2>2. edge.run = NoRun => ~(edge.sub \/ edge.decoder \/ edge.encoder \/ edge.out)
      BY DEF PipeInv, EdgeHeld
    <2>3. ASSUME render.run = NoRun
          PROVE  /\ ~(render.sub \/ render.sink)
                 /\ render.decoder => render.unopened
                 /\ viewer.stream = "closed"
      <3>1. render \in RenderType
        BY TypeParts DEF PipeInv
      <3> QED BY <2>3, <3>1 DEF PipeInv, RenderHeld, StreamOfSink, RenderType
    <2> QED BY <2>1, <2>2, <2>3 DEF IdleHoldsNothing
  <1> QED BY <1>1, PipeInvHolds, PTL

(* Every frame measured while there is a downlink is a result sent, one     *)
(* that could not be coded, or a frame that could not be decoded.           *)
THEOREM FramesAlwaysAccounted == Spec => []FramesAccounted
  <1>1. PipeInv => FramesAccounted
    BY DEF PipeInv
  <1> QED BY <1>1, PipeInvHolds, PTL

-----------------------------------------------------------------------------
(* The key of a frame.  A frame queued or measured is behind its sensor: of *)
(* a run it left, or of its run with a seq already given.  So where no node *)
(* joins a run it left, the seq it gives next is new to its run, and gaps   *)
(* can be told from it.                                                     *)
Elements(q) == {q[i] : i \in 1..Len(q)}

Known == Elements(up) \cup {s.frame : s \in samples}

Behind(n, f) == f.trace <= n.left \/ (f.trace = n.run /\ f.seq < n.seq)

KnownBehind == \A f \in Known : Behind(pub[f.lidar], f)

LeftBefore == \A l \in Lidar : pub[l].run # NoRun => pub[l].left < pub[l].run

JoinInv == KnownBehind /\ LeftBefore

LEMMA QueueElements ==
    ASSUME NEW S, NEW q \in Seq(S)
    PROVE  /\ Elements(<<>>) = {}
           /\ Elements(q) \subseteq S
           /\ q # <<>> => Head(q) \in Elements(q) /\ Elements(Tail(q)) \subseteq Elements(q)
           /\ \A f \in S : Elements(Append(q, f)) \subseteq Elements(q) \cup {f}
  <1>1. Elements(<<>>) = {} /\ Elements(q) \subseteq S
    BY DEF Elements
  <1>2. ASSUME q # <<>>
        PROVE  Head(q) \in Elements(q) /\ Elements(Tail(q)) \subseteq Elements(q)
    <2>1. /\ Len(q) \in Nat /\ Len(q) >= 1 /\ Head(q) = q[1]
          /\ Len(Tail(q)) = Len(q) - 1
          /\ \A i \in 1..Len(Tail(q)) : Tail(q)[i] = q[i + 1]
      BY <1>2
    <2> QED BY <2>1 DEF Elements
  <1>3. ASSUME NEW f \in S PROVE Elements(Append(q, f)) \subseteq Elements(q) \cup {f}
    BY <1>3 DEF Elements
  <1> QED BY <1>1, <1>2, <1>3

LEMMA DeliveredElements ==
    ASSUME NEW S, NEW q \in Seq(S), NEW f \in S, NEW reader,
           NEW depth \in Nat \ {0}, NEW r \in Delivered(q, f, reader, depth)
    PROVE  Elements(r) \subseteq Elements(q) \cup {f}
  <1>1. CASE r = q
    BY <1>1
  <1>2. CASE r = KeepLast(q, f, depth)
    <2>1. CASE Len(q) < depth
      BY <1>2, <2>1, QueueElements DEF KeepLast
    <2>2. CASE ~(Len(q) < depth)
      <3>1. q # <<>> /\ Tail(q) \in Seq(S)
        BY <2>2, HeadTailProperties
      <3>2. Elements(Tail(q)) \subseteq Elements(q)
        BY <3>1, QueueElements
      <3>3. Elements(Append(Tail(q), f)) \subseteq Elements(Tail(q)) \cup {f}
        BY <3>1, QueueElements
      <3> QED BY <1>2, <2>2, <3>2, <3>3 DEF KeepLast
    <2> QED BY <2>1, <2>2
  <1> QED BY <1>1, <1>2 DEF Delivered

LEMMA KnownFrames == PipeTypeOK => Known \subseteq Frame
  <1> SUFFICES ASSUME PipeTypeOK PROVE Known \subseteq Frame
    OBVIOUS
  <1>1. Elements(up) \subseteq Frame
    BY TypeParts, QueueElements
  <1>2. \A s \in samples : s.frame \in Frame
    BY TypeParts
  <1> QED BY <1>1, <1>2 DEF Known

(* Whatever a publisher does, it stays ahead of the frames it was ahead of; *)
(* and a run it joins comes after those it left.                            *)
LEMMA PubAhead ==
    ASSUME PipeTypeOK, ~Rejoins, JoinInv, NEW l \in Lidar, PubNext(l)
    PROVE  /\ \A f \in Frame : Behind(pub[l], f) => Behind(pub'[l], f)
           /\ pub'[l].run # NoRun => pub'[l].left < pub'[l].run
  <1> DEFINE n == pub[l]
             m == [pub[l] EXCEPT !.due = FALSE]
             Good(k) == /\ \A f \in Frame : Behind(n, f) => Behind(k, f)
                        /\ k.run # NoRun => k.left < k.run
  <1>0. /\ active \in Nat /\ n \in PubType /\ pub \in [Lidar -> PubType]
        /\ n.run \in 0..active /\ n.left \in 0..active /\ n.seq \in Nat
    BY TypeParts, PubFields, PipelineAssumption
  <1>1. m \in PubType /\ m.run = n.run /\ m.left = n.left /\ m.seq = n.seq
    BY <1>0, PubUpdate, PubTickFields
  <1>2. n.run # NoRun => n.left < n.run
    BY DEF JoinInv, LeftBefore
  <1>3. \A f \in Frame : f.trace \in Nat /\ f.seq \in Nat /\ f.trace > 0
    BY PipelineAssumption DEF Frame, Run
  <1>4. /\ Left(n) \in 0..active
        /\ \A f \in Frame : Behind(n, f) => f.trace <= Left(n)
    BY <1>0, <1>2, <1>3 DEF Left, Behind, NoRun
  <1>5. ASSUME NEW k, k.left = Left(n), k.run = NoRun PROVE Good(k)
    BY <1>4, <1>5 DEF Behind
  <1>6. ASSUME NEW k, k.left = n.left, k.run = n.run,
               k.seq = n.seq \/ k.seq = n.seq + 1
        PROVE  Good(k)
    BY <1>0, <1>2, <1>3, <1>6 DEF Behind
  <1>7. CASE PubStart(l)
    <2>1. /\ active \notin {NoRun, n.run, n.left}
          /\ pub'[l] \in {PubStarted(n), PubRefused(n), PubUnopened(n),
                          [PubStarted(n) EXCEPT !.timer = FALSE],
                          [IdlePub EXCEPT !.left = active]}
      BY <1>0, <1>7 DEF PubStart, MayJoin
    <2>2. CASE pub'[l] \in {PubStarted(n), [PubStarted(n) EXCEPT !.timer = FALSE]}
      <3>1. pub'[l].run = active /\ pub'[l].left = Left(n)
        BY <1>0, <2>2, PubStartedFields
      <3>2. Left(n) < active
        BY <1>0, <2>1 DEF Left, NoRun
      <3> QED BY <1>4, <3>1, <3>2 DEF Behind
    <2>3. CASE pub'[l] \in {PubRefused(n), PubUnopened(n)}
      BY <1>0, <1>5, <2>3, PubRefusedFields, PubUnopenedFields
    <2>4. CASE pub'[l] = [IdlePub EXCEPT !.left = active]
      <3>1. pub'[l].run = NoRun /\ pub'[l].left = active
        BY <2>4, PubDiedFields
      <3>2. \A f \in Frame : f.trace <= Left(n) => f.trace <= active
        BY <1>0, <1>3, <1>4
      <3> QED BY <1>4, <3>1, <3>2 DEF Behind
    <2> QED BY <2>1, <2>2, <2>3, <2>4
  <1>8. CASE PubStop(l)
    <2>1. pub'[l] = PubStopped(n)
      BY <1>0, <1>8 DEF PubStop
    <2> QED BY <1>0, <1>5, <2>1, PubStoppedFields
  <1>9. CASE PubDies(l)
    <2>1. pub'[l] = [IdlePub EXCEPT !.left = n.run] /\ n.run # NoRun
      BY <1>0, <1>9 DEF PubDies
    <2>2. pub'[l].run = NoRun /\ pub'[l].left = Left(n)
      BY <2>1, PubDiedFields DEF Left
    <2> QED BY <1>5, <2>2
  <1>10. CASE Tick(l)
    <2>1. pub'[l] = [n EXCEPT !.due = TRUE]
      BY <1>0, <1>10 DEF Tick
    <2>2. pub'[l].left = n.left /\ pub'[l].run = n.run /\ pub'[l].seq = n.seq
      BY <1>0, <2>1, PubTickFields
    <2>3. Good(pub'[l])
      BY <1>6, <2>2
    <2> QED BY <2>3
  <1>11. CASE publish_frame(l)
    <2>1. pub'[l] \in {m, NotSent(m), Sent(m)}
      BY <1>0, <1>11 DEF publish_frame
    <2>2. CASE pub'[l] = m
      BY <1>1, <1>6, <2>2
    <2>3. CASE pub'[l] \in {NotSent(m), Sent(m)}
      <3>1. /\ pub'[l].run = n.run /\ pub'[l].left = n.left
            /\ pub'[l].seq = n.seq + 1
        BY <1>1, <2>3, PubSentFields
      <3> QED BY <1>6, <3>1
    <2> QED BY <2>1, <2>2, <2>3
  <1> QED BY <1>7, <1>8, <1>9, <1>10, <1>11 DEF PubNext

(* Frames come to be known only where a publisher sends one; the rest pass  *)
(* from the queue to the samples.                                           *)
LEMMA KnownStep ==
    ASSUME PipeTypeOK, [Next]_vars
    PROVE  \/ Known' \subseteq Known
           \/ \E l \in Lidar : /\ publish_frame(l) /\ pub[l].run # NoRun
                               /\ Known' \subseteq Known \cup {CapturedFrame(l)}
                               /\ pub'[l].seq = pub[l].seq + 1
                               /\ pub'[l].run = pub[l].run
  <1>0. up \in Seq(Frame)
    BY TypeParts
  <1>1. ASSUME Elements(up') \subseteq Elements(up), UNCHANGED samples
        PROVE  Known' \subseteq Known
    BY <1>1 DEF Known, Elements
  <1>2. ASSUME UNCHANGED <<up, samples>> PROVE Known' \subseteq Known
    BY <1>1, <1>2 DEF Elements
  <1>3. CASE on_cloud
    <2>1. Head(up) \in Elements(up) /\ Elements(up') \subseteq Elements(up)
      BY <1>0, <1>3, QueueElements DEF on_cloud
    <2>2. samples' = samples \cup {[run |-> edge.run, frame |-> Head(up)]}
      BY <1>3 DEF on_cloud, process
    <2>3. \A s \in samples' : s \in samples \/ s.frame = Head(up)
      BY <2>2
    <2>4. {s.frame : s \in samples'} \subseteq {s.frame : s \in samples} \cup Elements(up)
      BY <2>1, <2>3
    <2>5. Known' = Elements(up') \cup {s.frame : s \in samples'}
      BY DEF Known, Elements
    <2> QED BY <2>1, <2>4, <2>5 DEF Known
  <1>4. CASE EdgeStart \/ EdgeStop
    <2>1. Elements(up') = {} /\ UNCHANGED samples
      BY <1>0, <1>4, QueueElements DEF EdgeStart, EdgeStop
    <2> QED BY <1>1, <2>1
  <1>5. CASE NextRun \/ RenderNext \/ UNCHANGED vars
    <2>1. UNCHANGED <<up, samples>>
      BY <1>5 DEF NextRun, RenderNext, RenderStart, RenderStop, on_result, vars
    <2> QED BY <1>2, <2>1
  <1>6. ASSUME NEW l \in Lidar, PubStart(l) \/ PubStop(l) \/ PubDies(l) \/ Tick(l)
        PROVE  Known' \subseteq Known
    <2>1. UNCHANGED <<up, samples>>
      BY <1>6 DEF PubStart, PubStop, PubDies, Tick
    <2> QED BY <1>2, <2>1
  <1>7. ASSUME NEW l \in Lidar, publish_frame(l)
        PROVE  \/ Known' \subseteq Known
               \/ /\ publish_frame(l) /\ pub[l].run # NoRun
                  /\ Known' \subseteq Known \cup {CapturedFrame(l)}
                  /\ pub'[l].seq = pub[l].seq + 1
                  /\ pub'[l].run = pub[l].run
    <2> DEFINE m == [pub[l] EXCEPT !.due = FALSE]
    <2>1. UNCHANGED samples
      BY <1>7 DEF publish_frame
    <2>2. CASE UNCHANGED up
      BY <1>2, <2>1, <2>2
    <2>3. CASE /\ m.run # NoRun /\ pub' = [pub EXCEPT ![l] = Sent(m)]
               /\ up' \in Delivered(up, CapturedFrame(l), edge, EdgeDepth)
      <3>1. pub[l] \in PubType /\ pub \in [Lidar -> PubType]
        BY TypeParts
      <3>2. m \in PubType /\ m.run = pub[l].run /\ m.seq = pub[l].seq
        BY <3>1, PubUpdate, PubTickFields
      <3>3. pub'[l].seq = pub[l].seq + 1 /\ pub'[l].run = pub[l].run
        BY <2>3, <3>1, <3>2, PubSentFields
      <3>4. CapturedFrame(l) \in Frame
        BY <2>3, <3>2, CapturedFrameType
      <3>5. Elements(up') \subseteq Elements(up) \cup {CapturedFrame(l)}
        BY <1>0, <2>3, <3>4, DeliveredElements, PipelineAssumption
      <3>6. Known' = Elements(up') \cup {s.frame : s \in samples}
        BY <2>1 DEF Known, Elements
      <3>7. Known' \subseteq Known \cup {CapturedFrame(l)}
        BY <3>5, <3>6 DEF Known
      <3> QED BY <1>7, <2>3, <3>2, <3>3, <3>7
    <2> QED BY <1>7, <2>2, <2>3 DEF publish_frame
  <1> QED BY <1>3, <1>4, <1>5, <1>6, <1>7 DEF Next, PubNext, EdgeNext

LEMMA KnownFramesAfter == PipeTypeOK' => Known' \subseteq Frame
  <1> SUFFICES ASSUME PipeTypeOK' PROVE Known' \subseteq Frame
    OBVIOUS
  <1>1. Known' = Elements(up') \cup {s.frame : s \in samples'}
    BY DEF Known, Elements
  <1>2. Elements(up') \subseteq Frame
    BY QueueElements DEF PipeTypeOK
  <1>3. \A s \in samples' : s.frame \in Frame
    BY DEF PipeTypeOK
  <1> QED BY <1>1, <1>2, <1>3

LEMMA JoinInvStep ==
    ASSUME PipeTypeOK, PipeTypeOK', ~Rejoins, JoinInv, [Next]_vars
    PROVE  JoinInv'
  <1>0. /\ Known \subseteq Frame /\ Known' \subseteq Frame
        /\ \A f \in Frame : f.lidar \in Lidar
    BY KnownFrames, KnownFramesAfter DEF Frame
  <1>1. \A l \in Lidar :
            /\ \A f \in Frame : Behind(pub[l], f) => Behind(pub'[l], f)
            /\ pub'[l].run # NoRun => pub'[l].left < pub'[l].run
    <2> SUFFICES ASSUME NEW l \in Lidar
                 PROVE  /\ \A f \in Frame : Behind(pub[l], f) => Behind(pub'[l], f)
                        /\ pub'[l].run # NoRun => pub'[l].left < pub'[l].run
      OBVIOUS
    <2>1. CASE PubNext(l)
      BY <2>1, PubAhead
    <2>2. CASE pub'[l] = pub[l]
      BY <2>2 DEF JoinInv, LeftBefore
    <2>3. PubNext(l) \/ pub'[l] = pub[l]
      <3>1. CASE \E k \in Lidar : PubNext(k)
        <4>1. PICK k \in Lidar : PubNext(k)
          BY <3>1
        <4>2. \E n : pub' = [pub EXCEPT ![k] = n]
          BY <4>1 DEF PubNext, PubStart, PubStop, PubDies, Tick, publish_frame
        <4>3. k # l => pub'[l] = pub[l]
          BY <4>2, TypeParts
        <4> QED BY <4>1, <4>3
      <3>2. CASE NextRun \/ EdgeNext \/ RenderNext \/ UNCHANGED vars
        BY <3>2 DEF NextRun, EdgeNext, EdgeStart, EdgeStop, on_cloud, RenderNext,
                    RenderStart, RenderStop, on_result, vars
      <3> QED BY <3>1, <3>2 DEF Next
    <2> QED BY <2>1, <2>2, <2>3
  <1>2. LeftBefore'
    BY <1>1 DEF LeftBefore
  <1>3. \A f \in Known : Behind(pub'[f.lidar], f)
    BY <1>0, <1>1 DEF JoinInv, KnownBehind
  <1>4. CASE Known' \subseteq Known
    BY <1>2, <1>3, <1>4 DEF JoinInv, KnownBehind
  <1>5. ASSUME NEW l \in Lidar, pub[l].run # NoRun,
               Known' \subseteq Known \cup {CapturedFrame(l)},
               pub'[l].seq = pub[l].seq + 1, pub'[l].run = pub[l].run
        PROVE  JoinInv'
    <2> DEFINE c == CapturedFrame(l)
    <2>1. /\ c.lidar = l /\ c.trace = pub[l].run /\ c.seq = pub[l].seq
          /\ pub[l].seq \in Nat /\ pub[l].run \in Nat /\ pub[l].left \in Nat
      BY TypeParts, PubFields, PipelineAssumption DEF CapturedFrame
    <2>2. Behind(pub'[c.lidar], c)
      BY <1>5, <2>1 DEF Behind
    <2>3. KnownBehind'
      BY <1>3, <1>5, <2>2 DEF KnownBehind
    <2> QED BY <1>2, <2>3 DEF JoinInv
  <1> QED BY <1>4, <1>5, KnownStep

-----------------------------------------------------------------------------
(* Gaps.  Within one run of a publisher the seq advances with the captures, *)
(* those included whose frame could not be coded; so frames of one sensor   *)
(* and run are as far apart in seq as in captures.                          *)
Offset(f) == f.capture - f.seq

KnownAligned == \A f, g \in Known :
    f.lidar = g.lidar /\ f.trace = g.trace => Offset(f) = Offset(g)

PubAligned == \A f \in Known :
    f.trace = pub[f.lidar].run => clock[f.lidar] + 1 - pub[f.lidar].seq = Offset(f)

AlignInv == KnownAligned /\ PubAligned

(* Each capture takes a seq, also one that cannot be coded or has no place  *)
(* at the reader.                                                           *)
LEMMA PublishTogether ==
    ASSUME PipeTypeOK, NEW l \in Lidar, publish_frame(l)
    PROVE  /\ pub'[l].run = pub[l].run
           /\ \/ pub'[l].seq = pub[l].seq /\ clock'[l] = clock[l]
              \/ pub'[l].seq = pub[l].seq + 1 /\ clock'[l] = clock[l] + 1
  <1> DEFINE n == pub[l]
             m == [pub[l] EXCEPT !.due = FALSE]
  <1>0. n \in PubType /\ pub \in [Lidar -> PubType] /\ clock \in [Lidar -> 0..MaxCaptures]
    BY TypeParts
  <1>1. m \in PubType /\ m.run = n.run /\ m.seq = n.seq
    BY <1>0, PubUpdate, PubTickFields
  <1>2. \/ pub'[l] = m /\ clock'[l] = clock[l]
        \/ pub'[l] \in {NotSent(m), Sent(m)} /\ clock'[l] = clock[l] + 1
    BY <1>0 DEF publish_frame
  <1>3. CASE pub'[l] = m /\ clock'[l] = clock[l]
    BY <1>1, <1>3
  <1>4. CASE pub'[l] \in {NotSent(m), Sent(m)} /\ clock'[l] = clock[l] + 1
    BY <1>1, <1>4, PubSentFields
  <1> QED BY <1>2, <1>3, <1>4

(* A publisher keeps the distance of its seq and its captures while it has  *)
(* a run, and no frame is known of a run it starts.                         *)
LEMMA PubKeepsOffset ==
    ASSUME PipeTypeOK, ~Rejoins, JoinInv, NEW l \in Lidar, PubNext(l)
    PROVE  \/ /\ pub'[l].run = pub[l].run
              /\ clock'[l] - pub'[l].seq = clock[l] - pub[l].seq
           \/ pub'[l].run = NoRun
           \/ \A f \in Known : f.lidar = l => f.trace # pub'[l].run
  <1> DEFINE n == pub[l]
  <1>0. /\ active \in Nat /\ n \in PubType /\ pub \in [Lidar -> PubType]
        /\ n.run \in 0..active /\ n.left \in 0..active /\ n.seq \in Nat
        /\ clock \in [Lidar -> 0..MaxCaptures] /\ clock[l] \in Nat
    BY TypeParts, PubFields, PipelineAssumption
  <1>2. CASE PubStart(l)
    <2>1. /\ active \notin {NoRun, n.run, n.left} /\ UNCHANGED clock
          /\ pub'[l] \in {PubStarted(n), PubRefused(n), PubUnopened(n),
                          [PubStarted(n) EXCEPT !.timer = FALSE],
                          [IdlePub EXCEPT !.left = active]}
      BY <1>0, <1>2 DEF PubStart, MayJoin
    <2>2. CASE pub'[l] \in {PubStarted(n), [PubStarted(n) EXCEPT !.timer = FALSE]}
      <3>1. pub'[l].run = active
        BY <1>0, <2>2, PubStartedFields
      <3>2. ASSUME NEW f \in Known, f.lidar = l PROVE f.trace # active
        <4>1. Behind(n, f)
          BY <3>2 DEF JoinInv, KnownBehind
        <4>2. n.run # NoRun => n.left < n.run
          BY DEF JoinInv, LeftBefore
        <4>3. f.trace \in Nat
          BY KnownFrames, PipelineAssumption DEF Frame, Run
        <4> QED BY <1>0, <2>1, <4>1, <4>2, <4>3 DEF Behind, NoRun
      <3> QED BY <3>1, <3>2
    <2>3. CASE pub'[l] \in {PubRefused(n), PubUnopened(n)}
      <3>1. PubRefused(n).run = NoRun /\ PubUnopened(n).run = NoRun
        BY <1>0, PubRefusedFields, PubUnopenedFields
      <3>2. pub'[l].run = NoRun
        BY <2>3, <3>1
      <3> QED BY <3>2
    <2>4. CASE pub'[l] = [IdlePub EXCEPT !.left = active]
      BY <2>4, PubDiedFields
    <2> QED BY <2>1, <2>2, <2>3, <2>4
  <1>3. CASE PubStop(l)
    <2>1. pub'[l] = PubStopped(n)
      BY <1>0, <1>3 DEF PubStop
    <2> QED BY <1>0, <2>1, PubStoppedFields
  <1>4. CASE PubDies(l)
    <2>1. pub'[l] = [IdlePub EXCEPT !.left = n.run]
      BY <1>0, <1>4 DEF PubDies
    <2> QED BY <2>1, PubDiedFields
  <1>5. CASE Tick(l)
    <2>1. pub'[l] = [n EXCEPT !.due = TRUE] /\ UNCHANGED clock
      BY <1>0, <1>5 DEF Tick
    <2> QED BY <1>0, <2>1, PubTickFields
  <1>6. CASE publish_frame(l)
    BY <1>0, <1>6, PublishTogether
  <1> QED BY <1>2, <1>3, <1>4, <1>5, <1>6 DEF PubNext

LEMMA AlignInvStep ==
    ASSUME PipeTypeOK, PipeTypeOK', ~Rejoins, JoinInv, AlignInv, [Next]_vars
    PROVE  AlignInv'
  <1>0. /\ Known \subseteq Frame /\ Known' \subseteq Frame
        /\ \A f \in Frame : /\ f.lidar \in Lidar /\ f.trace \in Nat \ {0}
                            /\ f.capture \in Nat /\ f.seq \in Nat
    BY KnownFrames, KnownFramesAfter, PipelineAssumption DEF Frame, Run
  <1>1. \A l \in Lidar : pub[l].seq \in Nat /\ clock[l] \in Nat
    BY TypeParts, PubFields, PipelineAssumption
  <1>2. \A l \in Lidar : pub'[l].seq \in Nat /\ clock'[l] \in Nat
    BY PipelineAssumption DEF PipeTypeOK
  <1>3. ASSUME NEW f \in Known, f.trace = pub'[f.lidar].run
        PROVE  clock'[f.lidar] + 1 - pub'[f.lidar].seq = Offset(f)
    <2> DEFINE l == f.lidar
    <2>0. l \in Lidar /\ f.trace # NoRun
      BY <1>0 DEF NoRun
    <2>1. \/ /\ pub'[l].run = pub[l].run
             /\ clock'[l] - pub'[l].seq = clock[l] - pub[l].seq
          \/ pub'[l].run = NoRun
          \/ \A g \in Known : g.lidar = l => g.trace # pub'[l].run
      <3>1. CASE PubNext(l)
        BY <2>0, <3>1, PubKeepsOffset
      <3>2. CASE \E k \in Lidar \ {l} : PubNext(k)
        <4>1. PICK k \in Lidar \ {l} : PubNext(k)
          BY <3>2
        <4>2. /\ \E n : pub' = [pub EXCEPT ![k] = n]
              /\ clock' = clock \/ clock' = [clock EXCEPT ![k] = @ + 1]
          BY <4>1 DEF PubNext, PubStart, PubStop, PubDies, Tick, publish_frame
        <4> HIDE DEF l
        <4>3. pub'[l] = pub[l] /\ clock'[l] = clock[l]
          BY <2>0, <4>2, TypeParts
        <4> QED BY <4>3
      <3>3. CASE NextRun \/ EdgeNext \/ RenderNext \/ UNCHANGED vars
        BY <3>3 DEF NextRun, EdgeNext, EdgeStart, EdgeStop, on_cloud, RenderNext,
                    RenderStart, RenderStop, on_result, vars
      <3> QED BY <3>1, <3>2, <3>3 DEF Next
    <2>2. f.trace = pub[l].run /\ clock'[l] - pub'[l].seq = clock[l] - pub[l].seq
      BY <1>3, <2>0, <2>1
    <2>3. clock[l] + 1 - pub[l].seq = Offset(f)
      BY <2>2 DEF AlignInv, PubAligned
    <2> HIDE DEF l
    <2>4. clock'[l] + 1 - pub'[l].seq = Offset(f)
      BY <1>1, <1>2, <2>0, <2>2, <2>3
    <2> QED BY <2>4 DEF l
  <1>4. CASE Known' \subseteq Known
    BY <1>3, <1>4 DEF AlignInv, KnownAligned, PubAligned
  <1>5. ASSUME NEW l \in Lidar, publish_frame(l), pub[l].run # NoRun,
               Known' \subseteq Known \cup {CapturedFrame(l)},
               pub'[l].seq = pub[l].seq + 1, pub'[l].run = pub[l].run
        PROVE  AlignInv'
    <2> DEFINE c == CapturedFrame(l)
    <2>1. /\ c.lidar = l /\ c.trace = pub[l].run /\ c.seq = pub[l].seq
          /\ c.capture = clock[l] + 1
      BY DEF CapturedFrame
    <2>0. Offset(c) = clock[l] + 1 - pub[l].seq
      BY <1>1, <2>1 DEF Offset
    <2>2. ASSUME NEW f \in Known, f.lidar = l, f.trace = c.trace
          PROVE  Offset(f) = Offset(c)
      <3>1. f.trace = pub[f.lidar].run
        BY <2>1, <2>2
      <3>2. clock[l] + 1 - pub[l].seq = Offset(f)
        BY <2>2, <3>1 DEF AlignInv, PubAligned
      <3> QED BY <2>0, <3>2
    <2>3. ASSUME c \in Known' PROVE clock'[l] + 1 - pub'[l].seq = Offset(c)
      <3>1. clock'[l] = clock[l] + 1
        BY <1>1, <1>5, PublishTogether
      <3> QED BY <1>1, <1>5, <2>0, <3>1
    <2> HIDE DEF c
    <2>4. KnownAligned'
      BY <1>5, <2>1, <2>2 DEF AlignInv, KnownAligned, c
    <2>5. PubAligned'
      BY <1>3, <1>5, <2>1, <2>3 DEF PubAligned, c
    <2> QED BY <2>4, <2>5 DEF AlignInv
  <1> QED BY <1>4, <1>5, KnownStep

(* The runs the edge recorded samples under: its own, and those it left.    *)
EdgeBehind ==
    /\ \A s \in samples : s.run = edge.run \/ s.run <= edge.left
    /\ edge.run # NoRun => edge.left < edge.run

(* M has no hole, and its last frame is the one the edge compares with.     *)
Unbroken(M, last) ==
    \/ M = {} /\ last = -1
    \/ \E h \in M : /\ h.seq = last
                    /\ \A f \in M : /\ f.capture <= h.capture
                                    /\ \A k \in f.capture..h.capture :
                                           \E g \in M : g.capture = k

OneSensor(M) == \A f, g \in M : f.lidar = g.lidar /\ f.trace = g.trace

GapInv ==
    edge.run # NoRun /\ edge.gaps = 0 /\ OneSensor(Measured)
        => Unbroken(Measured, edge.last)

LEMMA UnbrokenExtended ==
    ASSUME NEW M \in SUBSET Frame, NEW f \in Frame, NEW last,
           Unbroken(M, last), OneSensor(M \cup {f}),
           \A g \in M : g.lidar = f.lidar /\ g.trace = f.trace => Offset(g) = Offset(f),
           last = -1 \/ f.seq = last + 1
    PROVE  Unbroken(M \cup {f}, f.seq)
  <1>1. \A g \in M \cup {f} : g.capture \in Nat /\ g.seq \in Nat
    BY DEF Frame
  <1>2. CASE M = {}
    <2>1. \A k \in f.capture..f.capture : f.capture = k
      BY <1>1
    <2> QED BY <1>1, <1>2, <2>1 DEF Unbroken
  <1>3. CASE M # {}
    <2>1. PICK h \in M : /\ h.seq = last
                         /\ \A g \in M : /\ g.capture <= h.capture
                                         /\ \A k \in g.capture..h.capture :
                                                \E i \in M : i.capture = k
      BY <1>3 DEF Unbroken
    <2>2. Offset(h) = Offset(f) /\ f.seq = h.seq + 1
      BY <1>1, <2>1 DEF OneSensor
    <2>3. f.capture = h.capture + 1
      BY <1>1, <2>2 DEF Offset
    <2>4. ASSUME NEW g \in M \cup {f}
          PROVE  /\ g.capture <= f.capture
                 /\ \A k \in g.capture..f.capture : \E i \in M \cup {f} : i.capture = k
      <3>0. \A i \in M : i.capture <= h.capture
        BY <2>1
      <3>1. g = f \/ (g \in M /\ g.capture <= h.capture)
        BY <2>4, <3>0
      <3>2. ASSUME NEW k \in g.capture..f.capture
            PROVE  \E i \in M \cup {f} : i.capture = k
        <4>1. k = f.capture \/ (g \in M /\ k \in g.capture..h.capture)
          BY <1>1, <2>3, <3>1, <3>2
        <4> QED BY <2>1, <4>1
      <3> QED BY <1>1, <2>3, <3>1, <3>2
    <2> QED BY <2>4 DEF Unbroken
  <1> QED BY <1>2, <1>3

LEMMA EdgeLeaves ==
    ASSUME edge \in EdgeType
    PROVE  EdgeStopped(edge).run = NoRun /\ EdgeStopped(edge).left = Left(edge)
  BY DEF EdgeStopped, EdgeType

LEMMA RecordedGaps ==
    ASSUME edge \in EdgeType, NEW f,
           NEW n \in {Recorded(f), [Recorded(f) EXCEPT !.decodeErrors = @ + 1],
                      [Recorded(f) EXCEPT !.resultErrors = @ + 1],
                      [Recorded(f) EXCEPT !.results = @ + 1]}
    PROVE  /\ n.run = edge.run /\ n.left = edge.left
           /\ n.last = f.seq /\ n.gaps = Gaps(edge, f)
  BY DEF Recorded, EdgeType

LEMMA EdgeLeft ==
    ASSUME PipeTypeOK, EdgeBehind
    PROVE  /\ active \in Nat /\ Left(edge) \in 0..active
           /\ \A s \in samples : s.run \in Nat \ {0} /\ s.run <= Left(edge)
           /\ active \notin {NoRun, edge.run, edge.left} => Left(edge) < active
  <1>1. /\ active \in Nat /\ edge.run \in 0..active /\ edge.left \in 0..active
    BY TypeParts, EdgeFields, PipelineAssumption
  <1>2. \A s \in samples : s.run \in 1..active
    BY TypeParts
  <1> QED BY <1>1, <1>2 DEF EdgeBehind, Left, NoRun

LEMMA GapInvStep ==
    ASSUME PipeInv, ~Rejoins, AlignInv, EdgeBehind, GapInv, [Next]_vars
    PROVE  EdgeBehind' /\ GapInv'
  <1>0. /\ PipeTypeOK /\ EdgeHeld /\ edge \in EdgeType /\ up \in Seq(Frame)
        /\ active \in Nat /\ edge.run \in 0..active /\ edge.left \in 0..active
        /\ edge.last \in Int /\ edge.gaps \in Nat
    BY TypeParts, EdgeFields, PipelineAssumption DEF PipeInv
  <1>1. ASSUME UNCHANGED <<edge, samples>> PROVE EdgeBehind' /\ GapInv'
    <2>1. Measured' = Measured
      BY <1>1 DEF Measured
    <2> QED BY <1>1, <2>1 DEF EdgeBehind, GapInv
  <1>2. CASE EdgeStart
    <2>1. /\ active \notin {NoRun, edge.run, edge.left} /\ UNCHANGED samples
          /\ edge' \in EdgeJoined \cup EdgeNotJoined
      BY <1>2, EdgeStartLeaves DEF EdgeStart, MayJoin
    <2>2. /\ Left(edge) \in 0..active /\ Left(edge) < active
          /\ \A s \in samples : s.run \in Nat \ {0} /\ s.run <= Left(edge)
      BY <1>0, <2>1, EdgeLeft
    <2>3. CASE edge' \in EdgeJoined
      <3>1. edge'.run = active /\ edge'.left = Left(edge) /\ edge'.last = -1
        BY <2>3, EdgeJoinedFields
      <3>2. \A s \in samples : s.run # active
        BY <1>0, <2>2
      <3>3. Measured' = {}
        BY <2>1, <3>1, <3>2 DEF Measured
      <3> QED BY <2>1, <2>2, <3>1, <3>3 DEF EdgeBehind, GapInv, Unbroken
    <2>4. CASE edge' \in EdgeNotJoined
      <3>1. edge'.run = NoRun /\ edge'.left \in {Left(edge), active}
        BY <1>0, <2>4, EdgeNotJoinedFields
      <3>2. \A s \in samples : s.run <= edge'.left
        BY <1>0, <2>2, <3>1
      <3> QED BY <2>1, <3>1, <3>2 DEF EdgeBehind, GapInv
    <2> QED BY <2>1, <2>3, <2>4
  <1>3. CASE EdgeStop
    <2>1. edge'.run = NoRun /\ edge'.left = Left(edge) /\ UNCHANGED samples
      BY <1>0, <1>3, EdgeLeaves DEF EdgeStop
    <2>2. \A s \in samples : s.run <= edge'.left
      BY <1>0, <2>1, EdgeLeft
    <2> QED BY <2>1, <2>2 DEF EdgeBehind, GapInv
  <1>4. CASE on_cloud
    <2>1. PICK f : f = Head(up)
      OBVIOUS
    <2>2. f \in Elements(up) /\ f \in Frame
      BY <1>0, <1>4, <2>1, QueueElements DEF on_cloud
    <2>3. /\ samples' = samples \cup {[run |-> edge.run, frame |-> f]}
          /\ edge' \in {Recorded(f), [Recorded(f) EXCEPT !.decodeErrors = @ + 1],
                        [Recorded(f) EXCEPT !.resultErrors = @ + 1],
                        [Recorded(f) EXCEPT !.results = @ + 1]}
      BY <1>4, <2>1 DEF on_cloud, process
    <2>4. /\ edge'.run = edge.run /\ edge'.left = edge.left
          /\ edge'.last = f.seq /\ edge'.gaps = Gaps(edge, f)
      BY <1>0, <2>3, RecordedGaps
    <2>5. EdgeBehind'
      BY <2>3, <2>4 DEF EdgeBehind
    <2>6. Measured' = Measured \cup {f}
      <3>1. {t \in samples' : t.run = edge.run}
                = {t \in samples : t.run = edge.run} \cup {[run |-> edge.run, frame |-> f]}
        BY <2>3
      <3>2. Measured' = {s.frame : s \in {t \in samples' : t.run = edge.run}}
        BY <2>4 DEF Measured
      <3>3. [run |-> edge.run, frame |-> f].frame = f
        OBVIOUS
      <3>4. \A T : {s.frame : s \in T \cup {[run |-> edge.run, frame |-> f]}}
                       = {s.frame : s \in T} \cup {f}
        BY <3>3
      <3> QED BY <3>1, <3>2, <3>4 DEF Measured
    <2>7. /\ Measured \subseteq Known /\ f \in Known /\ Known \subseteq Frame
      BY <1>0, <2>2, KnownFrames DEF Measured, Known
    <2>8. GapInv'
      <3> SUFFICES ASSUME edge.run # NoRun, Gaps(edge, f) = 0,
                          OneSensor(Measured \cup {f})
                   PROVE  Unbroken(Measured \cup {f}, f.seq)
        BY <2>4, <2>6 DEF GapInv
      <3>1. edge.gaps = 0 /\ (edge.last = -1 \/ f.seq = edge.last + 1)
        BY <1>0 DEF Gaps
      <3>2. OneSensor(Measured)
        BY DEF OneSensor
      <3>3. Unbroken(Measured, edge.last)
        BY <3>1, <3>2 DEF GapInv
      <3>4. \A g \in Measured : g.lidar = f.lidar /\ g.trace = f.trace
                                    => Offset(g) = Offset(f)
        BY <2>7 DEF AlignInv, KnownAligned
      <3> QED BY <2>2, <2>7, <3>1, <3>3, <3>4, UnbrokenExtended
    <2> QED BY <2>5, <2>8
  <1>5. CASE NextRun \/ RenderNext \/ (\E l \in Lidar : PubNext(l)) \/ UNCHANGED vars
    <2>1. UNCHANGED <<edge, samples>>
      BY <1>5 DEF NextRun, RenderNext, RenderStart, RenderStop, on_result,
                  PubNext, PubStart, PubStop, PubDies, Tick, publish_frame, vars
    <2> QED BY <1>1, <2>1
  <1> QED BY <1>2, <1>3, <1>4, <1>5 DEF Next, EdgeNext

(* One client and no gap counted: nothing was lost between the first frame  *)
(* the edge measured in its run and the last, wherever it could be lost.    *)
THEOREM NoGapMeansNoLoss == ~Rejoins => (Spec => []NoGapNoLoss)
  <1> SUFFICES ASSUME ~Rejoins PROVE Spec => []NoGapNoLoss
    OBVIOUS
  <1> DEFINE Inv == JoinInv /\ AlignInv /\ EdgeBehind /\ GapInv
  <1>1. Init => Inv
    <2> SUFFICES ASSUME Init PROVE Inv
      OBVIOUS
    <2>1. Known = {} /\ samples = {}
      BY DEF Init, Known, Elements
    <2>2. LeftBefore
      BY DEF Init, LeftBefore, IdlePub
    <2>3. edge.run = NoRun
      BY DEF Init, IdleEdge
    <2> QED BY <2>1, <2>2, <2>3
        DEF JoinInv, KnownBehind, AlignInv, KnownAligned,
            PubAligned, EdgeBehind, GapInv
  <1>2. PipeInv /\ PipeInv' /\ Inv /\ [Next]_vars => Inv'
    <2> SUFFICES ASSUME PipeInv, PipeInv', Inv, [Next]_vars PROVE Inv'
      OBVIOUS
    <2>1. PipeTypeOK /\ PipeTypeOK'
      BY DEF PipeInv
    <2>2. JoinInv' /\ AlignInv'
      BY <2>1, JoinInvStep, AlignInvStep
    <2> QED BY <2>2, GapInvStep
  <1>3. PipeInv /\ Inv => NoGapNoLoss
    <2> SUFFICES ASSUME PipeInv, GapInv, edge.run # NoRun, edge.gaps = 0,
                        OneSensor(Measured), NEW f \in Measured, NEW g \in Measured,
                        NEW k \in f.capture..g.capture
                 PROVE  \E h \in Measured : h.capture = k
      BY DEF NoGapNoLoss, OneSensor
    <2>1. Measured \subseteq Frame
      BY KnownFrames DEF PipeInv, Known, Measured
    <2>2. PICK h \in Measured : \A i \in Measured :
              /\ i.capture <= h.capture
              /\ \A j \in i.capture..h.capture : \E e \in Measured : e.capture = j
      BY DEF GapInv, Unbroken
    <2>3. f.capture \in Nat /\ g.capture \in Nat /\ h.capture \in Nat
      BY <2>1 DEF Frame
    <2>4. k \in f.capture..h.capture
      BY <2>2, <2>3
    <2> QED BY <2>2, <2>4
  <1> HIDE DEF Inv
  <1> QED BY <1>1, <1>2, <1>3, PipeInvHolds, PTL DEF Spec

-----------------------------------------------------------------------------
(* What a reader may rely on.  A result travels only after its frame was    *)
(* measured, a node's queue is emptied wherever its run changes, and a      *)
(* topic carries one codec: so what is drawn was measured, and no reader    *)
(* takes a frame of the codec it did not start for.                         *)
MeasuredFrames == {s.frame : s \in samples}

ResultsMeasured == Elements(down) \subseteq MeasuredFrames

Logged(log) == {log[i] : i \in 1..Len(log)}

ShownMeasured == \A l \in Lidar : \A k \in Logged(shown[l]) :
    \E f \in MeasuredFrames : f.lidar = l /\ f.capture = k

LEMMA LoggedAppend ==
    ASSUME NEW S, NEW log \in Seq(S), NEW k
    PROVE  Logged(Append(log, k)) = Logged(log) \cup {k}
  <1>1. /\ Len(Append(log, k)) = Len(log) + 1 /\ Append(log, k)[Len(log) + 1] = k
        /\ \A i \in 1..Len(log) : Append(log, k)[i] = log[i]
        /\ 1..(Len(log) + 1) = 1..Len(log) \cup {Len(log) + 1}
    OBVIOUS
  <1> QED BY <1>1 DEF Logged

OneCodec(n, q) == n.sub => \A f \in Elements(q) : Codec[f.trace] = Codec[n.run]

TopicsSeparate == OneCodec(edge, up) /\ OneCodec(render, down)

(* What a queue may gain, a reader that is subscribed can take.             *)
LEMMA DeliveredCodec ==
    ASSUME NEW S, NEW q \in Seq(S), NEW f \in S, NEW reader,
           NEW depth \in Nat \ {0}, NEW r \in Delivered(q, f, reader, depth),
           OneCodec(reader, q)
    PROVE  OneCodec(reader, r)
  <1>1. CASE r = q
    BY <1>1
  <1>2. CASE reader.sub /\ Codec[reader.run] = Codec[f.trace]
    <2>1. Elements(r) \subseteq Elements(q) \cup {f}
      BY DeliveredElements
    <2> QED BY <1>2, <2>1 DEF OneCodec
  <1> QED BY <1>1, <1>2 DEF Delivered

LEMMA OneCodecKept ==
    ASSUME NEW n, NEW m, NEW q, NEW r, OneCodec(n, q),
           m.run = n.run, m.sub = n.sub, Elements(r) \subseteq Elements(q)
    PROVE  OneCodec(m, r)
  BY DEF OneCodec

LEMMA MeasuredOnCloud ==
    ASSUME PipeTypeOK, on_cloud
    PROVE  MeasuredFrames' = MeasuredFrames \cup {Head(up)}
  <1>1. samples' = samples \cup {[run |-> edge.run, frame |-> Head(up)]}
    BY DEF on_cloud, process
  <1>2. \A s \in samples' : s \in samples \/ s.frame = Head(up)
    BY <1>1
  <1>3. \A s \in samples : s \in samples'
    BY <1>1
  <1>4. \E s \in samples' : s.frame = Head(up)
    <2> DEFINE new == [run |-> edge.run, frame |-> Head(up)]
    <2>1. new \in samples' /\ new.frame = Head(up)
      BY <1>1
    <2> HIDE DEF new
    <2> QED BY <2>1
  <1>5. MeasuredFrames' = {s.frame : s \in samples'}
    BY DEF MeasuredFrames
  <1> QED BY <1>2, <1>3, <1>4, <1>5 DEF MeasuredFrames

(* A step other than on_cloud keeps the samples.                            *)
LEMMA MeasuredKept ==
    ASSUME [Next]_vars, ~on_cloud
    PROVE  UNCHANGED samples /\ MeasuredFrames' = MeasuredFrames
  <1>1. UNCHANGED samples
    BY DEF Next, NextRun, PubNext, PubStart, PubStop, PubDies, Tick, publish_frame,
           EdgeNext, EdgeStart, EdgeStop, RenderNext, RenderStart, RenderStop,
           on_result, vars
  <1> QED BY <1>1 DEF MeasuredFrames

LEMMA DrawnStep ==
    ASSUME PipeTypeOK, ResultsMeasured, ShownMeasured, [Next]_vars
    PROVE  ResultsMeasured' /\ ShownMeasured'
  <1>0. up \in Seq(Frame) /\ down \in Seq(Frame)
    BY TypeParts
  <1>1. CASE on_cloud
    <2>1. MeasuredFrames' = MeasuredFrames \cup {Head(up)} /\ UNCHANGED shown
      BY <1>1, MeasuredOnCloud DEF on_cloud
    <2>2. Head(up) \in Frame
      BY <1>0, <1>1, HeadTailProperties DEF on_cloud
    <2>3. down' = down \/ down' \in Delivered(down, Head(up), render, RenderDepth)
      BY <1>1 DEF on_cloud, process
    <2>4. Elements(down') \subseteq Elements(down) \cup {Head(up)}
      BY <1>0, <2>2, <2>3, DeliveredElements, PipelineAssumption
    <2>5. Elements(down)' = Elements(down')
      BY DEF Elements
    <2>6. ResultsMeasured'
      BY <2>1, <2>4, <2>5 DEF ResultsMeasured
    <2>7. \A l : Logged(shown[l])' = Logged(shown[l])
      BY <2>1 DEF Logged
    <2>8. ShownMeasured'
      BY <2>1, <2>7 DEF ShownMeasured
    <2> QED BY <2>6, <2>8
  <1>2. CASE on_result
    <2> DEFINE f == Head(down)
    <2>1. f \in Elements(down) /\ Elements(Tail(down)) \subseteq Elements(down)
          /\ f \in Frame /\ down' = Tail(down)
      BY <1>0, <1>2, QueueElements, HeadTailProperties DEF on_result
    <2>2. MeasuredFrames' = MeasuredFrames
      BY <1>2 DEF on_result, MeasuredFrames
    <2>3. Elements(down)' = Elements(down')
      BY DEF Elements
    <2>4. ResultsMeasured'
      BY <2>1, <2>2, <2>3 DEF ResultsMeasured
    <2>5. shown' = shown \/ shown' = [shown EXCEPT ![f.lidar] = Append(@, f.capture)]
      BY <1>2 DEF on_result, draw_and_record
    <2>6. f \in MeasuredFrames /\ f.lidar \in Lidar /\ shown \in LogType
      BY <2>1, TypeParts DEF ResultsMeasured, Frame
    <2> HIDE DEF f
    <2>7. ASSUME NEW l \in Lidar, NEW k \in Logged(shown'[l])
          PROVE  k \in Logged(shown[l]) \/ (l = f.lidar /\ k = f.capture)
      <3>1. CASE shown'[l] = shown[l]
        BY <2>7, <3>1
      <3>2. CASE l = f.lidar /\ shown'[l] = Append(shown[l], f.capture)
        <4>1. shown[l] \in Seq(1..MaxCaptures)
          BY <2>6 DEF LogType
        <4> QED BY <2>7, <3>2, <4>1, LoggedAppend
      <3> QED BY <2>5, <2>6, <3>1, <3>2 DEF LogType
    <2>8. \A l : Logged(shown[l])' = Logged(shown'[l])
      BY DEF Logged
    <2>9. ShownMeasured'
      BY <2>2, <2>6, <2>7, <2>8 DEF ShownMeasured
    <2> QED BY <2>4, <2>9
  <1>3. CASE ~on_cloud /\ ~on_result
    <2>1. MeasuredFrames' = MeasuredFrames
      BY <1>3, MeasuredKept
    <2>2. UNCHANGED shown /\ (UNCHANGED down \/ down' = <<>>)
      BY <1>3 DEF Next, NextRun, PubNext, PubStart, PubStop, PubDies, Tick,
                  publish_frame, EdgeNext, EdgeStart, EdgeStop, RenderNext,
                  RenderStart, RenderStop, vars, logs
    <2>3. Elements(down') \subseteq Elements(down)
      BY <2>2 DEF Elements
    <2>4. Elements(down)' = Elements(down')
      BY DEF Elements
    <2> QED BY <2>1, <2>2, <2>3, <2>4 DEF ResultsMeasured, ShownMeasured, Logged
  <1> QED BY <1>1, <1>2, <1>3

LEMMA TopicsStep ==
    ASSUME PipeTypeOK, TopicsSeparate, [Next]_vars
    PROVE  TopicsSeparate'
  <1>0. /\ up \in Seq(Frame) /\ down \in Seq(Frame) /\ edge \in EdgeType
        /\ render \in RenderType
        /\ OneCodec(edge, up) /\ OneCodec(render, down)
    BY TypeParts DEF TopicsSeparate
  <1>1. \A n : OneCodec(n, <<>>)
    <2>1. Elements(<<>>) = {}
      BY DEF Elements
    <2> QED BY <2>1 DEF OneCodec
  <1>2. OneCodec(edge', up') /\ OneCodec(render', down') => TopicsSeparate'
    BY DEF TopicsSeparate, OneCodec, Elements
  <1>3. CASE on_cloud
    <2> DEFINE f == Head(up)
    <2>1. /\ f \in Frame /\ Elements(Tail(up)) \subseteq Elements(up)
          /\ up' = Tail(up) /\ UNCHANGED render
      BY <1>0, <1>3, QueueElements, HeadTailProperties DEF on_cloud
    <2>2. edge' \in {Recorded(f), [Recorded(f) EXCEPT !.decodeErrors = @ + 1],
                     [Recorded(f) EXCEPT !.resultErrors = @ + 1],
                     [Recorded(f) EXCEPT !.results = @ + 1]}
      BY <1>3 DEF on_cloud, process
    <2>3. edge'.run = edge.run /\ edge'.sub = edge.sub
      BY <1>0, <2>2, RecordedFields
    <2>4. OneCodec(edge', up')
      BY <1>0, <2>1, <2>3, OneCodecKept
    <2>5. down' = down \/ down' \in Delivered(down, f, render, RenderDepth)
      BY <1>3 DEF on_cloud, process
    <2>6. OneCodec(render, down')
      BY <1>0, <2>1, <2>5, DeliveredCodec, PipelineAssumption
    <2> QED BY <1>2, <2>1, <2>4, <2>6
  <1>4. CASE on_result
    <2>1. /\ Elements(Tail(down)) \subseteq Elements(down)
          /\ down' = Tail(down) /\ UNCHANGED <<edge, up>>
      BY <1>0, <1>4, QueueElements DEF on_result
    <2>2. render'.run = render.run /\ render'.sub = render.sub
      BY <1>0, <1>4 DEF on_result, draw_and_record, RenderType
    <2> QED BY <1>0, <1>2, <2>1, <2>2, OneCodecKept
  <1>5. CASE EdgeStart \/ EdgeStop
    <2>1. up' = <<>> /\ UNCHANGED <<render, down>>
      BY <1>5 DEF EdgeStart, EdgeStop
    <2> QED BY <1>0, <1>1, <1>2, <2>1
  <1>6. CASE RenderStart \/ RenderStop
    <2>1. down' = <<>> /\ UNCHANGED <<edge, up>>
      BY <1>6 DEF RenderStart, RenderStop
    <2> QED BY <1>0, <1>1, <1>2, <2>1
  <1>7. CASE NextRun \/ UNCHANGED vars
    <2>1. UNCHANGED <<edge, up, render, down>>
      BY <1>7 DEF NextRun, vars
    <2> QED BY <1>0, <1>2, <2>1
  <1>8. ASSUME NEW l \in Lidar, PubNext(l) PROVE TopicsSeparate'
    <2>1. UNCHANGED <<edge, render, down>>
      BY <1>8 DEF PubNext, PubStart, PubStop, PubDies, Tick, publish_frame
    <2>2. CASE UNCHANGED up
      BY <1>0, <1>2, <2>1, <2>2
    <2>3. CASE pub[l].run # NoRun /\ up' \in Delivered(up, CapturedFrame(l), edge, EdgeDepth)
      <3>1. CapturedFrame(l) \in Frame
        BY <2>3, CapturedFrameType
      <3>2. OneCodec(edge, up')
        BY <1>0, <2>3, <3>1, DeliveredCodec, PipelineAssumption
      <3> QED BY <1>0, <1>2, <2>1, <3>2
    <2>4. UNCHANGED up \/ (/\ [pub[l] EXCEPT !.due = FALSE].run # NoRun
                           /\ up' \in Delivered(up, CapturedFrame(l), edge, EdgeDepth))
      BY <1>8 DEF PubNext, PubStart, PubStop, PubDies, Tick, publish_frame
    <2>5. [pub[l] EXCEPT !.due = FALSE].run = pub[l].run
      BY TypeParts, PubTickFields
    <2> QED BY <2>2, <2>3, <2>4, <2>5
  <1> QED BY <1>3, <1>4, <1>5, <1>6, <1>7, <1>8 DEF Next, EdgeNext, RenderNext

(* A renderer draws no frame the edge has not measured, and holds none in   *)
(* its queue: the edge sends a result after it recorded the frame, whatever *)
(* is lost, restarted or stopped in between (edge_node.py, _process).       *)
THEOREM DrawnWasMeasured == Spec => [](ResultsMeasured /\ ShownMeasured)
  <1>1. Init => ResultsMeasured /\ ShownMeasured
    BY DEF Init, ResultsMeasured, ShownMeasured, Elements, Logged
  <1>2. PipeTypeOK /\ ResultsMeasured /\ ShownMeasured /\ [Next]_vars
            => ResultsMeasured' /\ ShownMeasured'
    BY DrawnStep
  <1> QED BY <1>1, <1>2, PipeTypes, PTL DEF Spec

(* No subscription ever holds a frame of the other codec: a start empties   *)
(* the queue, and a topic carries the codec of its name.  So on_cloud_gpcc  *)
(* is given no plain cloud and on_cloud no coded one, through every change  *)
(* of run at either end (edge_node.py and render_node.py, start_run).       *)
THEOREM TopicsSeparateCodecs == Spec => []TopicsSeparate
  <1>1. Init => TopicsSeparate
    BY DEF Init, TopicsSeparate, OneCodec, Elements
  <1>2. PipeTypeOK /\ TopicsSeparate /\ [Next]_vars => TopicsSeparate'
    BY TopicsStep
  <1> QED BY <1>1, <1>2, PipeTypes, PTL DEF Spec

-----------------------------------------------------------------------------
(* The pipeline implements FrameFlow.  A queue is ordered between two       *)
(* points of each sensor: the last capture its reader took, and the last    *)
(* its writer could have put in.                                            *)
Ordered(q, lo, hi) ==
    /\ \A i \in 1..Len(q) :
           lo[q[i].lidar] < q[i].capture /\ q[i].capture <= hi[q[i].lidar]
    /\ \A i, j \in 1..Len(q) :
           i < j /\ q[i].lidar = q[j].lidar => q[i].capture < q[j].capture

Stamps == [Lidar -> Nat]

AtMost(lo, hi) == \A l \in Lidar : lo[l] <= hi[l]

LEMMA FramesOfQueue ==
    ASSUME NEW q \in Seq(Frame)
    PROVE  \A i \in 1..Len(q) : q[i].lidar \in Lidar /\ q[i].capture \in Nat
  <1>1. \A i \in 1..Len(q) : q[i] \in Frame
    OBVIOUS
  <1>2. \A f \in Frame : f.lidar \in Lidar /\ f.capture \in Nat
    BY DEF Frame
  <1> QED BY <1>1, <1>2

LEMMA OrderedWider ==
    ASSUME NEW q \in Seq(Frame), NEW lo \in Stamps, NEW hi \in Stamps,
           NEW hi2 \in Stamps, AtMost(hi, hi2), Ordered(q, lo, hi)
    PROVE  Ordered(q, lo, hi2)
  <1>1. \A i \in 1..Len(q) : q[i].lidar \in Lidar /\ q[i].capture \in Nat
    BY FramesOfQueue
  <1>2. \A l \in Lidar : hi[l] \in Nat /\ hi2[l] \in Nat
    BY DEF Stamps
  <1> QED BY <1>1, <1>2 DEF Ordered, AtMost

LEMMA OrderedHead ==
    ASSUME NEW q \in Seq(Frame), NEW lo \in Stamps, NEW hi \in Stamps,
           Ordered(q, lo, hi), q # <<>>
    PROVE  /\ lo[Head(q).lidar] < Head(q).capture
           /\ Head(q).capture <= hi[Head(q).lidar]
           /\ Ordered(Tail(q), lo, hi)
           /\ Ordered(Tail(q), [lo EXCEPT ![Head(q).lidar] = Head(q).capture], hi)
  <1>1. /\ Len(q) \in Nat /\ Len(q) >= 1 /\ Head(q) = q[1]
        /\ Len(Tail(q)) = Len(q) - 1
        /\ \A i \in 1..Len(Tail(q)) : Tail(q)[i] = q[i + 1]
    OBVIOUS
  <1>2. \A i \in 1..Len(q) : q[i].lidar \in Lidar /\ q[i].capture \in Nat
    BY FramesOfQueue
  <1>3. lo[q[1].lidar] < q[1].capture /\ q[1].capture <= hi[q[1].lidar]
    BY <1>1 DEF Ordered
  <1>4. \A i \in 1..Len(Tail(q)) :
            /\ i + 1 \in 1..Len(q)
            /\ lo[Tail(q)[i].lidar] < Tail(q)[i].capture
            /\ Tail(q)[i].capture <= hi[Tail(q)[i].lidar]
            /\ Tail(q)[i].lidar = q[1].lidar => q[1].capture < Tail(q)[i].capture
    BY <1>1 DEF Ordered
  <1>5. \A i, j \in 1..Len(Tail(q)) :
            i < j /\ Tail(q)[i].lidar = Tail(q)[j].lidar
            => Tail(q)[i].capture < Tail(q)[j].capture
    <2> SUFFICES ASSUME NEW i \in 1..Len(Tail(q)), NEW j \in 1..Len(Tail(q)),
                        i < j, Tail(q)[i].lidar = Tail(q)[j].lidar
                 PROVE  Tail(q)[i].capture < Tail(q)[j].capture
      OBVIOUS
    <2>1. /\ i + 1 \in 1..Len(q) /\ j + 1 \in 1..Len(q) /\ i + 1 < j + 1
          /\ Tail(q)[i] = q[i + 1] /\ Tail(q)[j] = q[j + 1]
      BY <1>1
    <2> QED BY <2>1 DEF Ordered
  <1>6. Ordered(Tail(q), lo, hi)
    BY <1>4, <1>5 DEF Ordered
  <1>7. \A l \in Lidar : [lo EXCEPT ![q[1].lidar] = q[1].capture][l]
                             = IF l = q[1].lidar THEN q[1].capture ELSE lo[l]
    BY DEF Stamps
  <1>8. \A i \in 1..Len(Tail(q)) : Tail(q)[i].lidar \in Lidar
    BY <1>1, <1>2, <1>4
  <1>9. Ordered(Tail(q), [lo EXCEPT ![q[1].lidar] = q[1].capture], hi)
    BY <1>4, <1>5, <1>7, <1>8 DEF Ordered
  <1> QED BY <1>1, <1>3, <1>6, <1>9

LEMMA OrderedAppend ==
    ASSUME NEW q \in Seq(Frame), NEW f \in Frame, NEW lo \in Stamps,
           NEW hi \in Stamps, NEW hi2 \in Stamps, Ordered(q, lo, hi),
           AtMost(lo, hi), AtMost(hi, hi2),
           hi[f.lidar] < f.capture, f.capture <= hi2[f.lidar]
    PROVE  Ordered(Append(q, f), lo, hi2)
  <1> DEFINE r == Append(q, f)
  <1>1. /\ Len(q) \in Nat /\ Len(r) = Len(q) + 1 /\ r[Len(q) + 1] = f
        /\ \A i \in 1..Len(q) : r[i] = q[i]
    OBVIOUS
  <1>2. \A i \in 1..Len(q) : q[i].lidar \in Lidar /\ q[i].capture \in Nat
    BY FramesOfQueue
  <1>3. f.lidar \in Lidar /\ f.capture \in Nat
    BY DEF Frame
  <1>4. \A l \in Lidar : lo[l] \in Nat /\ hi[l] \in Nat /\ hi2[l] \in Nat
    BY DEF Stamps
  <1>5. \A i \in 1..Len(q) : /\ lo[q[i].lidar] < q[i].capture
                             /\ q[i].capture <= hi[q[i].lidar]
                             /\ q[i].capture <= hi2[q[i].lidar]
    BY <1>2, <1>4 DEF Ordered, AtMost
  <1>6. lo[f.lidar] < f.capture
    BY <1>3, <1>4 DEF AtMost
  <1>7. \A i \in 1..Len(r) : i \in 1..Len(q) \/ i = Len(q) + 1
    BY <1>1
  <1> HIDE DEF r
  <1>8. \A i \in 1..Len(r) : lo[r[i].lidar] < r[i].capture /\ r[i].capture <= hi2[r[i].lidar]
    BY <1>1, <1>5, <1>6, <1>7
  <1>9. ASSUME NEW i \in 1..Len(r), NEW j \in 1..Len(r), i < j, r[i].lidar = r[j].lidar
        PROVE  r[i].capture < r[j].capture
    <2>1. i \in 1..Len(q)
      BY <1>1, <1>7, <1>9
    <2>2. CASE j \in 1..Len(q)
      BY <1>1, <1>9, <2>1, <2>2 DEF Ordered
    <2>3. CASE j = Len(q) + 1
      BY <1>1, <1>2, <1>3, <1>4, <1>5, <1>9, <2>1, <2>3, SMTT(30)
    <2> QED BY <1>7, <2>2, <2>3
  <1> QED BY <1>8, <1>9 DEF Ordered, r

LEMMA OrderedDelivered ==
    ASSUME NEW q \in Seq(Frame), NEW f \in Frame, NEW reader,
           NEW depth \in Nat \ {0}, NEW r \in Delivered(q, f, reader, depth),
           NEW lo \in Stamps, NEW hi \in Stamps, NEW hi2 \in Stamps,
           Ordered(q, lo, hi), AtMost(lo, hi), AtMost(hi, hi2),
           hi[f.lidar] < f.capture, f.capture <= hi2[f.lidar]
    PROVE  Ordered(r, lo, hi2)
  <1>1. CASE r = q
    BY <1>1, OrderedWider
  <1>2. CASE r = KeepLast(q, f, depth) /\ Len(q) < depth
    BY <1>2, OrderedAppend DEF KeepLast
  <1>3. CASE r = KeepLast(q, f, depth) /\ ~(Len(q) < depth)
    <2>1. q # <<>>
      BY <1>3
    <2>2. Tail(q) \in Seq(Frame) /\ Ordered(Tail(q), lo, hi)
      BY <2>1, OrderedHead, HeadTailProperties
    <2> QED BY <1>3, <2>2, OrderedAppend DEF KeepLast
  <1> QED BY <1>1, <1>2, <1>3 DEF Delivered

(* The last stamp of a log, 0 before the first; where every entry followed  *)
(* those before it, it bounds them all.                                     *)
Latest(log) == IF log = <<>> THEN 0 ELSE log[Len(log)]

Topped(log) == \A k \in Logged(log) : k <= Latest(log)

Last == [l \in Lidar |-> Latest(measured[l])]
LastShown == [l \in Lidar |-> Latest(shown[l])]

LEMMA LatestAfter ==
    ASSUME NEW log \in Seq(Nat), Topped(log), NEW k \in Nat, Latest(log) < k
    PROVE  /\ Latest(log) \in Nat
           /\ Latest(Append(log, k)) = k /\ Topped(Append(log, k))
           /\ Flow!Follows(k, log)
  <1>1. Logged(log) \subseteq Nat /\ Logged(Append(log, k)) = Logged(log) \cup {k}
    BY LoggedAppend DEF Logged
  <1>2. Latest(log) \in Nat
    BY DEF Latest
  <1>3. Append(log, k) # <<>> /\ Append(log, k)[Len(Append(log, k))] = k
    OBVIOUS
  <1>4. Latest(Append(log, k)) = k
    BY <1>3 DEF Latest
  <1>5. \A j \in Logged(log) : j < k
    BY <1>1, <1>2 DEF Topped
  <1>6. Topped(Append(log, k))
    BY <1>1, <1>4, <1>5 DEF Topped
  <1>7. Flow!Follows(k, log)
    BY <1>5 DEF Flow!Follows, Flow!Members, Logged
  <1> QED BY <1>2, <1>4, <1>6, <1>7

(* A result in the queue was measured.                                      *)
ResultsLogged == \A f \in Elements(down) : f.capture \in Logged(measured[f.lidar])

FlowInv ==
    /\ \A l \in Lidar : Topped(measured[l]) /\ Topped(shown[l])
    /\ Ordered(up, Last, clock) /\ Ordered(down, LastShown, Last)
    /\ AtMost(Last, clock) /\ AtMost(LastShown, Last)
    /\ ResultsLogged

LEMMA LogStamps ==
    ASSUME NEW log \in LogType
    PROVE  /\ log \in [Lidar -> Seq(Nat)]
           /\ [l \in Lidar |-> Latest(log[l])] \in Stamps
  <1>1. ASSUME NEW l \in Lidar PROVE log[l] \in Seq(Nat) /\ Latest(log[l]) \in Nat
    <2>1. log[l] \in Seq(1..MaxCaptures) /\ 1..MaxCaptures \subseteq Nat
      BY PipelineAssumption DEF LogType
    <2>2. log[l] \in Seq(Nat)
      BY <2>1, SeqSubset
    <2> QED BY <2>2 DEF Latest
  <1> QED BY <1>1 DEF Stamps, LogType

LEMMA FlowStamps ==
    ASSUME PipeTypeOK
    PROVE  /\ Last \in Stamps /\ clock \in Stamps /\ LastShown \in Stamps
           /\ measured \in [Lidar -> Seq(Nat)] /\ shown \in [Lidar -> Seq(Nat)]
           /\ up \in Seq(Frame) /\ down \in Seq(Frame)
  <1>1. clock \in Stamps
    <2>1. 0..MaxCaptures \subseteq Nat
      BY PipelineAssumption
    <2> QED BY <2>1, TypeParts DEF Stamps
  <1>2. measured \in LogType /\ shown \in LogType
    BY TypeParts
  <1> QED BY <1>1, <1>2, LogStamps, TypeParts DEF Last, LastShown

(* What FlowInv says after a step, one conjunct at a time.                  *)
LEMMA FlowInvAfter ==
    ASSUME NEW last, last = Last', NEW lastShown, lastShown = LastShown',
           \A l \in Lidar : Topped(measured'[l]) /\ Topped(shown'[l]),
           Ordered(up', last, clock'), Ordered(down', lastShown, last),
           AtMost(last, clock'), AtMost(lastShown, last),
           \A f \in Elements(down') : f.capture \in Logged(measured'[f.lidar])
    PROVE  FlowInv'
  BY DEF FlowInv, ResultsLogged, Ordered, AtMost, Topped, Latest, Logged, Elements

(* Nothing measured or captured: the rest of the order is what is left.     *)
LEMMA FlowKept ==
    ASSUME PipeTypeOK, FlowInv, UNCHANGED <<clock, logs>>,
           up' = up \/ up' = <<>>, down' = down \/ down' = <<>>
    PROVE  FlowInv' /\ UNCHANGED Flow!vars
  <1>1. Last' = Last /\ LastShown' = LastShown /\ UNCHANGED <<measured, shown>>
    BY DEF Last, LastShown, logs
  <1>2. \A lo, hi : Ordered(<<>>, lo, hi)
    BY DEF Ordered
  <1>3. Elements(down') \subseteq Elements(down)
    BY DEF Elements
  <1>4. Ordered(up', Last, clock) /\ Ordered(down', LastShown, Last)
    BY <1>2 DEF FlowInv
  <1>5. FlowInv'
    BY <1>1, <1>3, <1>4, FlowInvAfter DEF FlowInv, ResultsLogged
  <1> QED BY <1>1, <1>5 DEF Flow!vars

LEMMA FlowPublish ==
    ASSUME PipeTypeOK, PipeTypeOK', FlowInv, NEW l \in Lidar, publish_frame(l)
    PROVE  FlowInv' /\ [Flow!Next]_(Flow!vars)
  <1>0. UNCHANGED <<logs, measured, shown, down>>
    BY DEF publish_frame, logs
  <1>1. CASE UNCHANGED <<clock, up>>
    BY <1>0, <1>1, FlowKept
  <1>2. CASE /\ clock' = [clock EXCEPT ![l] = @ + 1]
             /\ up' \in {up} \cup Delivered(up, CapturedFrame(l), edge, EdgeDepth)
             /\ up' # up => pub[l].run # NoRun
    <2>1. Last \in Stamps /\ clock \in Stamps /\ up \in Seq(Frame)
      BY FlowStamps
    <2>2. clock' \in Stamps /\ AtMost(clock, clock')
      BY <1>2, <2>1 DEF Stamps, AtMost
    <2>3. Last' = Last /\ LastShown' = LastShown
      BY <1>0 DEF Last, LastShown
    <2>4. Ordered(up', Last, clock')
      <3>1. CASE up' = up
        BY <2>1, <2>2, <3>1, OrderedWider DEF FlowInv
      <3>2. CASE up' # up
        <4>1. /\ CapturedFrame(l) \in Frame
              /\ CapturedFrame(l).capture = clock[l] + 1
              /\ CapturedFrame(l).lidar = l
          BY <1>2, <3>2, CapturedFrameType DEF CapturedFrame
        <4>2. clock[l] < clock[l] + 1 /\ clock'[l] = clock[l] + 1
          BY <1>2, <2>1 DEF Stamps
        <4>3. up' \in Delivered(up, CapturedFrame(l), edge, EdgeDepth)
          BY <1>2, <3>2
        <4>4. Ordered(up, Last, clock) /\ AtMost(Last, clock) /\ EdgeDepth \in Nat \ {0}
          BY PipelineAssumption DEF FlowInv
        <4>5. clock[l] < CapturedFrame(l).capture /\ CapturedFrame(l).capture <= clock'[l]
          BY <2>1, <4>1, <4>2 DEF Stamps
        <4> HIDE DEF CapturedFrame
        <4> QED BY <2>1, <2>2, <4>1, <4>3, <4>4, <4>5, OrderedDelivered
      <3> QED BY <3>1, <3>2
    <2>5. AtMost(Last, clock')
      BY <2>1, <2>2 DEF FlowInv, AtMost, Stamps
    <2>6. FlowInv'
      BY <1>0, <2>3, <2>4, <2>5, FlowInvAfter DEF FlowInv, ResultsLogged
    <2>7. Flow!Capture(l)
      BY <1>0, <1>2 DEF Flow!Capture
    <2> QED BY <2>6, <2>7 DEF Flow!Next
  <1> QED
    <2> DEFINE m == [pub[l] EXCEPT !.due = FALSE]
    <2>1. m.run = pub[l].run
      BY TypeParts, PubTickFields
    <2> QED BY <1>1, <1>2, <2>1 DEF publish_frame

LEMMA FlowMeasure ==
    ASSUME PipeTypeOK, FlowInv, on_cloud
    PROVE  FlowInv' /\ [Flow!Next]_(Flow!vars)
  <1> DEFINE f == Head(up)
             l == f.lidar
  <1>0. /\ UNCHANGED <<clock, shown>> /\ up # <<>> /\ up' = Tail(up)
        /\ process(f)
    BY DEF on_cloud
  <1>1. /\ Last \in Stamps /\ clock \in Stamps /\ LastShown \in Stamps
        /\ measured \in [Lidar -> Seq(Nat)] /\ up \in Seq(Frame) /\ down \in Seq(Frame)
    BY FlowStamps
  <1>2. f \in Frame
    BY <1>0, <1>1, HeadTailProperties
  <1>3. l \in Lidar /\ f.capture \in Nat
    BY <1>2 DEF Frame
  <1>4. /\ Last[l] < f.capture /\ f.capture <= clock[l]
        /\ Ordered(Tail(up), [Last EXCEPT ![l] = f.capture], clock)
    BY <1>0, <1>1, OrderedHead DEF FlowInv
  <1> HIDE DEF f
  <1>5. measured' = [measured EXCEPT ![l] = Append(@, f.capture)]
    BY <1>0 DEF process
  <1>6. /\ Last' = [Last EXCEPT ![l] = f.capture]
        /\ \A k \in Lidar : Topped(measured'[k])
        /\ Flow!Follows(f.capture, measured[l])
    <2>1. Latest(measured[l]) < f.capture
      BY <1>3, <1>4 DEF Last
    <2>2. Last' = [k \in Lidar |-> Latest(measured'[k])]
      BY DEF Last, Latest
    <2>3. /\ Latest(Append(measured[l], f.capture)) = f.capture
          /\ Topped(Append(measured[l], f.capture))
          /\ Flow!Follows(f.capture, measured[l])
      <3>1. measured[l] \in Seq(Nat) /\ Topped(measured[l])
        BY <1>1, <1>3 DEF FlowInv
      <3> HIDE DEF l
      <3> QED BY <1>3, <2>1, <3>1, LatestAfter
    <2>4. /\ measured'[l] = Append(measured[l], f.capture)
          /\ \A k \in Lidar : k # l => measured'[k] = measured[k]
      BY <1>1, <1>3, <1>5
    <2>5. \A k \in Lidar : Topped(measured'[k])
      BY <2>3, <2>4 DEF FlowInv
    <2>6. \A k \in Lidar : Latest(measured'[k]) = [Last EXCEPT ![l] = f.capture][k]
      BY <1>3, <2>3, <2>4 DEF Last
    <2>7. Last' = [Last EXCEPT ![l] = f.capture]
      BY <2>2, <2>6 DEF Last
    <2> QED BY <2>3, <2>5, <2>7
  <1>7. PICK last : last = Last'
    OBVIOUS
  <1>8. /\ last \in Stamps /\ AtMost(Last, last) /\ AtMost(last, clock)
        /\ last[l] = f.capture
    BY <1>1, <1>3, <1>4, <1>6, <1>7 DEF Stamps, AtMost, FlowInv
  <1>9. down' = down \/ down' \in Delivered(down, f, render, RenderDepth)
    BY <1>0 DEF process
  <1>10. Ordered(down', LastShown, last)
    <2>1. CASE down' = down
      BY <1>1, <1>8, <2>1, OrderedWider DEF FlowInv
    <2>2. CASE down' \in Delivered(down, f, render, RenderDepth)
      BY <1>1, <1>2, <1>3, <1>4, <1>8, <2>2, OrderedDelivered, PipelineAssumption
      DEF FlowInv
    <2> QED BY <1>9, <2>1, <2>2
  <1>11. AtMost(LastShown, last)
    <2>1. AtMost(LastShown, Last)
      BY DEF FlowInv
    <2> SUFFICES ASSUME NEW i \in Lidar PROVE LastShown[i] <= last[i]
      BY DEF AtMost
    <2>2. LastShown[i] <= Last[i] /\ Last[i] <= last[i]
      BY <1>8, <2>1 DEF AtMost
    <2>3. LastShown[i] \in Nat /\ Last[i] \in Nat /\ last[i] \in Nat
      BY <1>1, <1>8 DEF Stamps
    <2> QED BY <2>2, <2>3
  <1>12. ASSUME NEW g \in Elements(down')
         PROVE  g.capture \in Logged(measured'[g.lidar])
    <2>1. Elements(down') \subseteq Elements(down) \cup {f}
      BY <1>1, <1>2, <1>9, DeliveredElements, PipelineAssumption
    <2>2. Logged(measured'[l]) = Logged(measured[l]) \cup {f.capture}
      BY <1>1, <1>3, <1>5, LoggedAppend
    <2>3. CASE g = f
      BY <2>2, <2>3
    <2>4. CASE g \in Elements(down)
      <3>1. g.capture \in Logged(measured[g.lidar])
        BY <2>4 DEF FlowInv, ResultsLogged
      <3>2. CASE g.lidar = l
        BY <2>2, <3>1, <3>2
      <3>3. CASE g.lidar # l
        BY <1>5, <3>1, <3>3
      <3> QED BY <3>2, <3>3
    <2> QED BY <2>1, <2>3, <2>4
  <1>13. LastShown' = LastShown
    BY <1>0 DEF LastShown
  <1>14. FlowInv'
    <2>1. \A k \in Lidar : Topped(shown'[k])
      BY <1>0 DEF FlowInv
    <2>2. Ordered(up', last, clock')
      BY <1>0, <1>4, <1>6, <1>7 DEF f
    <2> QED BY <1>0, <1>6, <1>7, <1>8, <1>10, <1>11, <1>12, <1>13, <2>1, <2>2, FlowInvAfter
  <1>15. Flow!Measure(l)
    <2>1. f.capture \in 1..clock[l]
      BY <1>1, <1>3, <1>4 DEF Stamps
    <2> QED BY <1>0, <1>5, <1>6, <2>1 DEF Flow!Measure
  <1> QED BY <1>3, <1>14, <1>15 DEF Flow!Next

LEMMA FlowShow ==
    ASSUME PipeTypeOK, FlowInv, on_result
    PROVE  FlowInv' /\ [Flow!Next]_(Flow!vars)
  <1> DEFINE f == Head(down)
             l == f.lidar
  <1>0. /\ UNCHANGED <<clock, measured, up>> /\ down # <<>> /\ down' = Tail(down)
        /\ draw_and_record(f)
    BY DEF on_result
  <1>1. /\ Last \in Stamps /\ clock \in Stamps /\ LastShown \in Stamps
        /\ shown \in [Lidar -> Seq(Nat)] /\ up \in Seq(Frame) /\ down \in Seq(Frame)
    BY FlowStamps
  <1>2. /\ f \in Frame /\ f \in Elements(down)
        /\ Elements(Tail(down)) \subseteq Elements(down)
    BY <1>0, <1>1, QueueElements, HeadTailProperties
  <1>3. l \in Lidar /\ f.capture \in Nat
    BY <1>2 DEF Frame
  <1>4. /\ LastShown[l] < f.capture /\ f.capture <= Last[l]
        /\ Ordered(Tail(down), LastShown, Last)
        /\ Ordered(Tail(down), [LastShown EXCEPT ![l] = f.capture], Last)
    BY <1>0, <1>1, OrderedHead DEF FlowInv
  <1>5. Last' = Last
    BY <1>0 DEF Last
  <1>6. /\ \A k \in Lidar : Topped(measured'[k])
        /\ \A g \in Elements(down') : g.capture \in Logged(measured'[g.lidar])
        /\ f.capture \in Logged(measured[l])
    BY <1>0, <1>2 DEF FlowInv, ResultsLogged
  <1>7. down' = Tail(down)
    BY <1>0
  <1> HIDE DEF f
  <1>8. CASE UNCHANGED shown
    <2>1. LastShown' = LastShown
      BY <1>8 DEF LastShown
    <2>2. \A k \in Lidar : Topped(shown'[k])
      BY <1>8 DEF FlowInv
    <2>3. FlowInv'
      BY <1>0, <1>4, <1>5, <1>6, <1>7, <2>1, <2>2, FlowInvAfter DEF FlowInv
    <2>4. UNCHANGED Flow!vars
      BY <1>0, <1>8 DEF Flow!vars
    <2> QED BY <2>3, <2>4
  <1>9. CASE shown' = [shown EXCEPT ![l] = Append(@, f.capture)]
    <2>1. /\ LastShown' = [LastShown EXCEPT ![l] = f.capture]
          /\ \A k \in Lidar : Topped(shown'[k])
          /\ Flow!Follows(f.capture, shown[l])
      <3>1. Latest(shown[l]) < f.capture
        BY <1>3, <1>4 DEF LastShown
      <3>2. LastShown' = [k \in Lidar |-> Latest(shown'[k])]
        BY DEF LastShown, Latest
      <3>3. /\ Latest(Append(shown[l], f.capture)) = f.capture
            /\ Topped(Append(shown[l], f.capture))
            /\ Flow!Follows(f.capture, shown[l])
        <4>1. shown[l] \in Seq(Nat) /\ Topped(shown[l])
          BY <1>1, <1>3 DEF FlowInv
        <4> HIDE DEF l
        <4> QED BY <1>3, <3>1, <4>1, LatestAfter
      <3>4. /\ shown'[l] = Append(shown[l], f.capture)
            /\ \A k \in Lidar : k # l => shown'[k] = shown[k]
        BY <1>1, <1>3, <1>9
      <3>5. \A k \in Lidar : Topped(shown'[k])
        BY <3>3, <3>4 DEF FlowInv
      <3>6. \A k \in Lidar : Latest(shown'[k]) = [LastShown EXCEPT ![l] = f.capture][k]
        BY <1>3, <3>3, <3>4 DEF LastShown
      <3>7. LastShown' = [LastShown EXCEPT ![l] = f.capture]
        BY <3>2, <3>6 DEF LastShown
      <3> QED BY <3>3, <3>5, <3>7
    <2>2. PICK last : last = LastShown'
      OBVIOUS
    <2>3. AtMost(last, Last)
      BY <1>1, <1>3, <1>4, <2>1, <2>2 DEF FlowInv, AtMost, Stamps
    <2>4. Ordered(down', last, Last)
      BY <1>4, <1>7, <2>1, <2>2
    <2>5. FlowInv'
      BY <1>0, <1>5, <1>6, <2>1, <2>2, <2>3, <2>4, FlowInvAfter DEF FlowInv
    <2>6. Flow!Show(l)
      BY <1>0, <1>6, <1>9, <2>1 DEF Flow!Show, Flow!Members, Logged
    <2> QED BY <1>3, <2>5, <2>6 DEF Flow!Next
  <1> QED BY <1>0, <1>8, <1>9 DEF draw_and_record

LEMMA FlowStep ==
    ASSUME PipeTypeOK, PipeTypeOK', FlowInv, [Next]_vars
    PROVE  FlowInv' /\ [Flow!Next]_(Flow!vars)
  <1>1. ASSUME NEW l \in Lidar, PubNext(l)
        PROVE  FlowInv' /\ [Flow!Next]_(Flow!vars)
    <2>1. CASE publish_frame(l)
      BY <2>1, FlowPublish
    <2>2. CASE PubStart(l) \/ PubStop(l) \/ PubDies(l) \/ Tick(l)
      <3>1. UNCHANGED <<clock, logs, up, down>>
        BY <2>2 DEF PubStart, PubStop, PubDies, Tick
      <3> QED BY <3>1, FlowKept
    <2> QED BY <1>1, <2>1, <2>2 DEF PubNext
  <1>2. CASE NextRun \/ UNCHANGED vars
    <2>1. UNCHANGED <<clock, logs, up, down>>
      BY <1>2 DEF NextRun, vars
    <2> QED BY <2>1, FlowKept
  <1>3. CASE EdgeStart \/ EdgeStop
    <2>1. UNCHANGED <<clock, logs, down>> /\ up' = <<>>
      BY <1>3 DEF EdgeStart, EdgeStop
    <2> QED BY <2>1, FlowKept
  <1>4. CASE RenderStart \/ RenderStop
    <2>1. UNCHANGED <<clock, logs, up>> /\ down' = <<>>
      BY <1>4 DEF RenderStart, RenderStop
    <2> QED BY <2>1, FlowKept
  <1>5. CASE on_cloud
    BY <1>5, FlowMeasure
  <1>6. CASE on_result
    BY <1>6, FlowShow
  <1> QED BY <1>1, <1>2, <1>3, <1>4, <1>5, <1>6 DEF Next, EdgeNext, RenderNext

(* Every capture is measured by the edge before it is shown, at each stage  *)
(* at most once, and never after a later one of its sensor.                 *)
THEOREM PipelineImplementsFrameFlow == Spec => ImplementsFrameFlow
  <1>1. Init => FlowInv /\ Flow!Init
    <2> SUFFICES ASSUME Init PROVE FlowInv /\ Flow!Init
      OBVIOUS
    <2>1. \A l \in Lidar : measured[l] = <<>> /\ shown[l] = <<>> /\ clock[l] = 0
      BY DEF Init
    <2>2. Latest(<<>>) = 0 /\ Topped(<<>>)
      BY DEF Latest, Topped, Logged
    <2>3. \A l \in Lidar : Last[l] = 0 /\ LastShown[l] = 0
      BY <2>1, <2>2 DEF Last, LastShown
    <2>4. \A l \in Lidar : Topped(measured[l]) /\ Topped(shown[l])
      BY <2>1, <2>2
    <2>5. AtMost(Last, clock) /\ AtMost(LastShown, Last)
      BY <2>1, <2>3 DEF AtMost
    <2>6. \A lo, hi : Ordered(<<>>, lo, hi)
      BY DEF Ordered
    <2>7. ResultsLogged
      BY DEF Init, ResultsLogged, Elements
    <2>8. FlowInv
      BY <2>4, <2>5, <2>6, <2>7 DEF Init, FlowInv
    <2> QED BY <2>8 DEF Init, Flow!Init
  <1>2. PipeTypeOK /\ PipeTypeOK' /\ FlowInv /\ [Next]_vars
            => FlowInv' /\ [Flow!Next]_(Flow!vars)
    BY FlowStep
  <1> QED BY <1>1, <1>2, PipeTypes, PTL DEF Spec, ImplementsFrameFlow, Flow!Spec
=============================================================================
