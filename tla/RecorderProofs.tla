---------------------------- MODULE RecorderProofs ----------------------------
(***************************************************************************)
(* Theorems about the telemetry recorder: for a ring and a channel of any  *)
(* size, any number of samples and of snapshots.                           *)
(***************************************************************************)
EXTENDS Recorder, TLAPS

(* The flags the threads pass each other.                                   *)
Flags ==
    /\ uploads \in BOOLEAN /\ full \in BOOLEAN
    /\ stop \in BOOLEAN /\ seen \in BOOLEAN /\ drained \in BOOLEAN

(* The counters, in their widest types.                                     *)
Types ==
    /\ produced \in 0..MaxSamples
    /\ ring \in 0..Capacity /\ dropped \in Nat
    /\ closing \in {"no", "closed", "stopping", "joined", "reported"}
    /\ writer \in {"drain", "drained", "snapshot", "judge", "parked", "ended"}
    /\ rows \in Nat /\ disk \in 0..rows
    /\ due \in 0..MaxDue /\ built \in Nat /\ unsent \in 0..built
    /\ channel \in 0..Channel
    /\ uploader \in {"waiting", "posting", "ended"}
    /\ posted \in Nat /\ failures \in Nat

(* Every sample is somewhere.                                               *)
Accounted == produced = rows + ring + dropped + (IF full THEN 1 ELSE 0)

(* Nothing is produced once shutdown began, and who knows of the stop knows *)
(* that; a writer that left had emptied the ring and its buffer.            *)
Ordered ==
    /\ closing # "no" => ~full
    /\ stop <=> closing \in {"stopping", "joined", "reported"}
    /\ seen => stop
    /\ writer = "ended" => seen /\ ring = 0 /\ disk = rows
    /\ closing \in {"joined", "reported"} => writer = "ended"
    /\ ~drained \/ writer = "parked" => disk = rows

(* The snapshot of a round that knew of the stop is up to date.             *)
LastTells ==
    /\ last \in [rows : 0..rows, dropped : 0..dropped]
    /\ seen /\ rows > 0 /\ writer \in {"judge", "ended"} =>
          last.rows = rows /\ last.dropped = dropped

(* Every snapshot is somewhere.                                             *)
Snapshots ==
    /\ uploads => built = unsent + channel + posted + failures
                            + (IF uploader = "posting" THEN 1 ELSE 0)
    /\ uploads /\ uploader = "ended" => channel = 0 /\ writer = "ended"
    /\ closing = "reported" => uploader = "ended"

Reported ==
    /\ closing # "reported" => report = NoReport
    /\ closing = "reported" =>
          report = [samples_written |-> rows, samples_dropped |-> dropped,
                    snapshots_built |-> built, snapshots_posted |-> posted,
                    snapshots_dropped |-> unsent, post_failures |-> failures]

RecInv == Flags /\ Types /\ Accounted /\ Ordered /\ LastTells /\ Snapshots /\ Reported

LEMMA RecInvInit == Init => RecInv
  <1> SUFFICES ASSUME Init PROVE RecInv
    OBVIOUS
  <1> USE RecorderAssumption DEF Init
  <1>1. uploader \in {"waiting", "ended"}
    OBVIOUS
  <1>2. Types
    BY <1>1 DEF Types
  <1>8. Flags
    BY Zenon DEF Flags
  <1>3. Accounted
    BY DEF Accounted
  <1>4. Ordered
    BY DEF Ordered
  <1>5. LastTells
    <2>1. last \in [rows : 0..rows, dropped : 0..dropped]
      OBVIOUS
    <2> QED BY <2>1 DEF LastTells
  <1>6. Snapshots
    <2>1. CASE uploads
      BY <2>1 DEF Snapshots
    <2>2. CASE ~uploads
      BY <2>2 DEF Snapshots
    <2> QED BY <2>1, <2>2
  <1>7. Reported
    BY DEF Reported
  <1> QED BY <1>2, <1>3, <1>4, <1>5, <1>6, <1>7, <1>8 DEF RecInv

(* What the building of a snapshot does.                                    *)
LEMMA Emitted ==
    ASSUME RecInv, emit_snapshot
    PROVE  /\ built' = built + 1 /\ built' \in Nat
           /\ last' \in [rows : 0..rows, dropped : 0..dropped]
           /\ last'.rows = rows /\ last'.dropped = dropped
           /\ channel' \in 0..Channel /\ unsent' \in 0..built'
           /\ uploads => unsent' + channel' = unsent + channel + 1
           /\ ~uploads => UNCHANGED <<channel, unsent>>
  <1> USE RecorderAssumption DEF RecInv, Types
  <1>1. /\ built' = built + 1
        /\ last' = [rows |-> rows, dropped |-> dropped]
    BY DEF emit_snapshot
  <1>2. \/ uploads /\ channel < Channel /\ channel' = channel + 1 /\ unsent' = unsent
        \/ uploads /\ unsent' = unsent + 1 /\ channel' = channel
        \/ ~uploads /\ unsent' = unsent /\ channel' = channel
    BY DEF emit_snapshot
  <1>3. last' \in [rows : 0..rows, dropped : 0..dropped] /\ last'.rows = rows
        /\ last'.dropped = dropped
    BY <1>1
  <1>4. channel' \in 0..Channel /\ unsent' \in 0..built'
    BY <1>1, <1>2
  <1>5. uploads => unsent' + channel' = unsent + channel + 1
    BY <1>2
  <1>6. ~uploads => UNCHANGED <<channel, unsent>>
    BY <1>2
  <1>7. built' \in Nat
    BY <1>1
  <1> QED BY <1>1, <1>3, <1>4, <1>5, <1>6, <1>7

LEMMA RecInvStep ==
    ASSUME RecInv, [Next]_vars
    PROVE  RecInv'
  <1> USE RecorderAssumption DEF producerVars, shutdownVars, writerVars, snapshotVars,
                                 uploaderVars
  <1>0. Flags'
    <2> USE DEF RecInv, Flags
    <2>1. CASE Producer
      BY <2>1, Zenon DEF Producer, try_record, CountDrop
    <2>2. CASE Writer
      <3>1. uploads' = uploads /\ full' = full /\ stop' = stop
            /\ seen' \in {seen, stop} /\ drained' \in {drained, TRUE, FALSE}
        BY <2>2, Zenon DEF Writer, write_sample, RingEmpty, ReadStop, Snapshot, Leave,
                           Flush, Park, Unpark
      <3> QED BY <3>1, Zenon
    <2>3. CASE Uploader
      BY <2>3, Zenon DEF Uploader, Receive, Post, UploadsEnd
    <2>4. CASE Shutdown
      BY <2>4, Zenon DEF Shutdown, Close, SignalStop, JoinWriter, Report
    <2>5. CASE UNCHANGED vars
      BY <2>5, Zenon DEF vars
    <2> QED BY <2>1, <2>2, <2>3, <2>4, <2>5 DEF Next
  <1>1. CASE try_record
    <2>1. Types' /\ Accounted'
      <3>1. CASE ring = Capacity
        <4>1. full' = TRUE /\ ring' = ring /\ produced' = produced + 1 /\ ~full
              /\ produced' \in 0..MaxSamples
          BY <1>1, <3>1 DEF try_record, RecInv, Types
        <4> QED BY <1>1, <4>1 DEF try_record, RecInv, Types, Accounted
      <3>2. CASE ring # Capacity
        <4>1. full' = FALSE /\ ring' = ring + 1 /\ produced' = produced + 1 /\ ~full
              /\ produced' \in 0..MaxSamples /\ ring' \in 0..Capacity
          BY <1>1, <3>2 DEF try_record, RecInv, Types
        <4> QED BY <1>1, <4>1 DEF try_record, RecInv, Types, Accounted
      <3> QED BY <3>1, <3>2
    <2>2. Ordered' /\ LastTells' /\ Snapshots' /\ Reported'
      BY <1>1 DEF try_record, RecInv, Types, Ordered, LastTells, Snapshots, Reported
    <2> QED BY <1>0, <2>1, <2>2 DEF RecInv
  <1>2. CASE CountDrop
    <2>1. Types'
      BY <1>2 DEF CountDrop, RecInv, Types
    <2>2. Accounted'
      <3>1. full = TRUE /\ full' = FALSE /\ dropped' = dropped + 1 /\ dropped \in Nat
            /\ UNCHANGED <<produced, rows, ring>>
        BY <1>2 DEF CountDrop, RecInv, Types
      <3>2. rows \in Nat /\ ring \in Nat
        BY DEF RecInv, Types
      <3> QED BY <3>1, <3>2 DEF RecInv, Accounted
    <2>3. closing = "no" /\ ~seen
      BY <1>2 DEF CountDrop, RecInv, Types, Ordered
    <2>4. Ordered' /\ Snapshots' /\ Reported'
      BY <1>2, <2>3 DEF CountDrop, RecInv, Types, Ordered, Snapshots, Reported
    <2>5. LastTells'
      BY <1>2, <2>3 DEF CountDrop, RecInv, Types, LastTells
    <2> QED BY <1>0, <2>1, <2>2, <2>4, <2>5 DEF RecInv
  <1>3. CASE write_sample
    <2>1. Types' /\ Accounted'
      BY <1>3 DEF write_sample, RecInv, Types, Accounted
    <2>2. Ordered' /\ LastTells'
      BY <1>3 DEF write_sample, RecInv, Types, Ordered, LastTells
    <2>3. closing # "reported"
      BY <1>3 DEF write_sample, RecInv, Types, Ordered
    <2>4. Snapshots' /\ Reported'
      BY <1>3, <2>3 DEF write_sample, RecInv, Types, Snapshots, Reported
    <2> QED BY <1>0, <2>1, <2>2, <2>4 DEF RecInv
  <1>4. CASE Snapshot
    <2>1. /\ writer = "snapshot" /\ writer' = "judge" /\ due' \in 0..MaxDue
          /\ UNCHANGED <<seen, drained, rows, disk, ring, dropped, producerVars,
                         shutdownVars, uploaderVars>>
      BY <1>4 DEF Snapshot, RecInv, Types
    <2>2. closing \notin {"joined", "reported"} /\ (uploads => uploader # "ended")
      BY <2>1 DEF RecInv, Types, Ordered, Snapshots
    <2>3. CASE emit_snapshot
      <3>1. Types'
        BY <2>1, <2>3, Emitted DEF RecInv, Types
      <3>2. Accounted' /\ Ordered'
        BY <2>1 DEF RecInv, Types, Accounted, Ordered
      <3>3. LastTells'
        BY <2>1, <2>3, Emitted DEF RecInv, Types, LastTells
      <3>4. Snapshots'
        BY <2>1, <2>2, <2>3, Emitted DEF RecInv, Types, Snapshots
      <3>5. Reported'
        BY <2>1, <2>2 DEF RecInv, Reported
      <3> QED BY <1>0, <3>1, <3>2, <3>3, <3>4, <3>5 DEF RecInv
    <2>4. CASE ~(seen /\ rows > 0) /\ UNCHANGED <<snapshotVars, channel>>
      <3>1. Types' /\ Accounted' /\ Ordered'
        BY <2>1, <2>4 DEF RecInv, Types, Accounted, Ordered
      <3>2. LastTells' /\ Snapshots' /\ Reported'
        BY <2>1, <2>2, <2>4 DEF RecInv, Types, LastTells, Snapshots, Reported
      <3> QED BY <1>0, <3>1, <3>2 DEF RecInv
    <2> QED BY <1>4, <2>3, <2>4 DEF Snapshot
  <1>5. CASE RingEmpty \/ ReadStop \/ Leave \/ Flush \/ Park \/ Unpark
    <2>1. /\ UNCHANGED <<rows, ring, dropped, producerVars, shutdownVars, snapshotVars,
                         channel, uploaderVars>>
          /\ writer # "ended"
      BY <1>5 DEF RingEmpty, ReadStop, Leave, Flush, Park, Unpark
    <2>2. Types' /\ Accounted'
      <3>1. writer' \in {"drain", "drained", "snapshot", "judge", "parked", "ended"}
        BY <1>5 DEF RingEmpty, ReadStop, Leave, Flush, Park, Unpark
      <3>2. disk' \in 0..rows
        BY <1>5 DEF RingEmpty, ReadStop, Leave, Flush, Park, Unpark, RecInv, Types
      <3>4. Accounted'
        BY <2>1 DEF RecInv, Accounted
      <3>5. Types'
        BY <2>1, <3>1, <3>2 DEF RecInv, Types
      <3> QED BY <3>4, <3>5
    <2>3. Ordered'
      BY <1>5, <2>1
         DEF RingEmpty, ReadStop, Leave, Leaves, Flush, Park, Unpark, RecInv, Types, Ordered
    <2>4. LastTells'
      BY <1>5, <2>1
         DEF RingEmpty, ReadStop, Leave, Leaves, Flush, Park, Unpark, RecInv, Types, LastTells
    <2>5. Snapshots' /\ Reported'
      BY <2>1 DEF RecInv, Types, Snapshots, Reported
    <2> QED BY <1>0, <2>2, <2>3, <2>4, <2>5 DEF RecInv
  <1>6. CASE Uploader
    <2>1. /\ UNCHANGED <<producerVars, ring, dropped, shutdownVars, writerVars, snapshotVars>>
          /\ uploader # "ended" /\ closing # "reported"
      BY <1>6 DEF Uploader, Receive, Post, UploadsEnd, RecInv, Snapshots
    <2>2. CASE Receive
      <3>1. Types' /\ Snapshots'
        BY <2>1, <2>2 DEF Receive, RecInv, Types, Snapshots
      <3> QED BY <1>0, <2>1, <3>1 DEF RecInv, Accounted, Ordered, LastTells, Reported
    <2>3. ASSUME NEW ok \in BOOLEAN, Post(ok) PROVE RecInv'
      <3>1. Types' /\ Snapshots'
        BY <2>1, <2>3 DEF Post, RecInv, Types, Snapshots
      <3> QED BY <1>0, <2>1, <3>1 DEF RecInv, Accounted, Ordered, LastTells, Reported
    <2>4. CASE UploadsEnd
      <3>1. Types' /\ Snapshots'
        BY <2>1, <2>4 DEF UploadsEnd, RecInv, Types, Snapshots
      <3> QED BY <1>0, <2>1, <3>1 DEF RecInv, Accounted, Ordered, LastTells, Reported
    <2> QED BY <1>6, <2>2, <2>3, <2>4 DEF Uploader
  <1>7. CASE Shutdown
    <2>1. UNCHANGED <<uploads, producerVars, ring, dropped, writerVars, snapshotVars,
                      channel, uploaderVars>>
      BY <1>7 DEF Shutdown, Close, SignalStop, JoinWriter, Report
    <2>2. Types' /\ Accounted' /\ LastTells'
      <3>1. closing' \in {"no", "closed", "stopping", "joined", "reported"}
        BY <1>7 DEF Shutdown, Close, SignalStop, JoinWriter, Report, RecInv, Types
      <3>2. Types'
        BY <2>1, <3>1 DEF RecInv, Types
      <3>3. Accounted' /\ LastTells'
        BY <2>1 DEF RecInv, Accounted, LastTells
      <3> QED BY <3>2, <3>3
    <2>3. Ordered' /\ Snapshots'
      <3>1. CASE Close
        BY <2>1, <3>1 DEF Close, RecInv, Types, Ordered, Snapshots
      <3>2. CASE SignalStop
        BY <2>1, <3>2 DEF SignalStop, RecInv, Types, Ordered, Snapshots
      <3>3. CASE JoinWriter
        BY <2>1, <3>3 DEF JoinWriter, RecInv, Types, Ordered, Snapshots
      <3>4. CASE Report
        BY <2>1, <3>4 DEF Report, RecInv, Types, Ordered, Snapshots
      <3> QED BY <1>7, <3>1, <3>2, <3>3, <3>4 DEF Shutdown
    <2>4. Reported'
      BY <1>7, <2>1 DEF Shutdown, Close, SignalStop, JoinWriter, Report, RecInv, Reported
    <2> QED BY <1>0, <2>2, <2>3, <2>4 DEF RecInv
  <1>8. CASE UNCHANGED vars
    BY <1>0, <1>8 DEF vars, RecInv, Types, Accounted, Ordered, LastTells, Snapshots, Reported
  <1> QED BY <1>1, <1>2, <1>3, <1>4, <1>5, <1>6, <1>7, <1>8 DEF Next, Producer, Writer

-----------------------------------------------------------------------------
(* The shared counters of recorder.rs stay accounted for, and the stop is   *)
(* seen only after the last sample: the invariant behind its report.        *)
THEOREM RecInvHolds == Spec => []RecInv
  BY RecInvInit, RecInvStep, PTL DEF Spec

(* Types and bounds: no counter exceeds the samples produced, and the ring  *)
(* and the snapshot channel of recorder.rs never overfill.                  *)
THEOREM RecorderTypes == Spec => []RecorderTypeOK
  <1>1. RecInv => RecorderTypeOK
    BY RecorderAssumption DEF RecInv, Flags, Types, Accounted, LastTells, RecorderTypeOK
  <1> QED BY <1>1, RecInvHolds, PTL

(* RecorderHandle::shutdown accounts for every sample exactly once, and     *)
(* every row it counts is in samples.csv.                                   *)
THEOREM SamplesAlwaysConserved == Spec => []SamplesConserved
  <1>1. RecInv => SamplesConserved
    <2> SUFFICES ASSUME RecInv PROVE SamplesConserved
      OBVIOUS
    <2>1. writer = "parked" => disk = rows
      BY DEF RecInv, Ordered
    <2>2. ASSUME report # NoReport
          PROVE  /\ report.samples_written + report.samples_dropped = produced
                 /\ disk = report.samples_written
      <3>1. /\ closing = "reported"
            /\ report.samples_written = rows /\ report.samples_dropped = dropped
        BY <2>2 DEF RecInv, Reported
      <3>2. ring = 0 /\ disk = rows /\ ~full
        BY <3>1 DEF RecInv, Ordered
      <3> QED BY <3>1, <3>2 DEF RecInv, Types, Accounted
    <2> QED BY <2>1, <2>2 DEF SamplesConserved
  <1> QED BY <1>1, RecInvHolds, PTL

(* The last snapshot of a run (emit_snapshot) is complete, and every        *)
(* snapshot built was posted, failed or counted as dropped.                 *)
THEOREM SnapshotsAlwaysTell == Spec => []SnapshotsTell
  <1>1. RecInv => SnapshotsTell
    <2> SUFFICES ASSUME RecInv, report # NoReport
                 PROVE  /\ report.samples_written > 0 =>
                              last = [rows |-> report.samples_written,
                                      dropped |-> report.samples_dropped]
                        /\ uploads => report.snapshots_built = report.snapshots_posted
                              + report.post_failures + report.snapshots_dropped
      BY DEF SnapshotsTell
    <2>1. /\ closing = "reported"
          /\ report.samples_written = rows /\ report.samples_dropped = dropped
          /\ report.snapshots_built = built /\ report.snapshots_posted = posted
          /\ report.snapshots_dropped = unsent /\ report.post_failures = failures
      BY DEF RecInv, Reported
    <2>2. writer = "ended" /\ seen /\ uploader = "ended"
      BY <2>1 DEF RecInv, Ordered, Snapshots
    <2>3. rows > 0 => last = [rows |-> rows, dropped |-> dropped]
      BY <2>2 DEF RecInv, LastTells
    <2>4. uploads => built = posted + failures + unsent
      BY <2>2 DEF RecInv, Types, Snapshots
    <2> QED BY <2>1, <2>3, <2>4
  <1> QED BY <1>1, RecInvHolds, PTL

-----------------------------------------------------------------------------
(* How long shutdown takes.                                                 *)

(* How far the writer is from its end once it may see the stop: the round   *)
(* it is in may still be one that ends in another.                          *)
ToGo ==
    [ended    |-> 0,
     judge    |-> IF seen /\ ring = 0 THEN 1 ELSE 6,
     snapshot |-> IF seen /\ ring = 0 THEN 2 ELSE 7,
     drained  |-> IF ring = 0 THEN 3 ELSE 8,
     drain    |-> 4,
     parked   |-> 5]

(* A round of the writer may add one snapshot, which takes two steps to     *)
(* post: a step of the writer weighs three.                                 *)
WriterWork == 3 * (ring + ToGo[writer])
UploadWork == 2 * channel + [ended |-> 0, waiting |-> 1, posting |-> 2][uploader]
JoinWork == [no |-> 4, closed |-> 3, stopping |-> 2, joined |-> 1, reported |-> 0][closing]

ShutdownWork == WriterWork + UploadWork + JoinWork

(* The work a stop finds is bounded by the ring and the channel.            *)
LEMMA WorkBounded ==
    ASSUME RecInv
    PROVE  /\ WriterWork \in 0..(3 * (Capacity + 8))
           /\ UploadWork \in 0..(2 * Channel + 2)
           /\ stop => JoinWork \in 0..2
  <1> USE RecorderAssumption DEF RecInv, Types
  <1>1. ToGo[writer] \in 0..8
    BY DEF ToGo
  <1>2. WriterWork \in 0..(3 * (Capacity + 8))
    BY <1>1 DEF WriterWork
  <1>3. UploadWork \in 0..(2 * Channel + 2)
    BY DEF UploadWork
  <1>4. stop => JoinWork \in 0..2
    BY DEF Ordered, JoinWork
  <1> QED BY <1>2, <1>3, <1>4

(* Less of one part, and no more of the others, is less work.               *)
LEMMA LessWork ==
    ASSUME NEW w \in Nat, NEW u \in Nat, NEW j \in Nat,
           NEW v \in Nat, NEW x \in Nat, NEW k \in Nat,
           \/ v < w /\ x = u /\ k = j
           \/ v = w /\ x < u /\ k = j
           \/ v = w /\ x = u /\ k < j
           \/ v + 3 <= w /\ x <= u + 2 /\ k = j
    PROVE  v + x + k < w + u + j
  OBVIOUS

LEMMA LessWriting ==
    ASSUME NEW r \in Nat, NEW p \in Nat, NEW s \in Nat, NEW q \in Nat, s + q < r + p
    PROVE  3 * (s + q) < 3 * (r + p) /\ 3 * (s + q) + 3 <= 3 * (r + p)
  OBVIOUS

(* Every step taken after the stop does some of the work.                   *)
LEMMA WorkShrinks ==
    ASSUME RecInv, RecInv', stop, Next
    PROVE  ShutdownWork' < ShutdownWork
  <1> USE DEF producerVars, shutdownVars, writerVars, snapshotVars, uploaderVars
  <1>0. /\ ring \in Nat /\ ring' \in Nat /\ channel \in Nat /\ channel' \in Nat
        /\ writer \in {"drain", "drained", "snapshot", "judge", "parked", "ended"}
        /\ uploader \in {"waiting", "posting", "ended"}
        /\ closing \in {"stopping", "joined", "reported"} /\ ~full
    BY RecorderAssumption DEF RecInv, Types, Ordered
  <1>a. WriterWork \in Nat /\ UploadWork \in Nat /\ JoinWork \in Nat
    BY <1>0, WorkBounded
  <1>b. WriterWork' \in Nat /\ UploadWork' \in Nat /\ JoinWork' \in Nat
    <2>1. ToGo[writer]' \in Nat /\ ring' \in Nat
      BY DEF RecInv, Types, ToGo
    <2>2. WriterWork' \in Nat
      BY <2>1 DEF WriterWork
    <2>3. UploadWork' \in Nat /\ JoinWork' \in Nat
      BY DEF RecInv, Types, UploadWork, JoinWork
    <2> QED BY <2>2, <2>3
  <1>1. CASE Producer
    BY <1>0, <1>1 DEF Producer, try_record, CountDrop
  <1>2. CASE write_sample \/ RingEmpty \/ ReadStop \/ Leave \/ Flush \/ Park \/ Unpark
    <2>1. UploadWork' = UploadWork /\ JoinWork' = JoinWork
      BY <1>2 DEF write_sample, RingEmpty, ReadStop, Leave, Flush, Park, Unpark,
                  UploadWork, JoinWork
    <2>2. ring' + ToGo[writer]' < ring + ToGo[writer]
      <3>1. CASE write_sample
        BY <1>0, <3>1 DEF write_sample, ToGo
      <3>2. CASE RingEmpty
        BY <1>0, <3>2 DEF RingEmpty, ToGo
      <3>3. CASE ReadStop
        BY <1>0, <3>3 DEF ReadStop, ToGo
      <3>4. CASE Leave
        BY <1>0, <3>4 DEF Leave, Leaves, ToGo
      <3>5. CASE Flush \/ Park
        <4>1. /\ writer = "judge" /\ ~(seen /\ ring = 0) /\ ring' = ring
              /\ writer' \in {"drain", "parked"}
          BY <3>5 DEF Flush, Park, Leaves
        <4>2. ToGo[writer] = 6 /\ ToGo[writer]' \in {4, 5}
          BY <4>1 DEF ToGo
        <4>3. CASE ToGo[writer]' = 4
          BY <1>0, <4>1, <4>2, <4>3
        <4>4. CASE ToGo[writer]' = 5
          BY <1>0, <4>1, <4>2, <4>4
        <4> QED BY <4>2, <4>3, <4>4
      <3>6. CASE Unpark
        BY <1>0, <3>6 DEF Unpark, ToGo
      <3> QED BY <1>2, <3>1, <3>2, <3>3, <3>4, <3>5, <3>6
    <2>3. ToGo[writer] \in Nat /\ ToGo[writer]' \in Nat
      BY <1>0 DEF ToGo, RecInv, Types
    <2>4. WriterWork' < WriterWork
      BY <1>0, <2>2, <2>3, LessWriting DEF WriterWork
    <2> QED BY <1>a, <1>b, LessWork, <2>1, <2>4 DEF ShutdownWork
  <1>3. CASE Snapshot
    <2>1. channel' \in {channel, channel + 1}
      BY <1>3 DEF Snapshot, emit_snapshot
    <2>2. UploadWork' <= UploadWork + 2
      BY <1>0, <1>3, <2>1 DEF Snapshot, UploadWork
    <2>3. WriterWork' = WriterWork - 3
      BY <1>0, <1>3 DEF Snapshot, WriterWork, ToGo
    <2>4. JoinWork' = JoinWork
      BY <1>3 DEF Snapshot, JoinWork
    <2>5. WriterWork' + 3 <= WriterWork
      BY <1>a, <2>3
    <2> QED BY <1>a, <1>b, LessWork, <2>2, <2>4, <2>5 DEF ShutdownWork
  <1>4. CASE Uploader
    <2>1. UNCHANGED <<writer, seen, ring, closing>>
      BY <1>4 DEF Uploader, Receive, Post, UploadsEnd
    <2>2. WriterWork' = WriterWork /\ JoinWork' = JoinWork
      BY <2>1 DEF WriterWork, ToGo, JoinWork
    <2>3. CASE Receive
      <3>1. UploadWork = 2 * channel + 1 /\ UploadWork' = 2 * (channel - 1) + 2
        BY <2>3 DEF Receive, UploadWork
      <3>2. UploadWork' < UploadWork
        BY <1>0, <3>1
      <3> QED BY <1>a, <1>b, LessWork, <2>2, <3>2 DEF ShutdownWork
    <2>4. CASE UploadsEnd \/ \E ok \in BOOLEAN : Post(ok)
      <3>1. /\ channel' = channel
            /\ \/ uploader = "posting" /\ uploader' = "waiting"
               \/ uploader = "waiting" /\ uploader' = "ended"
        BY <2>4 DEF UploadsEnd, Post
      <3>2. UploadWork' = UploadWork - 1
        BY <1>0, <3>1 DEF UploadWork
      <3>3. UploadWork' < UploadWork
        BY <1>a, <3>2
      <3> QED BY <1>a, <1>b, LessWork, <2>2, <3>3 DEF ShutdownWork
    <2> QED BY <1>4, <2>3, <2>4 DEF Uploader
  <1>5. CASE Shutdown
    <2>1. UNCHANGED <<writer, seen, ring, channel, uploader>>
      BY <1>5 DEF Shutdown, Close, SignalStop, JoinWriter, Report
    <2>2. WriterWork' = WriterWork /\ UploadWork' = UploadWork
      BY <2>1 DEF WriterWork, ToGo, UploadWork
    <2>3. \/ closing = "stopping" /\ closing' = "joined"
          \/ closing = "joined" /\ closing' = "reported"
      BY <1>0, <1>5 DEF Shutdown, Close, SignalStop, JoinWriter, Report
    <2>4. JoinWork' < JoinWork
      BY <2>3 DEF JoinWork
    <2> QED BY <1>a, <1>b, LessWork, <2>2, <2>4 DEF ShutdownWork
  <1> QED BY <1>1, <1>2, <1>3, <1>4, <1>5 DEF Next, Writer

(* From the moment shutdown raises the stop flag, every step of whichever   *)
(* thread does some of a bounded amount of work: writer and uploader go     *)
(* through at most one more round than the ring and the channel call for,   *)
(* whatever they were in the middle of, and nothing adds to it.             *)
THEOREM ShutdownIsBounded ==
    Spec => /\ [](stop => ShutdownWork \in 0..(3 * Capacity + 2 * Channel + 28))
            /\ [][stop => ShutdownWork' < ShutdownWork]_vars
  <1>1. RecInv => (stop => ShutdownWork \in 0..(3 * Capacity + 2 * Channel + 28))
    <2> SUFFICES ASSUME RecInv, stop
                 PROVE  ShutdownWork \in 0..(3 * Capacity + 2 * Channel + 28)
      OBVIOUS
    <2>1. /\ WriterWork \in 0..(3 * (Capacity + 8))
          /\ UploadWork \in 0..(2 * Channel + 2)
          /\ JoinWork \in 0..2
      BY WorkBounded
    <2> QED BY <2>1, RecorderAssumption DEF ShutdownWork
  <1>2. RecInv /\ [Next]_vars => [stop => ShutdownWork' < ShutdownWork]_vars
    BY RecInvStep, WorkShrinks
  <1> QED BY <1>1, <1>2, RecInvHolds, PTL DEF Spec

(* Where each thread waits for another, the other has a step to take: the   *)
(* join finds a writer that is not parked for good, the report an uploader  *)
(* with something in its channel or a writer that is gone.                  *)
LEMMA ShutdownNeverStuck ==
    Spec => [](stop /\ closing # "reported" =>
                 \/ writer # "ended"
                 \/ uploader = "posting"
                 \/ uploader = "waiting" /\ (channel > 0 \/ writer = "ended")
                 \/ closing = "stopping" /\ writer = "ended"
                 \/ closing = "joined" /\ uploader = "ended")
  <1>1. RecInv => (stop /\ closing # "reported" =>
                     \/ writer # "ended"
                     \/ uploader = "posting"
                     \/ uploader = "waiting" /\ (channel > 0 \/ writer = "ended")
                     \/ closing = "stopping" /\ writer = "ended"
                     \/ closing = "joined" /\ uploader = "ended")
    BY DEF RecInv, Types, Ordered
  <1> QED BY <1>1, RecInvHolds, PTL
=============================================================================
