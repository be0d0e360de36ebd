------------------------------ MODULE Recorder ------------------------------
(***************************************************************************)
(* The telemetry recorder of one run (recorder.rs) as its bindings use it  *)
(* (py.rs, ffi.rs): the producer pushes samples into a bounded ring, the   *)
(* WRITER thread drains the ring into samples.csv and builds snapshots,    *)
(* the UPLOADER thread posts them, and shutdown joins the two and returns  *)
(* the accounting.                                                         *)
(*                                                                         *)
(* A sample is one of many: ring and channel are counts.  One action is    *)
(* what a thread does between two accesses to what it shares with another: *)
(* the ring, the drop counter, the stop flag, the channel.  disk counts    *)
(* the rows that were flushed; BufWriter may have written more.  A write   *)
(* that fails is ignored by the code and left out, as are the statistics.  *)
(***************************************************************************)
EXTENDS Naturals

CONSTANTS
    Capacity,    \* queue_capacity
    Channel,     \* the bound of the snapshot channel, 64
    MaxSamples,  \* bound: samples produced
    MaxDue       \* bound: snapshots built because one is due

ASSUME RecorderAssumption ==
    /\ Capacity \in Nat \ {0} /\ Channel \in Nat
    /\ MaxSamples \in Nat /\ MaxDue \in Nat

VARIABLES
    uploads,   \* whether there is a logging_url
    produced,  \* calls of try_record
    full,      \* the producer found the ring full and is about to count it
    ring,      \* samples in the ring
    dropped,   \* the drop counter
    closing,   \* shutdown: "no", "closed", "stopping", "joined", "reported"
    stop,      \* the stop flag
    writer,    \* where the writer's loop is
    seen,      \* the stop flag as the writer read it
    drained,   \* whether this round drained anything
    rows,      \* rows_written
    disk,      \* rows flushed to samples.csv
    due,       \* snapshots built because one was due
    built, unsent,         \* snapshots_built, snapshots_dropped
    last,                  \* what the last snapshot says of rows and drops
    channel,               \* snapshots in the channel
    uploader,              \* "waiting", "posting", "ended"
    posted, failures,      \* snapshots_posted, post_failures
    report                 \* the RecorderReport, or NoReport

producerVars == <<produced, full>>
shutdownVars == <<uploads, closing, stop, report>>
writerVars == <<writer, seen, drained, rows, disk>>
snapshotVars == <<due, built, unsent, last>>
uploaderVars == <<uploader, posted, failures>>
vars == <<producerVars, ring, dropped, shutdownVars, writerVars, snapshotVars,
          channel, uploaderVars>>

NoReport == <<>>

-----------------------------------------------------------------------------
(* The producer.  Its mutex (py.rs), or its only thread (ffi.rs), keeps     *)
(* shutdown out between the push that fails and its count.                  *)

try_record ==
    /\ closing = "no" /\ ~full
    /\ produced < MaxSamples
    /\ produced' = produced + 1
    /\ \/ ring < Capacity /\ ring' = ring + 1 /\ UNCHANGED full
       \/ ring = Capacity /\ full' = TRUE /\ UNCHANGED ring
    /\ UNCHANGED <<dropped, shutdownVars, writerVars, snapshotVars, channel, uploaderVars>>

CountDrop ==
    /\ full
    /\ full' = FALSE
    /\ dropped' = dropped + 1
    /\ UNCHANGED <<produced, ring, shutdownVars, writerVars, snapshotVars, channel,
                   uploaderVars>>

-----------------------------------------------------------------------------
(* The writer.                                                              *)

(* pop and write_sample; an empty ring ends the drain.                      *)
write_sample ==
    /\ writer = "drain" /\ ring > 0
    /\ ring' = ring - 1
    /\ rows' = rows + 1
    /\ drained' = TRUE
    /\ UNCHANGED <<writer, seen, disk, dropped, producerVars, shutdownVars, snapshotVars,
                   channel, uploaderVars>>

RingEmpty ==
    /\ writer = "drain" /\ ring = 0
    /\ writer' = "drained"
    /\ UNCHANGED <<seen, drained, rows, disk, ring, dropped, producerVars, shutdownVars,
                   snapshotVars, channel, uploaderVars>>

ReadStop ==
    /\ writer = "drained"
    /\ seen' = stop
    /\ writer' = "snapshot"
    /\ UNCHANGED <<drained, rows, disk, ring, dropped, producerVars, shutdownVars,
                   snapshotVars, channel, uploaderVars>>

(* Mutant: the channel is checked after the send.                           *)
EmitOverfull ==
    /\ built' = built + 1
    /\ last' = [rows |-> rows, dropped |-> dropped]
    /\ IF uploads /\ channel <= Channel
       THEN channel' = channel + 1 /\ UNCHANGED unsent
       ELSE unsent' = (IF uploads THEN unsent + 1 ELSE unsent) /\ UNCHANGED channel

(* The snapshot tells of the rows and drops of this moment; a full channel  *)
(* drops it.                                                                *)
emit_snapshot ==
    /\ built' = built + 1
    /\ last' = [rows |-> rows, dropped |-> dropped]
    /\ IF uploads /\ channel < Channel
       THEN channel' = channel + 1 /\ UNCHANGED unsent
       ELSE unsent' = (IF uploads THEN unsent + 1 ELSE unsent) /\ UNCHANGED channel

(* Mutant: one last snapshot, when the stop is first seen.                  *)
SnapshotOnce ==
    /\ writer = "snapshot"
    /\ writer' = "judge"
    /\ \/ /\ seen /\ rows > 0 /\ (built = due)
          /\ emit_snapshot /\ UNCHANGED due
       \/ /\ due < MaxDue
          /\ due' = due + 1 /\ emit_snapshot
       \/ /\ ~(seen /\ rows > 0 /\ built = due)
          /\ UNCHANGED <<snapshotVars, channel>>
    /\ UNCHANGED <<seen, drained, rows, disk, ring, dropped, producerVars, shutdownVars,
                   uploaderVars>>

(* One is built when it is due, and in every round that knows of the stop.  *)
Snapshot ==
    /\ writer = "snapshot"
    /\ writer' = "judge"
    /\ \/ /\ seen /\ rows > 0
          /\ emit_snapshot /\ UNCHANGED due
       \/ /\ due < MaxDue
          /\ due' = due + 1 /\ emit_snapshot
       \/ /\ ~(seen /\ rows > 0)
          /\ UNCHANGED <<snapshotVars, channel>>
    /\ UNCHANGED <<seen, drained, rows, disk, ring, dropped, producerVars, shutdownVars,
                   uploaderVars>>

(* Mutant: the writer leaves once it is told to.                            *)
LeavesAtOnce == seen

(* It leaves once it knows of the stop and the ring is empty.               *)
Leaves == seen /\ ring = 0

(* The end of a round: the last flush, the flush of what it drained, or     *)
(* park_timeout, which ends by itself.                                      *)
Leave ==
    /\ writer = "judge" /\ Leaves
    /\ writer' = "ended"
    /\ disk' = rows
    /\ UNCHANGED <<seen, drained, rows, ring, dropped, producerVars, shutdownVars,
                   snapshotVars, channel, uploaderVars>>

Flush ==
    /\ writer = "judge" /\ ~Leaves /\ drained
    /\ writer' = "drain"
    /\ drained' = FALSE
    /\ disk' = rows
    /\ UNCHANGED <<seen, rows, ring, dropped, producerVars, shutdownVars, snapshotVars,
                   channel, uploaderVars>>

Park ==
    /\ writer = "judge" /\ ~Leaves /\ ~drained
    /\ writer' = "parked"
    /\ UNCHANGED <<seen, drained, rows, disk, ring, dropped, producerVars, shutdownVars,
                   snapshotVars, channel, uploaderVars>>

Unpark ==
    /\ writer = "parked"
    /\ writer' = "drain"
    /\ UNCHANGED <<seen, drained, rows, disk, ring, dropped, producerVars, shutdownVars,
                   snapshotVars, channel, uploaderVars>>

-----------------------------------------------------------------------------
(* The uploader: upload_loop ends when the channel is empty and its sender  *)
(* went with the writer.                                                    *)
Receive ==
    /\ uploader = "waiting" /\ channel > 0
    /\ channel' = channel - 1
    /\ uploader' = "posting"
    /\ UNCHANGED <<posted, failures, producerVars, ring, dropped, shutdownVars, writerVars,
                   snapshotVars>>

Post(ok) ==
    /\ uploader = "posting"
    /\ uploader' = "waiting"
    /\ posted' = IF ok THEN posted + 1 ELSE posted
    /\ failures' = IF ok THEN failures ELSE failures + 1
    /\ UNCHANGED <<producerVars, ring, dropped, shutdownVars, writerVars, snapshotVars,
                   channel>>

(* Mutant: the handle keeps a sender of its own.                            *)
UploadsEndLate ==
    /\ uploader = "waiting" /\ channel = 0 /\ closing = "reported"
    /\ uploader' = "ended"
    /\ UNCHANGED <<posted, failures, producerVars, ring, dropped, shutdownVars, writerVars,
                   snapshotVars, channel>>

UploadsEnd ==
    /\ uploader = "waiting" /\ channel = 0 /\ writer = "ended"
    /\ uploader' = "ended"
    /\ UNCHANGED <<posted, failures, producerVars, ring, dropped, shutdownVars, writerVars,
                   snapshotVars, channel>>

-----------------------------------------------------------------------------
(* shutdown: the bindings see to it that no sample follows, then stop, join *)
(* and report.                                                              *)

Close ==
    /\ closing = "no" /\ ~full
    /\ closing' = "closed"
    /\ UNCHANGED <<uploads, stop, report, producerVars, ring, dropped, writerVars,
                   snapshotVars, channel, uploaderVars>>

SignalStop ==
    /\ closing = "closed"
    /\ closing' = "stopping"
    /\ stop' = TRUE
    /\ UNCHANGED <<uploads, report, producerVars, ring, dropped, writerVars, snapshotVars,
                   channel, uploaderVars>>

JoinWriter ==
    /\ closing = "stopping" /\ writer = "ended"
    /\ closing' = "joined"
    /\ UNCHANGED <<uploads, stop, report, producerVars, ring, dropped, writerVars,
                   snapshotVars, channel, uploaderVars>>

Report ==
    /\ closing = "joined" /\ uploader = "ended"
    /\ closing' = "reported"
    /\ report' = [samples_written |-> rows, samples_dropped |-> dropped,
                  snapshots_built |-> built, snapshots_posted |-> posted,
                  snapshots_dropped |-> unsent, post_failures |-> failures]
    /\ UNCHANGED <<uploads, stop, producerVars, ring, dropped, writerVars, snapshotVars,
                   channel, uploaderVars>>

-----------------------------------------------------------------------------
Init ==
    /\ uploads \in BOOLEAN
    /\ produced = 0 /\ full = FALSE /\ ring = 0 /\ dropped = 0
    /\ closing = "no" /\ stop = FALSE /\ report = NoReport
    /\ writer = "drain" /\ seen = FALSE /\ drained = FALSE /\ rows = 0 /\ disk = 0
    /\ due = 0 /\ built = 0 /\ unsent = 0 /\ last = [rows |-> 0, dropped |-> 0]
    /\ channel = 0
    /\ uploader = (IF uploads THEN "waiting" ELSE "ended")
    /\ posted = 0 /\ failures = 0

Producer == try_record \/ CountDrop
Writer == write_sample \/ RingEmpty \/ ReadStop \/ Snapshot \/ Leave \/ Flush
             \/ Park \/ Unpark
Uploader == Receive \/ (\E ok \in BOOLEAN : Post(ok)) \/ UploadsEnd
Shutdown == Close \/ SignalStop \/ JoinWriter \/ Report

Next == Producer \/ Writer \/ Uploader \/ Shutdown

Spec == Init /\ [][Next]_vars

(* Each thread goes on; a post ends by its timeout.  Whether samples come   *)
(* and when shutdown is called is up to the caller.                         *)
FairSpec ==
    /\ Spec
    /\ WF_vars(CountDrop) /\ WF_vars(Writer) /\ WF_vars(Uploader)
    /\ WF_vars(SignalStop) /\ WF_vars(JoinWriter) /\ WF_vars(Report)

-----------------------------------------------------------------------------
(* Type correctness of what the threads share and of the accounting.        *)
RecorderTypeOK ==
    /\ uploads \in BOOLEAN
    /\ produced \in 0..MaxSamples /\ full \in BOOLEAN
    /\ ring \in 0..Capacity /\ dropped \in 0..MaxSamples
    /\ closing \in {"no", "closed", "stopping", "joined", "reported"}
    /\ stop \in BOOLEAN /\ seen \in BOOLEAN /\ drained \in BOOLEAN
    /\ writer \in {"drain", "drained", "snapshot", "judge", "parked", "ended"}
    /\ rows \in 0..MaxSamples /\ disk \in 0..rows
    /\ due \in 0..MaxDue /\ built \in Nat /\ unsent \in 0..built
    /\ last \in [rows : 0..rows, dropped : 0..dropped]
    /\ channel \in 0..Channel
    /\ uploader \in {"waiting", "posting", "ended"}
    /\ posted \in Nat /\ failures \in Nat

(* "samples_written + samples_dropped == samples produced" (recorder.rs),   *)
(* and samples.csv has a line for every sample written, however samples,    *)
(* stop and the rounds of the writer fall; a writer that rests has left     *)
(* nothing in its buffer.                                                   *)
SamplesConserved ==
    /\ report # NoReport =>
          /\ report.samples_written + report.samples_dropped = produced
          /\ disk = report.samples_written
    /\ writer = "parked" => disk = rows

(* "Every snapshot reports its own losses" (recorder.rs): the last one told *)
(* of every row and every drop of the run, and each one built was posted,   *)
(* failed or is counted as dropped.                                         *)
SnapshotsTell ==
    report # NoReport =>
        /\ report.samples_written > 0 =>
              last = [rows |-> report.samples_written, dropped |-> report.samples_dropped]
        /\ uploads => report.snapshots_built = report.snapshots_posted
                          + report.post_failures + report.snapshots_dropped

(* shutdown returns, whatever the logging service does: stop_run of every   *)
(* node waits for it before it reports to the admin.                        *)
ShutdownEnds == closing = "closed" ~> closing = "reported"
=============================================================================
