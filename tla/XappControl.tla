----------------------------- MODULE XappControl -----------------------------
(***************************************************************************)
(* Run-scoped RAN control: the xApp process (app.py), its rc_control       *)
(* capability and the osc adapter that carries its controls to the RIC.    *)
(*                                                                         *)
(* Two threads.  The MAIN thread takes one command or one tick at a time;  *)
(* its handlers are cut only where a crash could fall between two effects  *)
(* that outlive the process: a control handed to the RIC, and the marker   *)
(* file, which is truncated before it is written.  The ADAPTER thread      *)
(* delivers outcomes at any moment, also while the main thread waits for   *)
(* them at a run's stop.                                                   *)
(*                                                                         *)
(* A control is abstracted to whether it CAPS its target or sets the gNB   *)
(* default; ratios, the text of outcomes and control.csv are left out.     *)
(* Time is left to choice: a schedule step may fall due at any tick, a     *)
(* control may expire before its answer, admin loss is a flag.  The marker *)
(* file is taken to be writable, and readable unless a write was cut short.*)
(***************************************************************************)
EXTENDS Integers, Sequences, FiniteSets

CONSTANTS
    Gnb,           \* E2 nodes
    Ue,            \* UEs of a node
    MaxSteps,      \* bound: steps of a policy's schedule
    MaxPending,    \* bound: controls without an outcome, and answers under way
    MaxExtra,      \* bound: outcomes counted twice (see SendRaises)
    MaxEnds,       \* bound: how often the process ends and starts again
    SendsRaise     \* whether handing a control to the RIC may raise

None == "none"
Target == Gnb \X Ue
NoTarget == <<None, None>>
Torn == <<None, "torn">>      \* the marker between its truncation and its text
Policy == [target : Target, steps : 0..MaxSteps]
NoPolicy == [target |-> NoTarget, steps |-> 0]

(* A ran_policy that parses, one that parse_policy refuses, and none.       *)
Parses == [ue : Ue, steps : 0..MaxSteps]
Invalid == [ue |-> "invalid", steps |-> 0]
NoRequest == [ue |-> None, steps |-> 0]
Request == Parses \cup {Invalid, NoRequest}

(* The parameters of a run, and what stop_run returns to.                   *)
Params == [node : Gnb \cup {None}, policy : Request]
NoParams == [node |-> None, policy |-> NoRequest]
ReturnTo(place) == [to |-> place, params |-> NoParams]
NotClosing == ReturnTo("nowhere")
Closing == {ReturnTo("idle"), ReturnTo("exit")}
             \cup [to : {"start"}, params : Params]

Actions == {"apply", "revert", "boot"}        \* what a pending outcome is for

ASSUME ControlAssumption ==
    /\ None \notin Gnb
    /\ MaxSteps \in Nat
    /\ MaxPending \in Nat
    /\ MaxExtra \in Nat
    /\ MaxEnds \in Nat
    /\ SendsRaise \in BOOLEAN

VARIABLES
    (* The process and the main thread. *)
    up,          \* whether the process runs
    ends,        \* how often it has ended
    doing,       \* what the main thread is in the middle of
    closing,     \* what stop_run returns to: a tick, the exit, or a start
    request,     \* the ran_policy apply_policy is handling
    active,      \* whether there is a run (Xapp.ctx)
    wanted,      \* ctx.params["e2_node_id"]
    (* RcControl. *)
    policy, pstate, stale,
    owed,        \* sent - acked - failed
    marker,      \* <RUNS_DIR>/.xapp-policy.json
    (* OscPort._pending, and the answers the RIC still owes. *)
    pending, unanswered,
    (* The outside: connected E2 nodes, the admin, and for every target     *)
    (* whether the last control handed over for it was a cap.               *)
    connected, adminLost, capped,
    unsent       \* history: whether the revert under way was not handed over

procVars == <<up, ends, doing, closing, request, active, wanted>>
rcVars   == <<policy, pstate, stale, owed, marker>>
portVars == <<pending, unanswered>>
envVars  == <<connected, adminLost, capped, unsent>>
vars     == <<procVars, rcVars, portVars, envVars>>

Free == up /\ doing = "idle"

ControlTypeOK ==
    /\ up \in BOOLEAN
    /\ ends \in 0..MaxEnds
    /\ doing \in {"idle", "policy", "mark", "write", "apply", "clear", "unlink",
                 "wait"}
    /\ closing \in Closing \cup {NotClosing}
    /\ request \in Request
    /\ active \in BOOLEAN
    /\ wanted \in Gnb \cup {None}
    /\ policy \in Policy \cup {NoPolicy}
    /\ pstate \in {None, "pending", "applied", "failed", "reverted"}
    /\ stale \in Target \cup {NoTarget}
    /\ marker \in Target \cup {NoTarget, Torn}
    /\ owed \in (-MaxExtra)..MaxPending
    /\ pending \in Seq(Actions) /\ Len(pending) <= MaxPending
    /\ unanswered \in 0..MaxPending
    /\ connected \subseteq Gnb
    /\ adminLost \in BOOLEAN
    /\ capped \subseteq Target
    /\ unsent \in BOOLEAN

-----------------------------------------------------------------------------
(* RcControl and OscPort: a control and its outcome.                        *)

Counts(a) == IF a = "boot" THEN 0 ELSE 1
Counted(s) == Cardinality({i \in DOMAIN s : s[i] # "boot"})
Room(n) == Len(pending) + n <= MaxPending

AfterCap(t, cap) == IF cap THEN capped \cup {t} ELSE capped \ {t}

(* control_prb_quota: the entry joins the queue, then the RIC is asked.  An *)
(* answer beyond the bound is one that gets lost.                           *)
SendOk(a) ==
    /\ Room(1)
    /\ pending' = Append(pending, a)
    /\ unanswered' = IF unanswered < MaxPending THEN unanswered + 1
                                                ELSE unanswered
    /\ owed' = owed + Counts(a)

(* The RIC library raises: the entry stays in the queue, and its outcome,   *)
(* counted as failed at once, will be counted a second time.                *)
SendRaises(a) ==
    /\ SendsRaise
    /\ Room(1)
    /\ owed - Counted(pending) > -MaxExtra
    /\ pending' = Append(pending, a)
    /\ UNCHANGED <<unanswered, owed>>

(* _send(..., action) to target t.  ps: the policy state the caller set.    *)
(* What raises never reached the RIC.                                       *)
Send(a, t, cap, ps) ==
    \/ /\ SendOk(a)
       /\ capped' = AfterCap(t, cap)
       /\ pstate' = ps
       /\ unsent' = FALSE
    \/ /\ SendRaises(a)
       /\ capped' = capped
       /\ pstate' = (IF a = "apply" THEN "failed" ELSE ps)
       /\ unsent' = (a = "revert")

(* Mutants: the boot revert counted like a run's control; a failure that is *)
(* recorded but not counted.                                                *)
DoneCountsAll(a, ok) ==
    /\ owed' = owed - 1
    /\ pstate' = IF a # "apply" THEN pstate
                 ELSE IF ok THEN "applied" ELSE "failed"

DoneCountsAcks(a, ok) ==
    /\ owed' = IF ok THEN owed - Counts(a) ELSE owed
    /\ pstate' = IF a # "apply" THEN pstate
                 ELSE IF ok THEN "applied" ELSE "failed"

(* The callback of an outcome, on the adapter's thread.                     *)
Done(a, ok) ==
    /\ owed' = owed - Counts(a)
    /\ pstate' = IF a # "apply" THEN pstate
                 ELSE IF ok THEN "applied" ELSE "failed"

(* An ack or failure arrives: it is taken for the oldest entry.             *)
on_control(ok) ==
    /\ up
    /\ unanswered > 0
    /\ unanswered' = unanswered - 1
    /\ IF pending = <<>> THEN UNCHANGED <<pending, owed, pstate>>
       ELSE pending' = Tail(pending) /\ Done(Head(pending), ok)
    /\ UNCHANGED <<procVars, policy, stale, marker, envVars>>

expire_controls ==
    /\ up
    /\ pending # <<>>
    /\ pending' = Tail(pending)
    /\ Done(Head(pending), FALSE)
    /\ UNCHANGED <<unanswered, procVars, policy, stale, marker, envVars>>

AnswerLost ==
    /\ unanswered > 0
    /\ unanswered' = unanswered - 1
    /\ UNCHANGED <<pending, procVars, rcVars, envVars>>

-----------------------------------------------------------------------------
(* Policies.                                                                *)

(* XappContext.node: the configured node, or one that is connected.         *)
NodeChoice == IF wanted # None THEN {wanted} ELSE connected

Refused ==
    /\ up /\ doing = "policy"
    /\ \/ request = Invalid /\ UNCHANGED pstate
       \/ request # Invalid /\ NodeChoice = {} /\ pstate' = "failed"
    /\ doing' = "idle"
    /\ request' = NoRequest
    /\ UNCHANGED <<up, ends, closing, active, wanted, policy, stale, owed,
                   marker, portVars, envVars>>

(* ctx.node() and the UE asked for.                                         *)
NewPolicy ==
    {[target |-> <<g, request.ue>>, steps |-> request.steps] : g \in NodeChoice}

(* Mutant: the replaced policy is not reverted.                             *)
on_policyReplaces ==
    /\ up /\ doing = "policy"
    /\ request \in Parses
    /\ policy' \in NewPolicy
    /\ pstate' = "pending"
    /\ doing' = "mark"
    /\ request' = NoRequest
    /\ UNCHANGED <<up, ends, closing, active, wanted, stale, owed, marker,
                   portVars, envVars>>

(* Up to the marker.  The policy it replaces is reverted first, if that one *)
(* is for another UE.                                                       *)
on_policy ==
    /\ up /\ doing = "policy"
    /\ request \in Parses
    /\ policy' \in NewPolicy
    /\ IF policy # NoPolicy /\ policy.target[2] # request.ue
       THEN Send("revert", policy.target, FALSE, "pending")
       ELSE pstate' = "pending" /\ UNCHANGED <<owed, portVars, capped, unsent>>
    /\ doing' = "mark"
    /\ request' = NoRequest
    /\ UNCHANGED <<up, ends, closing, active, wanted, stale, marker, connected,
                   adminLost>>

(* _write_marker: write_text truncates the file, then fills it.             *)
open_marker ==
    /\ up /\ doing = "mark"
    /\ marker' = Torn
    /\ doing' = "write"
    /\ unsent' = FALSE
    /\ UNCHANGED <<up, ends, closing, request, active, wanted, policy, pstate,
                   stale, owed, portVars, connected, adminLost, capped>>

write_marker ==
    /\ up /\ doing = "write"
    /\ marker' = policy.target
    /\ doing' = "apply"
    /\ UNCHANGED <<up, ends, closing, request, active, wanted, policy, pstate,
                   stale, owed, portVars, envVars>>

(* The rest of on_policy: the policy itself.                                *)
send_apply ==
    /\ up /\ doing = "apply"
    /\ Send("apply", policy.target, TRUE, pstate)
    /\ doing' = "idle"
    /\ UNCHANGED <<up, ends, closing, request, active, wanted, policy, stale,
                   marker, connected, adminLost>>

(* A schedule step falls due; it may lift the cap or set another.           *)
tick_step ==
    /\ Free /\ active
    /\ policy # NoPolicy /\ policy.steps > 0
    /\ policy' = [policy EXCEPT !.steps = @ - 1]
    /\ \E cap \in BOOLEAN : Send("apply", policy.target, cap, pstate)
    /\ UNCHANGED <<procVars, stale, marker, connected, adminLost>>

(* _revert, up to what it does after the control is out.                    *)
SendRevert ==
    /\ policy # NoPolicy
    /\ Send("revert", policy.target, FALSE, pstate)
    /\ doing' = "clear"
    /\ UNCHANGED <<up, ends, request, active, wanted, policy, stale, marker,
                   connected, adminLost>>

(* The rest of _revert: the policy is forgotten and the marker removed.     *)
clear_marker ==
    /\ up /\ doing = "clear"
    /\ policy' = NoPolicy
    /\ pstate' = "reverted"
    /\ marker' = NoTarget
    /\ doing' = IF closing = NotClosing THEN "idle" ELSE "wait"
    /\ unsent' = FALSE
    /\ UNCHANGED <<up, ends, closing, request, active, wanted, stale, owed,
                   portVars, connected, adminLost, capped>>

(* Mutant: the loss of the admin is looked at only in the schedule's loop.  *)
tick_admin_lostInLoop ==
    /\ Free /\ active
    /\ adminLost
    /\ policy.steps > 0
    /\ SendRevert
    /\ UNCHANGED closing

tick_admin_lost ==
    /\ Free /\ active
    /\ adminLost
    /\ SendRevert
    /\ UNCHANGED closing

-----------------------------------------------------------------------------
(* What a crash left behind.                                                *)

(* The node of the marker if it is connected, else any.                     *)
StaleNode == IF stale[1] \in connected THEN {stale[1]} ELSE connected

(* Mutant: boot is retried only between runs.                               *)
on_bootWhenIdle ==
    /\ Free /\ ~active
    /\ stale # NoTarget
    /\ \E g \in StaleNode : capped' = AfterCap(<<g, stale[2]>>, FALSE)
    /\ SendOk("boot")
    /\ doing' = "unlink"
    /\ UNCHANGED <<up, ends, closing, request, active, wanted, policy, pstate,
                   stale, marker, connected, adminLost, unsent>>

on_boot ==
    /\ Free
    /\ stale # NoTarget
    /\ \E g \in StaleNode : capped' = AfterCap(<<g, stale[2]>>, FALSE)
    /\ SendOk("boot")
    /\ doing' = "unlink"
    /\ UNCHANGED <<up, ends, closing, request, active, wanted, policy, pstate,
                   stale, marker, connected, adminLost, unsent>>

(* Not sent: on_boot returns False and the next tick tries again.           *)
on_boot_raises ==
    /\ Free
    /\ stale # NoTarget
    /\ StaleNode # {}
    /\ SendRaises("boot")
    /\ UNCHANGED <<procVars, policy, pstate, stale, marker, envVars>>

(* Mutant: the marker goes whoever wrote it.                                *)
unlinkAny ==
    /\ up /\ doing = "unlink"
    /\ stale' = NoTarget
    /\ marker' = NoTarget
    /\ doing' = "idle"
    /\ UNCHANGED <<up, ends, closing, request, active, wanted, policy, pstate,
                   owed, portVars, envVars>>

(* The marker goes unless it is this process's own by now.                  *)
unlink ==
    /\ up /\ doing = "unlink"
    /\ stale' = NoTarget
    /\ marker' = IF policy = NoPolicy THEN NoTarget ELSE marker
    /\ doing' = "idle"
    /\ UNCHANGED <<up, ends, closing, request, active, wanted, policy, pstate,
                   owed, portVars, envVars>>

-----------------------------------------------------------------------------
(* Runs.  A command reaches the main thread only while the admin does.      *)

(* start_run once no other run is active.                                   *)
Begin(p) ==
    /\ active' = TRUE
    /\ wanted' = p.node
    /\ request' = p.policy
    /\ doing' = IF p.policy = NoRequest THEN "idle" ELSE "policy"

start_run(p) ==
    /\ Free /\ ~active /\ ~adminLost
    /\ Room(2)
    /\ Begin(p)
    /\ UNCHANGED <<up, ends, closing, rcVars, portVars, envVars>>

(* stop_run: revert, then wait for the outcomes still owed.                 *)
stop_run(then) ==
    /\ Free /\ active
    /\ closing' = then
    /\ \/ SendRevert
       \/ /\ policy = NoPolicy
          /\ doing' = "wait"
          /\ UNCHANGED <<up, ends, request, active, wanted, rcVars, portVars,
                         envVars>>

run_stop == ~adminLost /\ stop_run(ReturnTo("idle"))

(* A run.start for another run stops the active one first.                  *)
replace_run(p) == ~adminLost /\ Room(3) /\ stop_run([to |-> "start", params |-> p])

ran_policy(p) ==
    /\ Free /\ active /\ ~adminLost
    /\ Room(2)
    /\ request' = p
    /\ doing' = "policy"
    /\ UNCHANGED <<up, ends, closing, active, wanted, rcVars, portVars,
                   envVars>>

(* Outcomes are bounded by CONTROL_TIMEOUT_S, below STOP_ACK_WAIT_S, so the *)
(* deadline of the wait itself does not strike.                             *)
AllOutcomesIn == owed <= 0

stopped ==
    /\ up /\ doing = "wait"
    /\ AllOutcomesIn
    /\ closing' = NotClosing
    /\ \/ /\ closing.to = "start"
          /\ Begin(closing.params)
          /\ UNCHANGED <<up, ends>>
       \/ /\ closing.to = "idle"
          /\ active' = FALSE /\ doing' = "idle" /\ wanted' = None
          /\ UNCHANGED <<up, ends, request>>
       \/ /\ closing.to = "exit"
          /\ active' = FALSE /\ doing' = "idle" /\ wanted' = None
          /\ up' = FALSE /\ ends' = ends + 1
          /\ UNCHANGED request
    /\ UNCHANGED <<rcVars, portVars, envVars>>

-----------------------------------------------------------------------------
(* The process.                                                             *)

(* SIGTERM: main's finally.                                                 *)
terminate ==
    /\ ends < MaxEnds
    /\ \/ stop_run(ReturnTo("exit"))
       \/ /\ Free /\ ~active
          /\ up' = FALSE /\ ends' = ends + 1
          /\ UNCHANGED <<doing, closing, request, active, wanted, rcVars,
                         portVars, envVars>>

Crash ==
    /\ up /\ ends < MaxEnds
    /\ up' = FALSE
    /\ ends' = ends + 1
    /\ UNCHANGED <<doing, closing, request, active, wanted, rcVars, portVars,
                   envVars>>

(* A new process; main calls boot first, whose on_boot reads the marker and *)
(* removes one it cannot read.                                              *)
Launch ==
    /\ ~up
    /\ up' = TRUE
    /\ doing' = "idle" /\ closing' = NotClosing /\ request' = NoRequest
    /\ active' = FALSE /\ wanted' = None
    /\ policy' = NoPolicy /\ pstate' = None /\ owed' = 0
    /\ marker' = IF marker = Torn THEN NoTarget ELSE marker
    /\ stale' = marker'
    /\ pending' = <<>>
    /\ unsent' = FALSE
    /\ UNCHANGED <<ends, unanswered, connected, adminLost, capped>>

-----------------------------------------------------------------------------
(* The outside.                                                             *)

E2Changes ==
    /\ \E g \in Gnb : connected' = IF g \in connected THEN connected \ {g}
                                                      ELSE connected \cup {g}
    /\ UNCHANGED <<procVars, rcVars, portVars, adminLost, capped, unsent>>

AdminChanges ==
    /\ adminLost' = ~adminLost
    /\ UNCHANGED <<procVars, rcVars, portVars, connected, capped, unsent>>

-----------------------------------------------------------------------------
Init ==
    /\ up = TRUE /\ ends = 0
    /\ doing = "idle" /\ closing = NotClosing /\ request = NoRequest
    /\ active = FALSE /\ wanted = None
    /\ policy = NoPolicy /\ pstate = None /\ stale = NoTarget /\ owed = 0
    /\ marker = NoTarget
    /\ pending = <<>> /\ unanswered = 0
    /\ connected = {} /\ adminLost = FALSE /\ capped = {} /\ unsent = FALSE

Command ==
    \/ \E p \in Params : start_run(p)
    \/ \E p \in Params : replace_run(p)
    \/ \E p \in Parses \cup {Invalid} : ran_policy(p)
    \/ run_stop

MainStep ==
    \/ Refused \/ on_policy \/ open_marker \/ write_marker \/ send_apply
    \/ clear_marker \/ unlink \/ stopped

Outcome ==
    \/ \E ok \in BOOLEAN : on_control(ok)
    \/ expire_controls

Next ==
    \/ Command \/ MainStep
    \/ tick_step \/ tick_admin_lost \/ on_boot \/ on_boot_raises
    \/ Outcome \/ AnswerLost
    \/ terminate \/ Crash \/ Launch
    \/ E2Changes \/ AdminChanges

Spec == Init /\ [][Next]_vars

(* The main thread finishes what it began and ticks; the adapter's loop     *)
(* expires what is not answered.  on_boot is tried at every tick, which may *)
(* find no E2 node: strong fairness says a try that can succeed again and   *)
(* again does.  Nothing is assumed of answers, commands or crashes.         *)
Fairness ==
    /\ WF_vars(MainStep)
    /\ WF_vars(tick_admin_lost)
    /\ WF_vars(expire_controls)
    /\ SF_vars(on_boot)

FairSpec == Spec /\ Fairness

-----------------------------------------------------------------------------
(* Properties.                                                              *)

(* The traces of a cap: it is the policy in force, what on_boot read, or in *)
(* the marker.                                                              *)
Owned(t) ==
    \/ up /\ policy # NoPolicy /\ policy.target = t
    \/ up /\ stale = t
    \/ marker = t

Orphan(t) == t \in capped /\ ~Owned(t)

(* A policy is given up though its revert was not handed over: at its end,  *)
(* or for a policy for another UE.                                          *)
RevertRaised(t) ==
    /\ unsent
    /\ \/ doing = "clear" /\ policy.target = t
       \/ doing = "mark" /\ marker = t

(* The process dies within the write of the marker.                         *)
EndsBeforeMarker(t) ==
    /\ up /\ ~up'
    /\ doing \in {"mark", "write"}
    /\ policy.target = t

(* With one E2 node and one end of the process, a policy outlives its run   *)
(* without a trace only where the send of its revert raised, or where the   *)
(* process dies in the middle of writing the marker anew (rc_control.py:    *)
(* "a policy never outlives its run"; _send, _revert and _write_marker).    *)
CapSlipsOnlySo ==
    [][\A t \in Target :
         Orphan(t)' /\ ~Orphan(t) => RevertRaised(t) \/ EndsBeforeMarker(t)]_vars

(* The policy in force is on disk once its marker is written, so that a     *)
(* crash leaves a trace of it; on_boot of an older marker must not take it  *)
(* away ("The file is only removed while no policy of this process is in    *)
(* force").                                                                 *)
InForceIsOnDisk ==
    up /\ policy # NoPolicy /\ doing \notin {"mark", "write"} =>
        marker = policy.target

(* A policy found at boot is reverted once an E2 node stays connected,      *)
(* whatever runs are started meanwhile (on_boot's retries).                 *)
StaleIsReverted ==
    <>[](connected # {}) => (up /\ stale # NoTarget ~> ~up \/ stale = NoTarget)

(* An xApp nobody can tell to stop stops its policy on its own (tick).      *)
LostAdminReverts ==
    up /\ policy # NoPolicy /\ adminLost ~> ~up \/ policy = NoPolicy \/ ~adminLost

(* run.stop returns: the wait for outcomes ends without a deadline, since   *)
(* every control gets an outcome, and each one is counted (on_stop).        *)
StopEnds ==
    up /\ doing = "wait" ~> ~up \/ doing # "wait"
=============================================================================
