------------------------------ MODULE KpmFeed -------------------------------
(***************************************************************************)
(* The xApp's KPM subscription over the JSON E2 feed: the kpm_monitor      *)
(* capability, the JsonFeedPort it subscribes through, the transport under *)
(* it (sim.py: a WebSocket to gnb-sim; flexric.py: a bridge process) and   *)
(* the far end that serves the subscriptions.                              *)
(*                                                                         *)
(* The MAIN thread sends one request at a time and waits for its answer or *)
(* a timeout; each link has a READER that hands answers over, also when    *)
(* the link is gone and another one stands; the far end forgets all when   *)
(* its link goes, and the bridge may refuse at any time what it granted    *)
(* before.  Indications and the time between two tries are left out.  An   *)
(* id is the number of its subscription.                                   *)
(***************************************************************************)
EXTENDS Naturals, Sequences, SequencesExt

CONSTANTS
    Adapters,    \* the transports considered: "sim", "flexric"
    MaxRuns,     \* bound: runs started
    MaxDrops,    \* bound: how often the link goes
    MaxLate,     \* bound: requests given up although the link stands
    MaxRefusals, \* bound: what the bridge refuses
    MaxQueue     \* bound: messages under way to the far end

ASSUME FeedAssumption ==
    /\ Adapters \subseteq {"sim", "flexric"}
    /\ MaxRuns \in Nat /\ MaxDrops \in Nat /\ MaxLate \in Nat
    /\ MaxRefusals \in Nat /\ MaxQueue \in Nat

(* A run asks once, and again for every request that failed: two can with  *)
(* a link, the one on it and one its reader fails when it comes to exit.   *)
NoSub == 0
MaxAsked == MaxRuns + 2 * MaxDrops + MaxLate + MaxRefusals
Sub == 1..MaxAsked
Message(op, id) == [op |-> op, id |-> id]
Requests == {Message("nodes", NoSub)}
              \cup {Message(op, i) : op \in {"subscribe", "unsubscribe"}, i \in Sub}
Replies == {Message("nodes", NoSub), Message("no_nodes", NoSub)}
              \cup {Message(op, i) : op \in {"subscribed", "subscribe_failed"}, i \in Sub}

(* What the main thread is at: nothing, the nodes (for a status or before  *)
(* it subscribes), about to subscribe, or subscribing.                     *)
Idle == Message("idle", NoSub)
Waiting == {Message("nodes", 0), Message("nodes first", 0)}
              \cup {Message("subscribe", i) : i \in Sub}

(* What the reader of a bridge does last.                                  *)
Exit == Message("exit", NoSub)

VARIABLES
    adapter,     \* one of Adapters
    run,         \* the run, 0 without one
    runs,        \* runs started
    doing,       \* the main thread
    reply,       \* the answer handed to it, or Idle
    handle,      \* KpmMonitor.handle
    subs,        \* JsonFeedPort._subs
    requests,    \* JsonFeedPort._sub_requests
    ids,         \* JsonFeedPort._ids: how many were given out
    up,          \* whether the far end can be reached
    linked,      \* whether there is a link to it
    out, in,     \* the messages under way on it
    reading,     \* whether its reader lives
    old,         \* what the readers of the links that went have left to do
    served,      \* the subscriptions the far end serves on the link,
    refused,     \* those it refused on it,
    granted,     \* and those it granted on any
    drops,       \* how often the link went
    refusals,    \* how often the bridge refused
    abandoned,   \* the ids whose request failed before its answer counted
    givenUp      \* how often one was given up on a link that stands

mainVars == <<run, runs, doing, handle, ids>>
lossVars == <<abandoned, givenUp>>
portVars == <<adapter, subs, requests>>
farVars == <<up, served, refused, granted, refusals>>
linkVars == <<linked, out, in, reading, old, drops>>
vars == <<mainVars, reply, lossVars, portVars, farVars, linkVars>>

-----------------------------------------------------------------------------
(* The transport.                                                           *)

(* _connect, _ensure: a new link starts with the subscriptions held.        *)
Resubscribe(held) ==
    LET kept == SetToSeq(held)
    IN  [i \in 1..Len(kept) |-> Message("subscribe", kept[i])]

(* _send, with the subscriptions held.  gnb-sim may be unreachable; a       *)
(* bridge that is gone is started again.                                    *)
CanSend == linked \/ up
Send(msg, held) ==
    /\ CanSend
    /\ out' = Append(IF linked THEN out ELSE Resubscribe(held), msg)
    /\ Len(out') <= MaxQueue
    /\ linked' = TRUE
    /\ UNCHANGED <<in, reading, old, drops, farVars>>

(* The link goes with what is under way to the far end, which forgets; its  *)
(* reader keeps what it had still to hand over.  gnb-sim may be gone for    *)
(* some time.                                                               *)
LinkDrops(stays) ==
    /\ linked /\ drops < MaxDrops
    /\ up' = stays /\ (stays \/ adapter = "sim")
    /\ linked' = FALSE /\ reading' = TRUE
    /\ out' = <<>> /\ in' = <<>>
    /\ served' = {} /\ refused' = {}
    /\ drops' = drops + 1
    /\ old' = [old EXCEPT ![drops + 1] =
                  IF ~reading THEN <<>>
                  ELSE IF adapter = "flexric" THEN Append(in, Exit) ELSE in]
    /\ UNCHANGED <<mainVars, reply, lossVars, portVars, granted, refusals>>

FeedStarts ==
    /\ ~up
    /\ up' = TRUE
    /\ UNCHANGED <<mainVars, reply, lossVars, portVars, linkVars, served, refused, granted, refusals>>

-----------------------------------------------------------------------------
(* The far end (gnb_sim.py's handler, the bridge): one message at a time.   *)
(* What no reader reads is not kept.                                        *)
Answer(msgs) ==
    /\ out' = Tail(out)
    /\ in' = IF reading THEN in \o msgs ELSE in
    /\ UNCHANGED <<mainVars, reply, lossVars, portVars, up, linked, reading, old, drops>>

(* gnb-sim grants whatever is asked.  The bridge refuses while it has no    *)
(* E2 node or no slot left, or when the node refuses.                       *)
MayRefuse == adapter = "flexric" /\ refusals < MaxRefusals

FeedHears ==
    /\ out # <<>>
    /\ LET m == Head(out)
       IN  \/ /\ m.op = "nodes"
              /\ Answer(<<m>>)
              /\ UNCHANGED <<served, refused, granted, refusals>>
           \/ /\ m.op = "nodes" /\ MayRefuse
              /\ Answer(<<Message("no_nodes", NoSub)>>)
              /\ refusals' = refusals + 1
              /\ UNCHANGED <<served, refused, granted>>
           \/ /\ m.op = "subscribe"
              /\ Answer(<<Message("subscribed", m.id)>>)
              /\ served' = served \cup {m.id}
              /\ granted' = granted \cup {m.id}
              /\ UNCHANGED <<refused, refusals>>
           \/ /\ m.op = "subscribe" /\ MayRefuse
              /\ Answer(<<Message("subscribe_failed", m.id)>>)
              /\ refused' = refused \cup {m.id}
              /\ refusals' = refusals + 1
              /\ UNCHANGED <<served, granted>>
           \/ /\ m.op = "unsubscribe"
              /\ Answer(<<>>)
              /\ served' = served \ {m.id}
              /\ UNCHANGED <<refused, granted, refusals>>

-----------------------------------------------------------------------------
(* The readers.  An answer nobody waits for is dropped; one refused wakes   *)
(* the same waiter as one accepted.                                         *)
Awaited(m) ==
    \/ m.op \in {"nodes", "no_nodes"} /\ doing.op \in {"nodes", "nodes first"}
    \/ m.op \in {"subscribed", "subscribe_failed"} /\ doing = Message("subscribe", m.id)

Deliver(m) ==
    /\ reply' = IF Awaited(m) THEN m ELSE reply
    /\ UNCHANGED lossVars

dispatch ==
    /\ in # <<>> /\ reading
    /\ Deliver(Head(in))
    /\ in' = Tail(in)
    /\ UNCHANGED <<mainVars, portVars, farVars, linked, out, reading, old, drops>>

(* The reader of a bridge that exited refuses whatever subscription waits   *)
(* by then, also one asked of the bridge started since.                     *)
FailWaiting ==
    IF doing.op = "subscribe"
    THEN /\ reply' = Message("subscribe_failed", doing.id)
         /\ abandoned' = abandoned \cup {doing.id}
         /\ UNCHANGED givenUp
    ELSE UNCHANGED <<reply, lossVars>>

dispatchOld(k) ==
    /\ old[k] # <<>>
    /\ IF Head(old[k]) = Exit THEN FailWaiting ELSE Deliver(Head(old[k]))
    /\ old' = [old EXCEPT ![k] = Tail(@)]
    /\ UNCHANGED <<mainVars, portVars, farVars, linked, out, in, reading, drops>>

GiveUp ==
    /\ doing' = Idle
    /\ abandoned' = IF doing.op = "subscribe" THEN abandoned \cup {doing.id} ELSE abandoned
    /\ UNCHANGED <<run, runs, handle, ids, portVars>>

(* _request gives up between the reader's look at _replies and its use of   *)
(* it, and the KeyError ends the reader: a bridge is read no more while it  *)
(* runs; to gnb-sim the xApp will connect again.                            *)
AnswerCrossesTimeout ==
    /\ doing \in Waiting /\ reply = Idle
    /\ in # <<>> /\ reading /\ Awaited(Head(in))
    /\ givenUp < MaxLate /\ givenUp' = givenUp + 1
    /\ GiveUp
    /\ in' = <<>>
    /\ IF adapter = "flexric"
       THEN reading' = FALSE /\ UNCHANGED <<linked, out, served, refused>>
       ELSE /\ linked' = FALSE /\ out' = <<>> /\ served' = {} /\ refused' = {}
            /\ UNCHANGED reading
    /\ UNCHANGED <<reply, up, granted, refusals, old, drops>>

-----------------------------------------------------------------------------
(* The monitor, on the main thread.                                         *)

on_start ==
    /\ doing = Idle /\ run = 0 /\ runs < MaxRuns
    /\ run' = runs + 1 /\ runs' = runs + 1
    /\ handle' = NoSub
    /\ UNCHANGED <<doing, reply, ids, lossVars, portVars, farVars, linkVars>>

(* Mutant: the request is kept, to be sent again on the next link.          *)
unsubscribeOnce ==
    /\ subs' = subs \ {handle}
    /\ IF CanSend THEN Send(Message("unsubscribe", handle), requests)
                  ELSE UNCHANGED <<farVars, linkVars>>
    /\ UNCHANGED <<adapter, requests>>

(* unsubscribe: the far end is told if it can be; what it holds is gone     *)
(* with a link that fails.                                                  *)
unsubscribe ==
    /\ subs' = subs \ {handle}
    /\ requests' = requests \ {handle}
    /\ IF CanSend THEN Send(Message("unsubscribe", handle), requests')
                  ELSE UNCHANGED <<farVars, linkVars>>
    /\ UNCHANGED adapter

on_stop ==
    /\ doing = Idle /\ run # 0
    /\ run' = 0 /\ handle' = NoSub
    /\ IF handle # NoSub THEN unsubscribe ELSE UNCHANGED <<portVars, farVars, linkVars>>
    /\ UNCHANGED <<runs, doing, reply, ids, lossVars>>

(* Mutant: without a link a status says there are no_nodes, and asks none.  *)
connected_nodes_if_linked(why) ==
    /\ doing = Idle /\ linked
    /\ why = "nodes first" => run # 0 /\ handle = NoSub
    /\ Send(Message("nodes", NoSub), requests)
    /\ doing' = Message(why, NoSub)
    /\ reply' = Idle
    /\ UNCHANGED <<run, runs, handle, ids, lossVars, portVars>>

(* connected_nodes, for a status and before a subscription that names no    *)
(* node: without a link there are none.                                     *)
connected_nodes(why) ==
    /\ doing = Idle
    /\ why = "nodes first" => run # 0 /\ handle = NoSub
    /\ Send(Message("nodes", NoSub), requests)
    /\ doing' = Message(why, NoSub)
    /\ reply' = Idle
    /\ UNCHANGED <<run, runs, handle, ids, lossVars, portVars>>

(* subscribe_kpm: the callback is registered before the request leaves.  An *)
(* id whose request cannot leave is known to nobody, and not counted.       *)
(* Bound: what nobody reads the answer of counts as given up.               *)
subscribe_kpm ==
    LET id == ids + 1
    IN  /\ run # 0 /\ handle = NoSub
        /\ id \in Sub
        /\ reading \/ givenUp < MaxLate
        /\ Send(Message("subscribe", id), requests)
        /\ ids' = id
        /\ subs' = subs \cup {id}
        /\ doing' = Message("subscribe", id)
        /\ reply' = Idle
        /\ UNCHANGED <<run, runs, handle, lossVars, adapter, requests>>

(* _try_subscribe: for the node the run names, or the first connected.      *)
try_subscribe ==
    \/ doing = Idle /\ subscribe_kpm
    \/ doing.op = "nodes first" /\ reply.op = "nodes" /\ subscribe_kpm

(* The nodes are known, for a status; or there are none, or there is no     *)
(* sending.                                                                 *)
NodesKnown ==
    /\ doing.op = "nodes" /\ reply # Idle
    /\ doing' = Idle /\ reply' = Idle
    /\ UNCHANGED <<run, runs, handle, ids, lossVars, portVars, farVars, linkVars>>

CannotAsk ==
    /\ doing.op = "nodes first" /\ reply # Idle
    /\ reply.op = "no_nodes" \/ ~CanSend
    /\ doing' = Idle /\ reply' = Idle
    /\ UNCHANGED <<run, runs, handle, ids, lossVars, portVars, farVars, linkVars>>

(* Mutant: the request is not kept, so no later link knows of it.           *)
SubscribedUnlisted ==
    /\ doing.op = "subscribe" /\ reply.op = "subscribed"
    /\ handle' = doing.id
    /\ doing' = Idle /\ reply' = Idle
    /\ UNCHANGED <<run, runs, ids, lossVars, portVars, farVars, linkVars>>

Subscribed ==
    /\ doing.op = "subscribe" /\ reply.op = "subscribed"
    /\ handle' = doing.id
    /\ requests' = requests \cup {doing.id}
    /\ doing' = Idle /\ reply' = Idle
    /\ UNCHANGED <<run, runs, ids, lossVars, adapter, subs, farVars, linkVars>>

(* Mutant: any answer to the request is taken for a grant.                  *)
RejectedIsHeld ==
    /\ doing.op = "subscribe" /\ reply.op = "subscribe_failed"
    /\ handle' = doing.id
    /\ requests' = requests \cup {doing.id}
    /\ doing' = Idle /\ reply' = Idle
    /\ UNCHANGED <<run, runs, ids, lossVars, adapter, subs, farVars, linkVars>>

Rejected ==
    /\ doing.op = "subscribe" /\ reply.op = "subscribe_failed"
    /\ subs' = subs \ {doing.id}
    /\ doing' = Idle /\ reply' = Idle
    /\ UNCHANGED <<run, runs, handle, ids, lossVars, adapter, requests, farVars, linkVars>>

(* _request gives up: the answer is lost with its link, or only late.  The  *)
(* callback of a subscription stays registered.                             *)
TimesOut ==
    /\ doing \in Waiting /\ reply = Idle
    /\ LET counts == linked /\ (reading \/ doing.op = "subscribe")
       IN  /\ counts => givenUp < MaxLate
           /\ givenUp' = IF counts THEN givenUp + 1 ELSE givenUp
    /\ GiveUp
    /\ UNCHANGED <<reply, farVars, linkVars>>

-----------------------------------------------------------------------------
Init ==
    /\ adapter \in Adapters
    /\ run = 0 /\ runs = 0
    /\ doing = Idle /\ reply = Idle
    /\ handle = NoSub /\ subs = {} /\ requests = {}
    /\ ids = 0 /\ abandoned = {} /\ givenUp = 0
    /\ up \in {TRUE, adapter # "sim"}
    /\ linked = FALSE /\ out = <<>> /\ in = <<>> /\ reading = TRUE
    /\ served = {} /\ refused = {} /\ granted = {}
    /\ old = [k \in 1..MaxDrops |-> <<>>]
    /\ drops = 0 /\ refusals = 0

Next ==
    \/ on_start \/ on_stop
    \/ \E why \in {"nodes", "nodes first"} : connected_nodes(why)
    \/ try_subscribe \/ NodesKnown \/ CannotAsk
    \/ Subscribed \/ Rejected \/ TimesOut \/ AnswerCrossesTimeout
    \/ \E k \in 1..MaxDrops : dispatchOld(k)
    \/ dispatch \/ FeedHears \/ FeedStarts
    \/ \E stays \in BOOLEAN : LinkDrops(stays)

Spec == Init /\ [][Next]_vars

(* The main loop comes round to its tick and to its status; requests end;   *)
(* a reader that lives and the far end go on.                               *)
FairSpec ==
    /\ Spec
    /\ SF_vars(connected_nodes("nodes")) /\ SF_vars(connected_nodes("nodes first"))
    /\ WF_vars(try_subscribe) /\ WF_vars(NodesKnown) /\ WF_vars(CannotAsk)
    /\ WF_vars(Subscribed) /\ WF_vars(Rejected) /\ WF_vars(TimesOut)
    /\ WF_vars(dispatch) /\ WF_vars(FeedHears)

-----------------------------------------------------------------------------
(* Type correctness, and what the port keeps of the subscription the        *)
(* monitor holds (kpm_monitor.py handle, jsonfeed.py _subs, _sub_requests). *)
FeedTypeOK ==
    /\ adapter \in Adapters
    /\ run \in 0..runs /\ runs \in 0..MaxRuns
    /\ doing \in Waiting \cup {Idle} /\ reply \in Replies \cup {Idle}
    /\ ids \in 0..MaxAsked
    /\ handle \in 1..ids \cup {NoSub}
    /\ requests \subseteq subs /\ subs \subseteq 1..ids
    /\ requests = {handle} \ {NoSub}
    /\ granted \cup refused \cup abandoned \subseteq 1..ids
    /\ served \subseteq granted
    /\ up \in BOOLEAN /\ linked \in BOOLEAN /\ reading \in BOOLEAN
    /\ drops \in 0..MaxDrops
    /\ out \in Seq(Requests) /\ Len(out) <= MaxQueue /\ in \in Seq(Replies)
    /\ old \in [1..MaxDrops -> Seq(Replies \cup {Exit})]
    /\ ~linked => out = <<>> /\ in = <<>> /\ served = {} /\ refused = {} /\ reading

(* What the status calls kpm_subscribed was granted; and on a link it is    *)
(* served, or the request for it is on its way, or the far end refused to   *)
(* take it up again (an answer that nobody waits for), across drops,        *)
(* reconnects, refusals, crossed timeouts and readers that lag.             *)
HeldIsServed ==
    handle # NoSub =>
        /\ handle \in granted
        /\ linked => \/ handle \in served \cup refused
                     \/ Contains(out, Message("subscribe", handle))

(* No subscription outlives its run: the far end serves what the monitor    *)
(* holds or is asking for, what it was just told to end, and otherwise only *)
(* what it granted too late (the request had timed out, or the reader of an *)
(* earlier bridge had failed it).  A reconnect never brings back the        *)
(* subscription of a run that is over.                                      *)
ServedIsOwned ==
    \A id \in served :
        \/ id = handle \/ doing = Message("subscribe", id)
        \/ Contains(out, Message("unsubscribe", id))
        \/ id \in abandoned

(* "A run survives a bridge crash with a gap" (flexric.py), and gnb-sim     *)
(* "may start after the xApp, and may restart under it" (sim.py): once the  *)
(* far end stays and is read, a run that goes on gets its subscription and  *)
(* keeps it, and the far end serves it, unless it refused to take it up     *)
(* again, which the code asks for once and never retries.                   *)
FeedRecovers ==
    <>[](up /\ reading /\ run # 0) =>
        <>[](handle # NoSub /\ handle \in served \cup refused)
=============================================================================
