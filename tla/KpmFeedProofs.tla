---------------------------- MODULE KpmFeedProofs ----------------------------
(***************************************************************************)
(* Theorems about the KPM feed: for any number of runs, of drops, of       *)
(* refusals and of requests given up.                                      *)
(***************************************************************************)
EXTENDS KpmFeed, FiniteSetTheorems, SequenceTheorems, TLAPS

Asks(id) == Message("subscribe", id)
Ends(id) == Message("unsubscribe", id)

(* Who is asking has a run and no subscription; its callback is registered. *)
MainFits ==
    /\ run = 0 => handle = NoSub
    /\ doing.op \in {"nodes first", "subscribe"} => run # 0 /\ handle = NoSub
    /\ doing.op = "subscribe" => doing.id \in subs

(* The answer handed over is the one waited for.                            *)
ReplyFits ==
    \/ reply = Idle
    \/ /\ doing.op \in {"nodes", "nodes first"}
       /\ reply \in {Message("nodes", NoSub), Message("no_nodes", NoSub)}
    \/ /\ doing.op = "subscribe"
       /\ reply \in {Message("subscribed", doing.id), Message("subscribe_failed", doing.id)}

(* Of the messages q under way: they name ids that were given out;          *)
GivenOut(q) == \A i \in 1..Len(q) : q[i].id \in 0..ids

(* none ends what is held or being asked for;                               *)
EndsOver(q) ==
    \A i \in 1..Len(q) : q[i].op = "unsubscribe" =>
        q[i].id # handle /\ doing # Asks(q[i].id)

(* what is asked for is asked for once, and neither granted nor refused     *)
(* before on the link;                                                      *)
AskedOnce(q) ==
    \A i \in 1..Len(q) : q[i].op = "subscribe" =>
        /\ q[i].id \notin served \cup refused
        /\ \A j \in (i+1)..Len(q) : q[j] # Asks(q[i].id)

(* and it is owned, or ended after.                                         *)
AsksOwned(q) ==
    \A i \in 1..Len(q) : q[i].op = "subscribe" =>
        \/ q[i].id = handle \/ doing = Asks(q[i].id) \/ q[i].id \in abandoned
        \/ \E j \in (i+1)..Len(q) : q[j] = Ends(q[i].id)

(* The answers still waited for that are under way tell what the far end    *)
(* does;                                                                    *)
Answers(q) ==
    \A i \in 1..Len(q) :
        /\ q[i].op = "subscribed" =>
              /\ q[i].id \in granted
              /\ doing = Asks(q[i].id) => q[i].id \in served
        /\ q[i].op = "subscribe_failed" =>
              (doing = Asks(q[i].id) => q[i].id \in refused)

(* those of an earlier link are waited for only until there is another;     *)
OldAnswers(q) ==
    \A i \in 1..Len(q) :
        /\ q[i].op = "subscribed" => q[i].id \in granted
        /\ q[i].op \in {"subscribed", "subscribe_failed"} =>
              (doing = Asks(q[i].id) => ~linked)

(* and so it is with the one handed over, unless it is an earlier reader's. *)
ReplyTrue ==
    /\ reply.op = "subscribed" => doing.id \in granted /\ (linked => doing.id \in served)
    /\ reply.op = "subscribe_failed" =>
          doing.id \in refused \/ ~linked \/ doing.id \in abandoned

FarFits == served \cap refused = {}

OldFits == \A k \in 1..MaxDrops : GivenOut(old[k]) /\ OldAnswers(old[k])

FeedInv ==
    /\ FeedTypeOK /\ MainFits /\ ReplyFits /\ ReplyTrue
    /\ GivenOut(out) /\ EndsOver(out) /\ AskedOnce(out) /\ AsksOwned(out)
    /\ GivenOut(in) /\ Answers(in) /\ OldFits /\ FarFits
    /\ HeldIsServed /\ ServedIsOwned
-----------------------------------------------------------------------------
LEMMA NoElements == ASSUME NEW S, NEW f \in [1..0 -> S] PROVE f = <<>>
  <1>1. f \in Seq(S)
    BY SeqDef
  <1>2. Len(f) \in Nat /\ DOMAIN f = 1..Len(f)
    BY <1>1, LenProperties
  <1>3. Len(f) = 0
    BY <1>2
  <1> QED BY <1>1, <1>3, EmptySeq

LEMMA ResubscribeNone == Resubscribe({}) = <<>>
  <1> DEFINE kept == SetToSeq({})
  <1>1. \A f \in [1..0 -> {}] : IsInjective(f)
    BY DEF IsInjective
  <1>2. [i \in 1..0 |-> i] \in [1..0 -> {}]
    OBVIOUS
  <1>3. kept \in [1..0 -> {}]
    BY <1>1, <1>2, FS_EmptySet DEF SetToSeq
  <1>4. kept = <<>>
    BY <1>3, NoElements
  <1>5. Resubscribe({}) = [i \in 1..0 |-> Message("subscribe", kept[i])]
    BY <1>4 DEF Resubscribe
  <1>6. Resubscribe({}) \in [1..0 -> {Message("subscribe", kept[i]) : i \in 1..0}]
    BY <1>5
  <1> QED BY <1>6, NoElements

LEMMA ResubscribeOne ==
    ASSUME NEW h PROVE Resubscribe({h}) = <<Asks(h)>>
  <1> DEFINE kept == SetToSeq({h})
  <1>1. Cardinality({h}) = 1
    BY FS_Singleton
  <1>2. \A f \in [1..1 -> {h}] : IsInjective(f)
    BY DEF IsInjective
  <1>3. [i \in 1..1 |-> h] \in [1..1 -> {h}]
    OBVIOUS
  <1>4. kept = CHOOSE f \in [1..1 -> {h}] : IsInjective(f)
    BY <1>1 DEF SetToSeq
  <1>5. kept \in [1..1 -> {h}]
    BY <1>2, <1>3, <1>4
  <1>6. kept = <<h>>
    BY <1>5
  <1>7. Resubscribe({h}) = [i \in 1..1 |-> Message("subscribe", kept[i])]
    BY <1>6 DEF Resubscribe
  <1> QED BY <1>6, <1>7 DEF Asks

(* What the link holds before a message is sent on it.                      *)
Before(h) == IF linked THEN out ELSE IF h = NoSub THEN <<>> ELSE <<Asks(h)>>

LEMMA SendsMessage ==
    ASSUME NEW msg, NEW h, NEW held, held = {h} \ {NoSub}, Send(msg, held)
    PROVE  out' = Append(Before(h), msg)
  <1>1. out' = Append(IF linked THEN out ELSE Resubscribe(held), msg)
    BY Zenon DEF Send
  <1>2. CASE linked
    BY <1>1, <1>2 DEF Before
  <1>3. CASE ~linked /\ h = NoSub
    <2>1. held = {}
      BY <1>3
    <2> QED BY <1>1, <1>3, <2>1, ResubscribeNone DEF Before
  <1>4. CASE ~linked /\ h # NoSub
    <2>1. held = {h}
      BY <1>4
    <2> QED BY <1>1, <1>4, <2>1, ResubscribeOne DEF Before
  <1> QED BY <1>2, <1>3, <1>4

LEMMA DoingForms ==
    ASSUME FeedTypeOK
    PROVE  /\ doing.op = "subscribe" => doing.id \in Sub /\ doing = Asks(doing.id)
           /\ doing.op # "subscribe" => \A id : doing # Asks(id)
  <1>1. CASE \E i \in Sub : doing = Asks(i)
    <2> PICK i \in Sub : doing = Asks(i)
      BY <1>1
    <2>1. doing.op = "subscribe" /\ doing.id = i
      BY DEF Asks, Message
    <2> QED BY <2>1
  <1>2. CASE doing \in {Message("nodes", 0), Message("nodes first", 0), Idle}
    <2>1. doing.op \in {"nodes", "nodes first", "idle"}
      <3>1. CASE doing = Message("nodes", 0)
        BY <3>1 DEF Message
      <3>2. CASE doing = Message("nodes first", 0)
        BY <3>2 DEF Message
      <3>3. CASE doing = Idle
        BY <3>3 DEF Idle, Message
      <3> QED BY <1>2, <3>1, <3>2, <3>3
    <2>2. \A id : Asks(id).op = "subscribe"
      BY DEF Asks, Message
    <2> QED BY <2>1, <2>2
  <1> QED BY <1>1, <1>2 DEF FeedTypeOK, Waiting, Asks

LEMMA RequestForms ==
    /\ Message("nodes", NoSub) \in Requests
    /\ \A id \in Sub : Asks(id) \in Requests /\ Ends(id) \in Requests
  <1>1. Message("nodes", NoSub) \in Requests
    BY DEF Requests, Message
  <1>2. \A id \in Sub : Asks(id) \in Requests /\ Ends(id) \in Requests
    BY DEF Requests, Asks, Ends
  <1> QED BY <1>1, <1>2

LEMMA IdsAreSubs ==
    ASSUME FeedTypeOK
    PROVE  /\ ids \in Nat /\ NoSub \in 0..ids
           /\ 1..ids \subseteq Sub
           /\ handle # NoSub => handle \in 1..ids
           /\ out \in Seq(Requests) /\ Len(out) \in Nat
           /\ in \in Seq(Replies) /\ Len(in) \in Nat
  <1>1. ids \in 0..MaxAsked /\ MaxAsked \in Nat
    BY FeedAssumption DEF FeedTypeOK, MaxAsked
  <1>2. out \in Seq(Requests) /\ in \in Seq(Replies)
    BY DEF FeedTypeOK
  <1>3. Len(out) \in Nat /\ Len(in) \in Nat
    BY <1>2, LenProperties
  <1>4. handle # NoSub => handle \in 1..ids
    BY DEF FeedTypeOK
  <1>5. 1..ids \subseteq Sub
    BY <1>1 DEF Sub
  <1>6. ids \in Nat /\ NoSub \in 0..ids
    BY <1>1 DEF NoSub
  <1> QED BY <1>2, <1>3, <1>4, <1>5, <1>6

LEMMA MessageIds ==
    /\ \A m \in Requests : m.op \in {"subscribe", "unsubscribe"} =>
          m.id \in Sub /\ m = Message(m.op, m.id)
    /\ \A m \in Requests : m.op \in {"nodes", "subscribe", "unsubscribe"}
    /\ \A m \in Requests : m.op = "nodes" => m = Message("nodes", NoSub)
    /\ \A m \in Replies : m.op \in {"subscribed", "subscribe_failed"} =>
          m.id \in Sub /\ m = Message(m.op, m.id)
    /\ \A m \in Replies :
          /\ m.op \in {"nodes", "no_nodes", "subscribed", "subscribe_failed"}
          /\ m.op \in {"nodes", "no_nodes"} => m = Message(m.op, NoSub)
    /\ NoSub \notin Sub
  <1>1. \A op, i : Message(op, i).op = op /\ Message(op, i).id = i
    BY DEF Message
  <1>2. ASSUME NEW m \in Requests
        PROVE  \/ m = Message("nodes", NoSub)
               \/ \E op \in {"subscribe", "unsubscribe"}, i \in Sub : m = Message(op, i)
    BY DEF Requests
  <1>3. ASSUME NEW m \in Replies
        PROVE  \/ m = Message("nodes", NoSub) \/ m = Message("no_nodes", NoSub)
               \/ \E op \in {"subscribed", "subscribe_failed"}, i \in Sub : m = Message(op, i)
    <2>1. CASE m \in {Message(op, i) : op \in {"subscribed", "subscribe_failed"}, i \in Sub}
      BY <2>1
    <2>2. CASE m \in {Message("nodes", NoSub), Message("no_nodes", NoSub)}
      BY <2>2
    <2> QED BY <2>1, <2>2 DEF Replies
  <1>4. NoSub \notin Sub
    BY FeedAssumption DEF Sub, NoSub, MaxAsked
  <1>5. ASSUME NEW m \in Requests
        PROVE  /\ m.op \in {"nodes", "subscribe", "unsubscribe"}
               /\ m.op \in {"subscribe", "unsubscribe"} =>
                      m.id \in Sub /\ m = Message(m.op, m.id)
               /\ m.op = "nodes" => m = Message("nodes", NoSub)
    BY <1>1, <1>2
  <1>6. ASSUME NEW m \in Replies
        PROVE  /\ m.op \in {"nodes", "no_nodes", "subscribed", "subscribe_failed"}
               /\ m.op \in {"subscribed", "subscribe_failed"} =>
                      m.id \in Sub /\ m = Message(m.op, m.id)
               /\ m.op \in {"nodes", "no_nodes"} => m = Message(m.op, NoSub)
    <2>1. CASE m = Message("nodes", NoSub) \/ m = Message("no_nodes", NoSub)
      <3>1. m.op = "nodes" \/ m.op = "no_nodes"
        BY <2>1, <1>1
      <3> QED BY <2>1, <3>1, <1>1
    <2>2. CASE \E op \in {"subscribed", "subscribe_failed"}, i \in Sub : m = Message(op, i)
      <3> PICK op \in {"subscribed", "subscribe_failed"}, i \in Sub : m = Message(op, i)
        BY <2>2
      <3>1. m.op = op /\ m.id = i
        BY <1>1
      <3> QED BY <3>1
    <2> QED BY <2>1, <2>2, <1>3
  <1> QED BY <1>4, <1>5, <1>6

LEMMA ReplyForms ==
    /\ Message("nodes", NoSub) \in Replies /\ Message("no_nodes", NoSub) \in Replies
    /\ \A id \in Sub, op \in {"subscribed", "subscribe_failed"} : Message(op, id) \in Replies
  <1>1. Message("nodes", NoSub) \in Replies /\ Message("no_nodes", NoSub) \in Replies
    BY DEF Replies
  <1>2. ASSUME NEW id \in Sub, NEW op \in {"subscribed", "subscribe_failed"}
        PROVE  Message(op, id) \in Replies
    <2>1. Message(op, id) \in {Message(o, i) : o \in {"subscribed", "subscribe_failed"}, i \in Sub}
      OBVIOUS
    <2> QED BY <2>1 DEF Replies
  <1> QED BY <1>1, <1>2

(* What a link holds before a message is sent fits as what is under way     *)
(* does, and asks for the subscription sent again.                          *)
LEMMA BeforeFits ==
    ASSUME FeedInv, NEW h \in {handle, NoSub}
    PROVE  /\ Before(h) \in Seq(Requests) /\ Len(Before(h)) \in Nat
           /\ GivenOut(Before(h)) /\ EndsOver(Before(h))
           /\ AskedOnce(Before(h)) /\ AsksOwned(Before(h))
           /\ h # NoSub => h \in served \cup refused \/ Contains(Before(h), Asks(h))
  <1>0. FeedTypeOK
    BY DEF FeedInv
  <1>1. CASE linked
    <2>1. Before(h) = out
      BY <1>1 DEF Before
    <2>2. h # NoSub => h \in served \cup refused \/ Contains(out, Asks(h))
      BY <1>1 DEF FeedInv, HeldIsServed, Asks
    <2> QED BY <2>1, <2>2, <1>0, IdsAreSubs DEF FeedInv
  <1>2. CASE ~linked /\ h = NoSub
    <2>1. Before(h) = <<>>
      BY <1>2 DEF Before
    <2>2. <<>> \in Seq(Requests) /\ Len(<<>>) = 0
      BY EmptySeq
    <2> QED BY <2>1, <2>2, <1>2 DEF GivenOut, EndsOver, AskedOnce, AsksOwned
  <1>3. CASE ~linked /\ h # NoSub
    <2>1. Before(h) = <<Asks(h)>>
      BY <1>3 DEF Before
    <2>2. h = handle /\ h \in 1..ids /\ h \in 0..ids /\ Asks(h) \in Requests
      BY <1>0, <1>3, IdsAreSubs DEF Asks, Requests
    <2>3. Asks(h).id = h /\ Asks(h).op = "subscribe"
      BY DEF Asks, Message
    <2> DEFINE b == <<Asks(h)>>
    <2>4. b \in Seq(Requests) /\ Len(b) = 1 /\ b[1] = Asks(h)
      BY <2>2
    <2>5. GivenOut(b)
      BY <2>2, <2>3, <2>4 DEF GivenOut
    <2>6. EndsOver(b)
      BY <2>3, <2>4 DEF EndsOver
    <2>7. AsksOwned(b)
      BY <2>2, <2>3, <2>4 DEF AsksOwned
    <2>8. AskedOnce(b)
      <3>1. served = {} /\ refused = {}
        BY <1>0, <1>3 DEF FeedTypeOK
      <3> QED BY <2>4, <3>1 DEF AskedOnce
    <2>9. Contains(b, Asks(h))
      BY <2>4 DEF Contains
    <2> HIDE DEF b
    <2> QED BY <2>1, <2>4, <2>5, <2>6, <2>7, <2>8, <2>9 DEF b
  <1> QED BY <1>1, <1>2, <1>3

LEMMA SendFits ==
    ASSUME FeedInv, NEW h \in {handle, NoSub}, NEW msg \in Requests,
           NEW held, held = {h} \ {NoSub}, Send(msg, held)
    PROVE  \E b :
           /\ Len(b) \in Nat
           /\ GivenOut(b) /\ EndsOver(b) /\ AskedOnce(b) /\ AsksOwned(b)
           /\ linked => b = out
           /\ h # NoSub => h \in served \cup refused \/ Contains(b, Asks(h))
           /\ out' \in Seq(Requests) /\ Len(out') <= MaxQueue
           /\ linked' = TRUE
           /\ Len(out') = Len(b) + 1
           /\ \A i \in 1..Len(b) : out'[i] = b[i]
           /\ out'[Len(b) + 1] = msg
           /\ UNCHANGED <<up, in, reading, old, served, refused, granted, drops>>
  <1>1. out' = Append(Before(h), msg)
    BY SendsMessage
  <1>2. /\ Len(out') <= MaxQueue /\ linked' = TRUE
        /\ UNCHANGED <<up, in, reading, old, served, refused, granted, drops>>
    BY Zenon DEF Send, farVars
  <1>3. linked => Before(h) = out
    BY DEF Before
  <1>4. /\ Before(h) \in Seq(Requests) /\ Len(Before(h)) \in Nat
        /\ GivenOut(Before(h)) /\ EndsOver(Before(h))
        /\ AskedOnce(Before(h)) /\ AsksOwned(Before(h))
        /\ h # NoSub => h \in served \cup refused \/ Contains(Before(h), Asks(h))
    BY BeforeFits
  <1>5. /\ out' \in Seq(Requests)
        /\ Len(out') = Len(Before(h)) + 1
        /\ \A i \in 1..Len(Before(h)) : out'[i] = Before(h)[i]
        /\ out'[Len(Before(h)) + 1] = msg
    BY <1>1, <1>4, AppendProperties
  <1> QED BY <1>2, <1>3, <1>4, <1>5

(* A message sent after b that asks for nothing.                            *)
LEMMA AskedOnceAppended ==
    ASSUME NEW b, Len(b) \in Nat, AskedOnce(b), NEW msg, msg.op # "subscribe",
           Len(out') = Len(b) + 1, \A i \in 1..Len(b) : out'[i] = b[i],
           out'[Len(b) + 1] = msg, UNCHANGED <<served, refused>>
    PROVE  AskedOnce(out)'
  <1>1. \A id : Asks(id).op = "subscribe"
    BY DEF Asks, Message
  <1>2. ASSUME NEW i \in 1..Len(out'), out'[i].op = "subscribe"
        PROVE  /\ out'[i].id \notin served \cup refused
               /\ \A j \in (i+1)..Len(out') : out'[j] # Asks(out'[i].id)
    <2>1. i \in 1..Len(b)
      BY <1>2
    <2>2. out'[i] = b[i] /\ b[i].op = "subscribe"
      BY <2>1, <1>2
    <2>3. b[i].id \notin served \cup refused /\ \A j \in (i+1)..Len(b) : b[j] # Asks(b[i].id)
      BY <2>1, <2>2 DEF AskedOnce
    <2>4. ASSUME NEW j \in (i+1)..Len(out') PROVE out'[j] # Asks(b[i].id)
      <3>1. CASE j = Len(b) + 1
        BY <3>1, <1>1
      <3>2. CASE j # Len(b) + 1
        <4>1. j \in (i+1)..Len(b) /\ j \in 1..Len(b)
          BY <2>1, <3>2
        <4> QED BY <4>1, <2>3
      <3> QED BY <3>1, <3>2
    <2> QED BY <2>2, <2>3, <2>4
  <1> QED BY <1>2 DEF AskedOnce

(* A step of the main thread alone: what is under way, answered or served   *)
(* fits as before if nobody gives up what he owns on a link that stands,    *)
(* and what becomes held was being asked for.                               *)
LEMMA LinkQuiet ==
    ASSUME FeedInv, UNCHANGED <<ids, linked, out, old, served, refused, granted>>,
           in' = in \/ in' = <<>>,
           \A id : linked /\ id \in 1..ids /\ id \notin refused
                   /\ (id = handle \/ doing = Asks(id) \/ id \in abandoned) =>
                     id = handle' \/ doing' = Asks(id) \/ id \in abandoned',
           handle' = NoSub \/ handle' = handle \/ doing = Asks(handle'),
           \A id : doing' = Asks(id) => doing = Asks(id)
    PROVE  /\ GivenOut(out)' /\ EndsOver(out)' /\ AskedOnce(out)' /\ AsksOwned(out)'
           /\ GivenOut(in)' /\ Answers(in)' /\ OldFits' /\ FarFits' /\ ServedIsOwned'
  <1>1. FeedTypeOK
    BY DEF FeedInv
  <1>2. \A i \in 1..Len(out) : out[i] \in Requests
    BY <1>1, IdsAreSubs, ElementOfSeq
  <1>4. ~linked => Len(out) = 0 /\ served = {}
    BY <1>1, EmptySeq DEF FeedTypeOK
  <1>5. GivenOut(out)' /\ AskedOnce(out)' /\ FarFits'
    BY DEF FeedInv, GivenOut, AskedOnce, FarFits
  <1>6. EndsOver(out)'
    <2> SUFFICES ASSUME NEW i \in 1..Len(out), out[i].op = "unsubscribe"
                 PROVE  out[i].id # handle' /\ doing' # Asks(out[i].id)
      BY DEF EndsOver
    <2>1. out[i].id # handle /\ doing # Asks(out[i].id)
      BY DEF FeedInv, EndsOver
    <2>2. out[i].id \in Sub /\ NoSub \notin Sub
      BY <1>2, MessageIds
    <2> QED BY <2>1, <2>2
  <1>7. AsksOwned(out)'
    <2> SUFFICES ASSUME NEW i \in 1..Len(out), out[i].op = "subscribe"
                 PROVE  \/ out[i].id = handle' \/ doing' = Asks(out[i].id)
                        \/ out[i].id \in abandoned'
                        \/ \E j \in (i+1)..Len(out) : out[j] = Ends(out[i].id)
      BY DEF AsksOwned
    <2>1. \/ out[i].id = handle \/ doing = Asks(out[i].id) \/ out[i].id \in abandoned
          \/ \E j \in (i+1)..Len(out) : out[j] = Ends(out[i].id)
      BY DEF FeedInv, AsksOwned
    <2>2. out[i].id \in 1..ids
      <3>1. out[i].id \in Sub
        BY <1>2, MessageIds
      <3>2. out[i].id \in 0..ids
        BY DEF FeedInv, GivenOut
      <3>3. out[i].id # 0
        BY <3>1, MessageIds DEF NoSub
      <3> QED BY <3>2, <3>3
    <2>3. linked /\ out[i].id \notin refused
      BY <1>4, <1>1, IdsAreSubs DEF FeedInv, AskedOnce
    <2> QED BY <2>1, <2>2, <2>3
  <1>8. GivenOut(in)' /\ Answers(in)'
    <2>1. CASE in' = in
      BY <2>1 DEF FeedInv, Answers, GivenOut
    <2>2. CASE in' = <<>>
      BY <2>2, EmptySeq DEF Answers, GivenOut
    <2> QED BY <2>1, <2>2
  <1>9. ServedIsOwned'
    <2> SUFFICES ASSUME NEW id \in served
                 PROVE  \/ id = handle' \/ doing' = Asks(id) \/ id \in abandoned'
                        \/ Contains(out, Message("unsubscribe", id))
      BY DEF ServedIsOwned, Asks
    <2>1. linked
      BY <1>4
    <2>2. \/ id = handle \/ doing = Asks(id) \/ id \in abandoned
          \/ Contains(out, Message("unsubscribe", id))
      BY Zenon DEF FeedInv, ServedIsOwned, Asks
    <2>3. \/ id = handle \/ doing = Asks(id) \/ id \in abandoned =>
              id = handle' \/ doing' = Asks(id) \/ id \in abandoned'
      <3>1. id \in 1..ids
        BY <1>1 DEF FeedTypeOK
      <3>2. id \notin refused
        BY DEF FeedInv, FarFits
      <3> QED BY <2>1, <3>1, <3>2
    <2> QED BY <2>2, <2>3, Zenon
  <1>10. OldFits'
    BY DEF FeedInv, OldFits, GivenOut, OldAnswers
  <1> QED BY <1>5, <1>6, <1>7, <1>8, <1>9, <1>10

LEMMA AppendedReply ==
    ASSUME NEW S, NEW s \in Seq(S), NEW x \in S
    PROVE  /\ s \o <<x>> \in Seq(S)
           /\ \A i \in 1..Len(s \o <<x>>) :
                 (i \in 1..Len(s) /\ (s \o <<x>>)[i] = s[i]) \/ (s \o <<x>>)[i] = x
  <1>1. s \o <<x>> = Append(s, x)
    BY AppendIsConcat
  <1>2. Len(s) \in Nat
    BY LenProperties
  <1> QED BY <1>1, <1>2, AppendProperties

LEMMA FeedInvInit == Init => FeedInv
  <1> SUFFICES ASSUME Init PROVE FeedInv
    OBVIOUS
  <1>1. Len(out) = 0 /\ Len(in) = 0
    BY EmptySeq DEF Init
  <1>2. FeedTypeOK
    <2>1. adapter \in Adapters /\ up \in BOOLEAN /\ linked \in BOOLEAN /\ reading \in BOOLEAN
      BY DEF Init
    <2>2. run \in 0..runs /\ runs \in 0..MaxRuns /\ ids \in 0..MaxAsked /\ drops \in 0..MaxDrops
      BY FeedAssumption DEF Init, MaxAsked
    <2>3. out \in Seq(Requests) /\ in \in Seq(Replies) /\ Len(out) <= MaxQueue
      BY <1>1, EmptySeq, FeedAssumption DEF Init
    <2>4. /\ requests \subseteq subs /\ subs \subseteq 1..ids
          /\ requests = {handle} \ {NoSub} /\ handle = NoSub
          /\ granted \cup refused \cup abandoned \subseteq 1..ids /\ served \subseteq granted
          /\ out = <<>> /\ in = <<>> /\ served = {} /\ refused = {} /\ reading
      BY DEF Init
    <2>5. old \in [1..MaxDrops -> Seq(Replies \cup {Exit})]
      <3>1. <<>> \in Seq(Replies \cup {Exit})
        BY EmptySeq
      <3> QED BY <3>1 DEF Init
    <2> QED BY <2>1, <2>2, <2>3, <2>4, <2>5 DEF Init, FeedTypeOK
  <1>3. doing.op = "idle" /\ reply.op = "idle"
    BY DEF Init, Idle, Message
  <1>4. MainFits /\ ReplyTrue
    BY <1>3 DEF Init, MainFits, ReplyTrue
  <1>5. ReplyFits
    BY DEF Init, ReplyFits
  <1>6. /\ GivenOut(out) /\ EndsOver(out) /\ AskedOnce(out) /\ AsksOwned(out)
        /\ GivenOut(in) /\ Answers(in)
    BY <1>1 DEF GivenOut, EndsOver, AskedOnce, AsksOwned, Answers
  <1>7. OldFits
    <2>1. \A k \in 1..MaxDrops : Len(old[k]) = 0
      BY EmptySeq DEF Init
    <2> QED BY <2>1 DEF OldFits, GivenOut, OldAnswers
  <1>8. HeldIsServed /\ ServedIsOwned /\ FarFits
    BY DEF Init, HeldIsServed, ServedIsOwned, FarFits
  <1> QED BY <1>2, <1>4, <1>5, <1>6, <1>7, <1>8 DEF FeedInv

(* What the nodes are asked for.                                            *)
Why == {"nodes", "nodes first"}

(* A status, or the question that comes before a subscription.              *)
LEMMA KeptByNodes ==
    ASSUME FeedInv, NEW why \in Why, connected_nodes(why)
    PROVE  FeedInv'
  <1> DEFINE msg == Message("nodes", NoSub)
  <1>0. FeedTypeOK /\ MainFits /\ doing = Idle /\ doing' = Message(why, NoSub) /\ reply' = Idle
    BY DEF FeedInv, connected_nodes
  <1>1. UNCHANGED <<run, runs, handle, ids, abandoned, adapter, subs, requests>>
    BY DEF connected_nodes, portVars, lossVars
  <1>2. Send(msg, requests) /\ requests = {handle} \ {NoSub} /\ msg \in Requests
    <2>1. Send(msg, requests)
      BY DEF connected_nodes
    <2>2. requests = {handle} \ {NoSub}
      BY <1>0 DEF FeedTypeOK
    <2>3. msg \in Requests
      BY RequestForms
    <2> QED BY <2>1, <2>2, <2>3
  <1>3. PICK b :
        /\ Len(b) \in Nat
        /\ GivenOut(b) /\ EndsOver(b) /\ AskedOnce(b) /\ AsksOwned(b)
        /\ linked => b = out
        /\ handle # NoSub => handle \in served \cup refused \/ Contains(b, Asks(handle))
        /\ out' \in Seq(Requests) /\ Len(out') <= MaxQueue
        /\ linked' = TRUE
        /\ Len(out') = Len(b) + 1
        /\ \A i \in 1..Len(b) : out'[i] = b[i]
        /\ out'[Len(b) + 1] = msg
        /\ UNCHANGED <<up, in, reading, old, served, refused, granted, drops>>
    BY <1>2, SendFits, Zenon
  <1>4. Len(b) \in Nat /\ Len(out') = Len(b) + 1
    BY <1>3
  <1>5. \A i \in 1..Len(out') : i \in 1..Len(b) \/ i = Len(b) + 1
    BY <1>4
  <1>6. msg.op = "nodes" /\ msg.id = NoSub
    BY DEF Message
  <1>7. /\ doing.op = "idle" /\ doing'.op = why /\ reply'.op = "idle"
        /\ \A id : doing # Asks(id) /\ doing' # Asks(id)
    BY <1>0 DEF Idle, Message, Asks, Why
  <1> HIDE DEF msg
  <1>11. FeedTypeOK'
    <2>1. doing' \in Waiting
      BY <1>0 DEF Waiting, NoSub, Why
    <2> QED BY <2>1, <1>0, <1>1, <1>3 DEF FeedTypeOK
  <1>12. MainFits'
    BY <1>0, <1>1, <1>7 DEF MainFits, connected_nodes, Why
  <1>13. ReplyFits' /\ ReplyTrue'
    BY <1>0, <1>7 DEF ReplyFits, ReplyTrue
  <1>14. GivenOut(out)'
    <2>1. msg.id \in 0..ids
      BY <1>0, <1>6, IdsAreSubs
    <2> QED BY <2>1, <1>1, <1>3, <1>5 DEF GivenOut
  <1>15. EndsOver(out)'
    BY <1>1, <1>3, <1>5, <1>6, <1>7 DEF EndsOver
  <1>16. AsksOwned(out)'
    <2> SUFFICES ASSUME NEW i \in 1..Len(b), b[i].op = "subscribe"
                 PROVE  \/ b[i].id = handle \/ b[i].id \in abandoned
                        \/ \E j \in (i+1)..Len(out') : out'[j] = Ends(b[i].id)
      BY <1>1, <1>3, <1>5, <1>6 DEF AsksOwned
    <2>1. CASE \E j \in (i+1)..Len(b) : b[j] = Ends(b[i].id)
      BY <2>1, <1>3
    <2> QED BY <2>1, <1>3, <1>7 DEF AsksOwned
  <1>16a. AskedOnce(out)'
    <2>1. msg.op # "subscribe"
      BY <1>6
    <2> QED BY <2>1, <1>3, AskedOnceAppended
  <1>17. GivenOut(in)' /\ Answers(in)' /\ FarFits'
    BY <1>1, <1>3, <1>7 DEF FeedInv, GivenOut, Answers, FarFits
  <1>18. OldFits'
    BY <1>1, <1>3, <1>7 DEF FeedInv, OldFits, OldAnswers, GivenOut
  <1>19. HeldIsServed'
    <2>1. Contains(b, Asks(handle)) => Contains(out', Asks(handle))
      BY <1>3 DEF Contains
    <2> QED BY <2>1, <1>1, <1>3 DEF HeldIsServed, Asks, FeedInv
  <1>20. ServedIsOwned'
    <2> SUFFICES ASSUME NEW id \in served
                 PROVE  \/ id = handle \/ id \in abandoned
                        \/ Contains(out', Message("unsubscribe", id))
      BY <1>1, <1>3 DEF ServedIsOwned
    <2>1. linked
      BY <1>0 DEF FeedTypeOK
    <2>2. b = out
      BY <2>1, <1>3
    <2>3. CASE Contains(out, Message("unsubscribe", id))
      BY <2>2, <2>3, <1>3 DEF Contains
    <2> QED BY <2>3, <1>7 DEF FeedInv, ServedIsOwned, Asks
  <1> QED BY <1>11, <1>12, <1>13, <1>14, <1>15, <1>16, <1>16a, <1>17, <1>18, <1>19, <1>20
          DEF FeedInv

(* The steps of the main thread that send nothing.                          *)
LEMMA KeptByMain ==
    ASSUME FeedInv, on_start \/ NodesKnown \/ CannotAsk \/ FeedStarts
    PROVE  FeedInv'
  <1>0. /\ FeedTypeOK /\ MainFits /\ ReplyFits /\ ReplyTrue
        /\ HeldIsServed /\ ServedIsOwned
    BY DEF FeedInv
  <1>1. UNCHANGED <<ids, abandoned, adapter, subs, requests, linked, reading, out, in, old,
                    served, refused, granted, drops, handle>>
    BY <1>0, Zenon DEF on_start, NodesKnown, CannotAsk, FeedStarts, portVars, linkVars,
                       farVars, lossVars, mainVars, MainFits
  <1>2. /\ doing' = doing \/ doing' = Idle
        /\ (reply' = reply /\ doing' = doing) \/ reply' = Idle
        /\ doing.op = "subscribe" => doing' = doing /\ reply' = reply
        /\ up' \in BOOLEAN
    BY <1>0, Zenon DEF on_start, NodesKnown, CannotAsk, FeedStarts, portVars, linkVars,
                       farVars, lossVars, mainVars, FeedTypeOK
  <1>3. \A id : Idle # Asks(id)
    BY DEF Idle, Asks, Message
  <1>4. \A id : doing' = Asks(id) <=> doing = Asks(id)
    BY <1>0, <1>2, <1>3, DoingForms
  <1>5. /\ GivenOut(out)' /\ EndsOver(out)' /\ AskedOnce(out)' /\ AsksOwned(out)'
        /\ GivenOut(in)' /\ Answers(in)' /\ OldFits' /\ FarFits' /\ ServedIsOwned'
    BY <1>1, <1>4, LinkQuiet
  <1>6. run' \in 0..runs' /\ runs' \in 0..MaxRuns /\ (run' = run \/ run' # 0)
    <2>1. run \in 0..runs /\ runs \in 0..MaxRuns /\ MaxRuns \in Nat
      BY <1>0, FeedAssumption DEF FeedTypeOK
    <2>2. \/ UNCHANGED <<run, runs>>
          \/ runs < MaxRuns /\ run' = runs + 1 /\ runs' = runs + 1
      BY Zenon DEF on_start, NodesKnown, CannotAsk, FeedStarts, mainVars
    <2> QED BY <2>1, <2>2
  <1>7. FeedTypeOK'
    BY <1>0, <1>1, <1>2, <1>6 DEF FeedTypeOK
  <1>8. Idle.op = "idle"
    BY DEF Idle, Message
  <1>9. MainFits'
    BY <1>0, <1>1, <1>2, <1>6, <1>8 DEF MainFits
  <1>10. ReplyFits'
    BY <1>0, <1>2 DEF ReplyFits
  <1>11. ReplyTrue'
    BY <1>0, <1>1, <1>2, <1>8 DEF ReplyTrue
  <1>12. HeldIsServed'
    BY <1>0, <1>1 DEF HeldIsServed
  <1> QED BY <1>5, <1>7, <1>9, <1>10, <1>11, <1>12 DEF FeedInv

(* The end of a request.                                                    *)
LEMMA KeptByAnswer ==
    ASSUME FeedInv, Subscribed \/ Rejected \/ TimesOut
    PROVE  FeedInv'
  <1>0. FeedTypeOK /\ MainFits /\ ReplyTrue /\ HeldIsServed
    BY DEF FeedInv
  <1>1. UNCHANGED <<run, runs, ids, adapter, farVars, linkVars>> /\ doing' = Idle /\ reply' = Idle
    BY Zenon DEF Subscribed, Rejected, TimesOut, GiveUp, portVars
  <1>2. UNCHANGED <<up, linked, reading, out, in, old, served, refused, granted, drops>>
    BY <1>1 DEF linkVars, farVars
  <1>3. Idle.op = "idle" /\ \A id : Idle # Asks(id)
    BY DEF Idle, Asks, Message
  <1>4. doing.op = "subscribe" => /\ doing = Asks(doing.id) /\ doing.id \in Sub
                                  /\ handle = NoSub /\ run # 0 /\ doing.id \in subs
    BY <1>0, DoingForms DEF MainFits
  <1>5. \A i, j : Asks(i) = Asks(j) => i = j
    BY DEF Asks, Message
  <1>5a. ReplyFits' /\ ReplyTrue'
    BY <1>1, <1>3 DEF ReplyFits, ReplyTrue
  <1>6. CASE Subscribed
    <2>1. doing.op = "subscribe" /\ reply.op = "subscribed" /\ handle' = doing.id
          /\ requests' = requests \cup {doing.id} /\ UNCHANGED <<abandoned, subs>>
      BY <1>6 DEF Subscribed, lossVars
    <2>2. /\ GivenOut(out)' /\ EndsOver(out)' /\ AskedOnce(out)' /\ AsksOwned(out)'
          /\ GivenOut(in)' /\ Answers(in)' /\ OldFits' /\ FarFits' /\ ServedIsOwned'
      <3>1. \A id : id = handle \/ doing = Asks(id) \/ id \in abandoned =>
                    id = handle \/ id = handle' \/ id \in abandoned'
        BY <2>1, <1>4, <1>5
      <3>2. \A id : id \in 1..ids => id # handle
        BY <1>0, <1>4, <2>1, IdsAreSubs DEF FeedTypeOK, NoSub
      <3>3. doing = Asks(handle')
        BY <2>1, <1>4
      <3> QED BY <1>1, <1>2, <1>3, <3>1, <3>2, <3>3, LinkQuiet
    <2>3. FeedTypeOK'
      BY <1>0, <1>1, <1>2, <1>4, <2>1, MessageIds DEF FeedTypeOK
    <2>4. MainFits'
      BY <1>1, <1>3, <1>4, <2>1 DEF MainFits
    <2>6. HeldIsServed'
      BY <1>0, <1>2, <2>1 DEF HeldIsServed, ReplyTrue
    <2> QED BY <1>5a, <2>2, <2>3, <2>4, <2>6 DEF FeedInv
  <1>7. CASE Rejected
    <2>1. doing.op = "subscribe" /\ reply.op = "subscribe_failed" /\ handle' = handle
          /\ subs' = subs \ {doing.id} /\ UNCHANGED <<abandoned, requests>>
      BY <1>7 DEF Rejected, lossVars
    <2>2. /\ GivenOut(out)' /\ EndsOver(out)' /\ AskedOnce(out)' /\ AsksOwned(out)'
          /\ GivenOut(in)' /\ Answers(in)' /\ OldFits' /\ FarFits' /\ ServedIsOwned'
      <3>1. \A id : doing = Asks(id) => id \in refused \/ ~linked \/ id \in abandoned
        BY <1>0, <1>4, <1>5, <2>1 DEF ReplyTrue
      <3> QED BY <1>1, <1>2, <1>3, <2>1, <3>1, LinkQuiet
    <2>3. FeedTypeOK'
      BY <1>0, <1>1, <1>2, <1>4, <2>1 DEF FeedTypeOK
    <2>4. MainFits'
      BY <1>0, <1>1, <1>3, <1>4, <2>1 DEF MainFits
    <2>6. HeldIsServed'
      BY <1>0, <1>2, <2>1 DEF HeldIsServed
    <2> QED BY <1>5a, <2>2, <2>3, <2>4, <2>6 DEF FeedInv
  <1>8. CASE TimesOut
    <2>1. /\ UNCHANGED <<subs, requests, handle>>
          /\ abandoned' = IF doing.op = "subscribe" THEN abandoned \cup {doing.id} ELSE abandoned
      BY <1>8, Zenon DEF TimesOut, GiveUp, portVars
    <2>2. /\ GivenOut(out)' /\ EndsOver(out)' /\ AskedOnce(out)' /\ AsksOwned(out)'
          /\ GivenOut(in)' /\ Answers(in)' /\ OldFits' /\ FarFits' /\ ServedIsOwned'
      <3>1. \A id : doing = Asks(id) => id \in abandoned'
        BY <1>4, <1>5, <2>1, DoingForms, <1>0
      <3>2. abandoned \subseteq abandoned'
        BY <2>1
      <3> QED BY <1>1, <1>2, <1>3, <2>1, <3>1, <3>2, LinkQuiet
    <2>3. FeedTypeOK'
      BY <1>0, <1>1, <1>2, <1>4, <2>1 DEF FeedTypeOK
    <2>4. MainFits'
      BY <1>0, <1>1, <1>3, <2>1 DEF MainFits
    <2>6. HeldIsServed'
      BY <1>0, <1>2, <2>1 DEF HeldIsServed
    <2> QED BY <1>5a, <2>2, <2>3, <2>4, <2>6 DEF FeedInv
  <1> QED BY <1>6, <1>7, <1>8

(* A request given up under the reader's hands, which dies of it.           *)
LEMMA KeptByCross ==
    ASSUME FeedInv, AnswerCrossesTimeout
    PROVE  FeedInv'
  <1>0. FeedTypeOK /\ MainFits /\ HeldIsServed
    BY DEF FeedInv
  <1>1. /\ UNCHANGED <<run, runs, handle, ids, adapter, subs, requests, up, granted, old, drops>>
        /\ doing' = Idle /\ reply' = Idle /\ in' = <<>>
        /\ abandoned' = IF doing.op = "subscribe" THEN abandoned \cup {doing.id} ELSE abandoned
        /\ \/ reading' = FALSE /\ UNCHANGED <<linked, out, served, refused>>
           \/ linked' = FALSE /\ out' = <<>> /\ served' = {} /\ refused' = {} /\ UNCHANGED reading
        /\ in # <<>> /\ reading
    BY Zenon DEF AnswerCrossesTimeout, GiveUp, portVars
  <1>2. Idle.op = "idle" /\ \A id : Idle # Asks(id)
    BY DEF Idle, Asks, Message
  <1>3. doing.op = "subscribe" => doing = Asks(doing.id) /\ doing.id \in subs
    BY <1>0, DoingForms DEF MainFits
  <1>4. \A i, j : Asks(i) = Asks(j) => i = j
    BY DEF Asks, Message
  <1>5. linked
    BY <1>0, <1>1 DEF FeedTypeOK
  <1>6. <<>> \in Seq(Requests) /\ <<>> \in Seq(Replies) /\ Len(<<>>) = 0
    BY EmptySeq
  <1>7. FeedTypeOK'
    <2>1. abandoned' \subseteq 1..ids
      BY <1>0, <1>1, <1>3 DEF FeedTypeOK
    <2>2. CASE reading' = FALSE /\ UNCHANGED <<linked, out, served, refused>>
      BY <2>1, <2>2, <1>0, <1>1, <1>5, <1>6 DEF FeedTypeOK
    <2>3. CASE linked' = FALSE /\ out' = <<>> /\ served' = {} /\ refused' = {} /\ UNCHANGED reading
      <3>1. 0 <= MaxQueue
        BY FeedAssumption
      <3> QED BY <2>1, <2>3, <3>1, <1>0, <1>1, <1>6 DEF FeedTypeOK
    <2> QED BY <2>2, <2>3, <1>1
  <1>8. MainFits' /\ ReplyFits' /\ ReplyTrue'
    BY <1>0, <1>1, <1>2 DEF MainFits, ReplyFits, ReplyTrue
  <1>9. HeldIsServed'
    BY <1>0, <1>1 DEF HeldIsServed
  <1>10. CASE UNCHANGED <<linked, out, served, refused>>
    <2>1. /\ GivenOut(out)' /\ EndsOver(out)' /\ AskedOnce(out)' /\ AsksOwned(out)'
          /\ GivenOut(in)' /\ Answers(in)' /\ OldFits' /\ FarFits' /\ ServedIsOwned'
      <3>1. \A id : doing = Asks(id) => id \in abandoned'
        BY <1>0, <1>1, <1>3, <1>4, DoingForms
      <3>2. abandoned \subseteq abandoned'
        BY <1>1
      <3> QED BY <1>1, <1>2, <1>10, <3>1, <3>2, LinkQuiet
    <2> QED BY <2>1, <1>7, <1>8, <1>9 DEF FeedInv
  <1>11. CASE linked' = FALSE /\ out' = <<>> /\ served' = {} /\ refused' = {}
    <2>1. /\ GivenOut(out)' /\ EndsOver(out)' /\ AskedOnce(out)' /\ AsksOwned(out)'
          /\ GivenOut(in)' /\ Answers(in)'
      BY <1>1, <1>6, <1>11 DEF GivenOut, EndsOver, AskedOnce, AsksOwned, Answers
    <2>2. OldFits'
      BY <1>1, <1>11 DEF FeedInv, OldFits, OldAnswers, GivenOut
    <2>3. FarFits' /\ ServedIsOwned'
      BY <1>11 DEF FarFits, ServedIsOwned
    <2> QED BY <2>1, <2>2, <2>3, <1>7, <1>8, <1>9 DEF FeedInv
  <1> QED BY <1>1, <1>10, <1>11

(* An answer handed over, if it is waited for.                              *)
LEMMA Delivered ==
    ASSUME FeedInv, NEW m \in Replies,
           m.op = "subscribed" =>
              m.id \in granted /\ (doing = Asks(m.id) /\ linked => m.id \in served),
           m.op = "subscribe_failed" =>
              (doing = Asks(m.id) => m.id \in refused \/ ~linked),
           reply' = IF Awaited(m) THEN m ELSE reply,
           UNCHANGED <<doing, linked, served, refused, granted, abandoned>>
    PROVE  reply' \in Replies \cup {Idle} /\ ReplyFits' /\ ReplyTrue'
  <1>0. FeedTypeOK /\ ReplyFits /\ ReplyTrue
    BY DEF FeedInv
  <1>1. CASE ~Awaited(m)
    BY <1>0, <1>1 DEF FeedTypeOK, ReplyFits, ReplyTrue
  <1>2. CASE Awaited(m)
    <2>1. reply' = m
      BY <1>2
    <2>2. \/ /\ doing.op \in {"nodes", "nodes first"}
             /\ m.op \in {"nodes", "no_nodes"} /\ m = Message(m.op, NoSub)
          \/ /\ m.op \in {"subscribed", "subscribe_failed"} /\ m = Message(m.op, m.id)
             /\ doing = Asks(m.id) /\ doing.op = "subscribe" /\ doing.id = m.id
      <3>1. Asks(m.id).op = "subscribe" /\ Asks(m.id).id = m.id
        BY DEF Asks, Message
      <3> QED BY <3>1, <1>2, MessageIds DEF Awaited, Asks
    <2>3. ReplyFits'
      BY <2>1, <2>2 DEF ReplyFits
    <2>4. ReplyTrue'
      BY <2>1, <2>2 DEF ReplyTrue
    <2> QED BY <2>1, <2>3, <2>4
  <1> QED BY <1>1, <1>2

(* What does not change by a step of a reader.                              *)
LEMMA KeptByReaders ==
    ASSUME FeedInv,
           UNCHANGED <<run, runs, doing, handle, ids, adapter, subs, requests, up, linked,
                       out, reading, served, refused, granted, drops>>,
           abandoned \subseteq abandoned'
    PROVE  /\ MainFits' /\ GivenOut(out)' /\ EndsOver(out)' /\ AskedOnce(out)' /\ AsksOwned(out)'
           /\ FarFits' /\ HeldIsServed' /\ ServedIsOwned'
  <1>1. MainFits' /\ GivenOut(out)' /\ EndsOver(out)' /\ AskedOnce(out)'
    BY DEF FeedInv, MainFits, GivenOut, EndsOver, AskedOnce
  <1>2. AsksOwned(out)'
    <2> SUFFICES ASSUME NEW i \in 1..Len(out), out[i].op = "subscribe"
                 PROVE  \/ out[i].id = handle \/ doing = Asks(out[i].id)
                        \/ out[i].id \in abandoned'
                        \/ \E j \in (i+1)..Len(out) : out[j] = Ends(out[i].id)
      BY DEF AsksOwned
    <2> QED BY DEF FeedInv, AsksOwned
  <1>3. FarFits' /\ HeldIsServed' /\ ServedIsOwned'
    BY DEF FeedInv, FarFits, HeldIsServed, ServedIsOwned
  <1> QED BY <1>1, <1>2, <1>3

(* The reader of the link there is.                                         *)
LEMMA KeptByDispatch ==
    ASSUME FeedInv, dispatch
    PROVE  FeedInv'
  <1>0. FeedTypeOK
    BY DEF FeedInv
  <1>1. /\ UNCHANGED <<run, runs, doing, handle, ids, abandoned, adapter, subs, requests,
                       up, linked, reading, out, old, served, refused, granted, drops>>
        /\ in # <<>> /\ in' = Tail(in)
        /\ reply' = IF Awaited(Head(in)) THEN Head(in) ELSE reply
    BY DEF dispatch, Deliver, mainVars, portVars, farVars, lossVars
  <1>2. in \in Seq(Replies)
    BY <1>0 DEF FeedTypeOK
  <1> DEFINE m == Head(in)
  <1>3. /\ m \in Replies /\ in' \in Seq(Replies)
        /\ Len(in) \in Nat /\ Len(in') = Len(in) - 1
        /\ \A i \in 1..Len(in') : in'[i] = in[i+1]
    BY <1>1, <1>2, HeadTailProperties, LenProperties
  <1>4. m = in[1] /\ 1 \in 1..Len(in)
    BY <1>1, <1>2
  <1>4a. reply' = IF Awaited(m) THEN m ELSE reply
    BY <1>1
  <1> HIDE DEF m
  <1>5. \A i \in 1..Len(in') : i + 1 \in 1..Len(in)
    BY <1>3
  <1>7. linked
    BY <1>0, <1>1 DEF FeedTypeOK
  <1>8. /\ MainFits' /\ GivenOut(out)' /\ EndsOver(out)' /\ AskedOnce(out)' /\ AsksOwned(out)'
        /\ FarFits' /\ HeldIsServed' /\ ServedIsOwned'
    BY <1>1, KeptByReaders
  <1>9. OldFits'
    BY <1>1 DEF FeedInv, OldFits, OldAnswers, GivenOut
  <1>10. GivenOut(in)' /\ Answers(in)'
    BY <1>1, <1>3, <1>5 DEF FeedInv, GivenOut, Answers
  <1>11. reply' \in Replies \cup {Idle} /\ ReplyFits' /\ ReplyTrue'
    <2>1. /\ m.op = "subscribed" =>
                m.id \in granted /\ (doing = Asks(m.id) => m.id \in served)
          /\ m.op = "subscribe_failed" => (doing = Asks(m.id) => m.id \in refused)
      BY <1>4 DEF FeedInv, Answers
    <2> QED BY <2>1, <1>1, <1>3, <1>4a, Delivered
  <1>12. FeedTypeOK'
    BY <1>0, <1>1, <1>3, <1>7, <1>11 DEF FeedTypeOK
  <1> QED BY <1>8, <1>9, <1>10, <1>11, <1>12 DEF FeedInv

(* That of a link that went.                                                *)
LEMMA KeptByOldDispatch ==
    ASSUME FeedInv, NEW k \in 1..MaxDrops, dispatchOld(k)
    PROVE  FeedInv'
  <1>0. FeedTypeOK /\ MainFits /\ OldFits
    BY DEF FeedInv
  <1> DEFINE m == Head(old[k])
             q == Tail(old[k])
  <1>1. /\ UNCHANGED <<run, runs, doing, handle, ids, adapter, subs, requests, up, linked,
                       out, in, reading, served, refused, granted, drops>>
        /\ old[k] # <<>> /\ old' = [old EXCEPT ![k] = q]
        /\ IF m = Exit THEN FailWaiting ELSE Deliver(m)
    BY DEF dispatchOld, mainVars, portVars, farVars
  <1>2. old[k] \in Seq(Replies \cup {Exit})
    BY <1>0 DEF FeedTypeOK
  <1>3. /\ m \in Replies \cup {Exit} /\ q \in Seq(Replies \cup {Exit})
        /\ Len(old[k]) \in Nat /\ Len(q) = Len(old[k]) - 1
        /\ \A i \in 1..Len(q) : q[i] = old[k][i+1]
    BY <1>1, <1>2, HeadTailProperties, LenProperties
  <1>4. m = old[k][1] /\ 1 \in 1..Len(old[k])
    BY <1>1, <1>2
  <1> HIDE DEF m, q
  <1>5. \A i \in 1..Len(q) : i + 1 \in 1..Len(old[k])
    BY <1>3
  <1>6. old' \in [1..MaxDrops -> Seq(Replies \cup {Exit})]
    BY <1>0, <1>1, <1>3 DEF FeedTypeOK
  <1>7. \A l \in 1..MaxDrops : old'[l] = old[l] \/ old'[l] = q
    BY <1>0, <1>1 DEF FeedTypeOK
  <1>8. OldFits'
    <2>1. GivenOut(old[k]) /\ OldAnswers(old[k])
      BY <1>0 DEF OldFits
    <2>2. GivenOut(q) /\ OldAnswers(q)
      BY <2>1, <1>3, <1>5 DEF GivenOut, OldAnswers
    <2>3. \A l \in 1..MaxDrops : GivenOut(old'[l]) /\ OldAnswers(old'[l])
      BY <2>2, <1>0, <1>7 DEF OldFits
    <2> QED BY <2>3, <1>1 DEF OldFits, GivenOut, OldAnswers
  <1>9. GivenOut(in)' /\ Answers(in)'
    BY <1>1 DEF FeedInv, GivenOut, Answers
  <1>10. ASSUME reply' \in Replies \cup {Idle}, abandoned \subseteq abandoned',
                abandoned' \subseteq 1..ids, ReplyFits', ReplyTrue'
         PROVE  FeedInv'
    <2>1. /\ MainFits' /\ GivenOut(out)' /\ EndsOver(out)' /\ AskedOnce(out)' /\ AsksOwned(out)'
          /\ FarFits' /\ HeldIsServed' /\ ServedIsOwned'
      BY <1>1, <1>10, KeptByReaders
    <2>2. FeedTypeOK'
      BY <1>0, <1>1, <1>6, <1>10 DEF FeedTypeOK
    <2> QED BY <2>1, <2>2, <1>8, <1>9, <1>10 DEF FeedInv
  <1>11. CASE m = Exit /\ doing.op = "subscribe"
    <2>1. /\ reply' = Message("subscribe_failed", doing.id)
          /\ abandoned' = abandoned \cup {doing.id}
      BY <1>1, <1>11 DEF FailWaiting
    <2>2. doing.id \in Sub /\ doing.id \in 1..ids
      BY <1>0, <1>11, DoingForms DEF MainFits, FeedTypeOK
    <2>3. reply' \in Replies /\ abandoned \subseteq abandoned' /\ abandoned' \subseteq 1..ids
      BY <2>1, <2>2, <1>0, ReplyForms DEF FeedTypeOK
    <2>4. reply'.op = "subscribe_failed"
      BY <2>1 DEF Message
    <2>5. ReplyFits' /\ ReplyTrue'
      BY <2>1, <2>4, <1>1, <1>11 DEF ReplyFits, ReplyTrue
    <2> QED BY <2>3, <2>5, <1>10
  <1>12. CASE m = Exit /\ doing.op # "subscribe"
    <2>1. reply' = reply /\ abandoned' = abandoned
      BY <1>1, <1>12 DEF FailWaiting, lossVars
    <2>2. ReplyFits' /\ ReplyTrue'
      BY <2>1, <1>1 DEF FeedInv, ReplyFits, ReplyTrue
    <2>3. reply' \in Replies \cup {Idle} /\ abandoned' \subseteq 1..ids
      BY <2>1, <1>0 DEF FeedTypeOK
    <2> QED BY <2>1, <2>2, <2>3, <1>10
  <1>13. CASE m # Exit
    <2>1. reply' = (IF Awaited(m) THEN m ELSE reply) /\ abandoned' = abandoned
      BY <1>1, <1>13 DEF Deliver, lossVars
    <2>2. m \in Replies
      BY <1>3, <1>13
    <2>3. /\ m.op = "subscribed" => m.id \in granted
          /\ m.op \in {"subscribed", "subscribe_failed"} => (doing = Asks(m.id) => ~linked)
      BY <1>0, <1>4 DEF OldFits, OldAnswers
    <2>4. reply' \in Replies \cup {Idle} /\ ReplyFits' /\ ReplyTrue'
      BY <2>1, <2>2, <2>3, <1>1, Delivered
    <2>5. abandoned' \subseteq 1..ids
      BY <2>1, <1>0 DEF FeedTypeOK
    <2> QED BY <2>1, <2>4, <2>5, <1>10
  <1> QED BY <1>11, <1>12, <1>13

(* The link goes.                                                           *)
LEMMA KeptByDrop ==
    ASSUME FeedInv, NEW stays \in BOOLEAN, LinkDrops(stays)
    PROVE  FeedInv'
  <1>0. FeedTypeOK /\ MainFits /\ ReplyFits /\ ReplyTrue /\ HeldIsServed
    BY DEF FeedInv
  <1> DEFINE left == IF ~reading THEN <<>>
                     ELSE IF adapter = "flexric" THEN Append(in, Exit) ELSE in
  <1>1. /\ UNCHANGED <<run, runs, doing, reply, handle, ids, abandoned, adapter, subs, requests,
                       granted>>
        /\ linked' = FALSE /\ reading' = TRUE /\ up' = stays
        /\ out' = <<>> /\ in' = <<>> /\ served' = {} /\ refused' = {}
        /\ drops < MaxDrops /\ drops' = drops + 1
        /\ old' = [old EXCEPT ![drops + 1] = left]
    BY DEF LinkDrops, mainVars, portVars, lossVars
  <1>2. Len(out') = 0 /\ Len(in') = 0 /\ out' \in Seq(Requests) /\ in' \in Seq(Replies)
    BY <1>1, EmptySeq
  <1>3. /\ GivenOut(out)' /\ EndsOver(out)' /\ AskedOnce(out)' /\ AsksOwned(out)'
        /\ GivenOut(in)' /\ Answers(in)'
    BY <1>2 DEF GivenOut, EndsOver, AskedOnce, AsksOwned, Answers
  <1>4. ServedIsOwned' /\ HeldIsServed' /\ MainFits' /\ FarFits'
    BY <1>0, <1>1 DEF ServedIsOwned, HeldIsServed, MainFits, FarFits
  <1>5. ReplyFits' /\ ReplyTrue'
    BY <1>0, <1>1 DEF ReplyFits, ReplyTrue
  <1>6. /\ left \in Seq(Replies \cup {Exit})
        /\ \A i \in 1..Len(left) :
              (i \in 1..Len(in) /\ left[i] = in[i]) \/ left[i] = Exit
    <2>1. CASE ~reading
      BY <2>1, EmptySeq
    <2>2. in \in Seq(Replies \cup {Exit}) /\ Len(in) \in Nat
      BY <1>0, IdsAreSubs DEF FeedTypeOK
    <2>3. CASE reading /\ adapter = "flexric"
      <3>1. left = Append(in, Exit)
        BY <2>3
      <3>2. /\ Append(in, Exit) \in Seq(Replies \cup {Exit})
            /\ Len(Append(in, Exit)) = Len(in) + 1
            /\ \A i \in 1..Len(in) : Append(in, Exit)[i] = in[i]
            /\ Append(in, Exit)[Len(in) + 1] = Exit
        BY <2>2, AppendProperties
      <3>3. \A i \in 1..(Len(in) + 1) : i \in 1..Len(in) \/ i = Len(in) + 1
        BY <2>2
      <3> HIDE DEF left
      <3> QED BY <3>1, <3>2, <3>3
    <2>4. CASE reading /\ adapter # "flexric"
      BY <2>2, <2>4
    <2> QED BY <2>1, <2>3, <2>4
  <1> HIDE DEF left
  <1>7. drops' \in 0..MaxDrops /\ drops + 1 \in 1..MaxDrops
    BY <1>0, <1>1, FeedAssumption DEF FeedTypeOK
  <1>8. FeedTypeOK'
    <2>1. Len(out') <= MaxQueue
      BY <1>2, FeedAssumption
    <2>2. old' \in [1..MaxDrops -> Seq(Replies \cup {Exit})]
      BY <1>0, <1>1, <1>6 DEF FeedTypeOK
    <2> QED BY <1>0, <1>1, <1>2, <1>7, <2>1, <2>2 DEF FeedTypeOK
  <1>9. OldFits'
    <2>1. \A l \in 1..MaxDrops : old'[l] = old[l] \/ old'[l] = left
      BY <1>0, <1>1 DEF FeedTypeOK
    <2>2. Exit.op = "exit" /\ Exit.id \in 0..ids
      BY <1>0, IdsAreSubs DEF Exit, Message
    <2>3. \A i \in 1..Len(left) :
             left[i].id \in 0..ids /\ (left[i].op = "subscribed" => left[i].id \in granted)
      BY <1>6, <2>2 DEF FeedInv, GivenOut, Answers
    <2>4. \A l \in 1..MaxDrops : \A i \in 1..Len(old'[l]) :
             /\ old'[l][i].id \in 0..ids
             /\ old'[l][i].op = "subscribed" => old'[l][i].id \in granted
      BY <2>1, <2>3 DEF FeedInv, OldFits, GivenOut, OldAnswers
    <2> QED BY <2>4, <1>1 DEF OldFits, GivenOut, OldAnswers
  <1> QED BY <1>3, <1>4, <1>5, <1>8, <1>9 DEF FeedInv

(* The far end hears one message.                                           *)
LEMMA KeptByFeedHears ==
    ASSUME FeedInv, FeedHears
    PROVE  FeedInv'
  <1>0. FeedTypeOK /\ MainFits /\ ReplyFits /\ ReplyTrue /\ FarFits
    BY DEF FeedInv
  <1> DEFINE m == Head(out)
  <1>1. out \in Seq(Requests) /\ out # <<>> /\ in \in Seq(Replies) /\ Len(in) \in Nat
    BY <1>0, IdsAreSubs DEF FeedHears
  <1>1a. \E msgs :
        /\ Answer(msgs)
        /\ \/ /\ m.op = "nodes"
              /\ msgs = <<m>> \/ msgs = <<Message("no_nodes", NoSub)>>
              /\ served' = served /\ refused' = refused /\ granted' = granted
           \/ /\ m.op = "subscribe" /\ msgs = <<Message("subscribed", m.id)>>
              /\ served' = served \cup {m.id} /\ granted' = granted \cup {m.id}
              /\ refused' = refused
           \/ /\ m.op = "subscribe" /\ msgs = <<Message("subscribe_failed", m.id)>>
              /\ refused' = refused \cup {m.id}
              /\ served' = served /\ granted' = granted
           \/ /\ m.op = "unsubscribe" /\ msgs = <<>> /\ served' = served \ {m.id}
              /\ refused' = refused /\ granted' = granted
    <2>1. CASE m.op = "nodes" /\ Answer(<<m>>) /\ UNCHANGED <<served, refused, granted, refusals>>
      BY <2>1
    <2>2. CASE /\ m.op = "nodes" /\ Answer(<<Message("no_nodes", NoSub)>>)
               /\ UNCHANGED <<served, refused, granted>>
      BY <2>2
    <2>3. CASE /\ m.op = "subscribe" /\ Answer(<<Message("subscribed", m.id)>>)
               /\ served' = served \cup {m.id} /\ granted' = granted \cup {m.id}
               /\ UNCHANGED <<refused, refusals>>
      BY <2>3
    <2>4. CASE /\ m.op = "subscribe" /\ Answer(<<Message("subscribe_failed", m.id)>>)
               /\ refused' = refused \cup {m.id} /\ UNCHANGED <<served, granted>>
      BY <2>4
    <2>5. CASE /\ m.op = "unsubscribe" /\ Answer(<<>>)
               /\ served' = served \ {m.id} /\ UNCHANGED <<refused, granted, refusals>>
      BY <2>5
    <2> HIDE DEF m
    <2> QED BY <2>1, <2>2, <2>3, <2>4, <2>5, Zenon DEF FeedHears, m
  <1>2. PICK msgs :
        /\ Answer(msgs)
        /\ \/ /\ m.op = "nodes"
              /\ msgs = <<m>> \/ msgs = <<Message("no_nodes", NoSub)>>
              /\ served' = served /\ refused' = refused /\ granted' = granted
           \/ /\ m.op = "subscribe" /\ msgs = <<Message("subscribed", m.id)>>
              /\ served' = served \cup {m.id} /\ granted' = granted \cup {m.id}
              /\ refused' = refused
           \/ /\ m.op = "subscribe" /\ msgs = <<Message("subscribe_failed", m.id)>>
              /\ refused' = refused \cup {m.id}
              /\ served' = served /\ granted' = granted
           \/ /\ m.op = "unsubscribe" /\ msgs = <<>> /\ served' = served \ {m.id}
              /\ refused' = refused /\ granted' = granted
    BY <1>1a, Zenon
  <1>3. /\ UNCHANGED <<run, runs, doing, reply, handle, ids, abandoned, adapter, subs,
                       requests, up, linked, reading, old, drops>>
        /\ out' = Tail(out) /\ in' = IF reading THEN in \o msgs ELSE in
    BY <1>2, Zenon DEF Answer, mainVars, portVars, lossVars
  <1>4. /\ m \in Requests /\ out' \in Seq(Requests)
        /\ Len(out) \in Nat /\ Len(out) # 0 /\ Len(out') = Len(out) - 1
        /\ \A i \in 1..Len(out') : out'[i] = out[i+1]
    BY <1>1, <1>3, HeadTailProperties, LenProperties, EmptySeq
  <1>5. m = out[1] /\ 1 \in 1..Len(out)
    BY <1>1, <1>4
  <1> HIDE DEF m
  <1>6. m.op \in {"subscribe", "unsubscribe"} => m.id \in 1..ids /\ m = Message(m.op, m.id)
    <2>1. m.id \in 0..ids
      BY <1>5 DEF FeedInv, GivenOut
    <2>2. m.op \in {"subscribe", "unsubscribe"} => m.id # 0 /\ m = Message(m.op, m.id)
      BY <1>4, MessageIds DEF NoSub
    <2> QED BY <2>1, <2>2
  <1>7. linked
    BY <1>0, <1>1 DEF FeedTypeOK
  <1>8. m.op = "subscribe" => /\ m.id \notin served \cup refused
                              /\ \A j \in 2..Len(out) : out[j] # Asks(m.id)
    <2>1. 1 + 1 = 2
      OBVIOUS
    <2> QED BY <2>1, <1>5 DEF FeedInv, AskedOnce
  <1>9. m.op = "unsubscribe" => m.id # handle /\ doing # Asks(m.id)
    BY <1>5 DEF FeedInv, EndsOver
  <1>9a. /\ \A id \in served : id = handle \/ doing = Asks(id) => id \in served'
         /\ refused \subseteq refused' /\ granted \subseteq granted'
         /\ served' \cup refused' \subseteq served \cup refused \cup (IF m.op = "subscribe" THEN {m.id} ELSE {})
    BY <1>2, <1>9
  <1>9b. /\ granted' \cup refused' \cup abandoned' \subseteq 1..ids
         /\ served' \subseteq granted' /\ Len(out') <= MaxQueue
    <2>1. /\ granted \cup refused \cup abandoned \subseteq 1..ids /\ served \subseteq granted
          /\ Len(out) <= MaxQueue /\ MaxQueue \in Nat
      BY <1>0, FeedAssumption DEF FeedTypeOK
    <2>2. granted' \cup refused' \subseteq 1..ids /\ served' \subseteq granted'
      BY <2>1, <1>2, <1>6
    <2> QED BY <2>1, <2>2, <1>3, <1>4
  <1>9c. ASSUME in' \in Seq(Replies)
         PROVE  FeedTypeOK'
    BY <1>9c, <1>0, <1>3, <1>4, <1>7, <1>9b DEF FeedTypeOK
  <1>10. /\ \A i \in 1..Len(out') : i + 1 \in 1..Len(out) /\ i + 1 \in 2..Len(out)
         /\ \A j \in 2..Len(out) : j - 1 \in 1..Len(out') /\ out'[j - 1] = out[j]
         /\ \A j \in 1..Len(out) : j = 1 \/ j \in 2..Len(out)
    BY <1>4
  <1>11. ASSUME NEW x, Contains(out, x), m # x
         PROVE  Contains(out, x)'
    <2> PICK j \in 1..Len(out) : out[j] = x
      BY <1>11 DEF Contains
    <2>1. j \in 2..Len(out)
      BY <1>5, <1>10, <1>11
    <2> QED BY <2>1, <1>10 DEF Contains
  <1>12. GivenOut(out)'
    BY <1>3, <1>4, <1>10 DEF FeedInv, GivenOut
  <1>13. EndsOver(out)'
    BY <1>3, <1>4, <1>10 DEF FeedInv, EndsOver
  <1>14. ASSUME NEW i \in 1..Len(out')
         PROVE  \A j \in (i+1)..Len(out') : j + 1 \in (i+1+1)..Len(out) /\ out'[j] = out[j+1]
    BY <1>4
  <1>14a. ASSUME NEW i \in 1..Len(out'), NEW j \in (i+1+1)..Len(out)
          PROVE  j - 1 \in (i+1)..Len(out') /\ out'[j-1] = out[j]
    <2>1. j - 1 \in (i+1)..Len(out') /\ j \in 2..Len(out)
      BY <1>4
    <2> QED BY <2>1, <1>10
  <1>15. AskedOnce(out)'
    <2> SUFFICES ASSUME NEW i \in 1..Len(out'), out'[i].op = "subscribe"
                 PROVE  /\ out'[i].id \notin served' \cup refused'
                        /\ \A j \in (i+1)..Len(out') : out'[j] # Asks(out'[i].id)
      BY DEF AskedOnce
    <2>1. out'[i] = out[i+1] /\ i + 1 \in 1..Len(out) /\ i + 1 \in 2..Len(out)
      BY <1>4, <1>10
    <2>2. /\ out[i+1].id \notin served \cup refused
          /\ \A j \in (i+1+1)..Len(out) : out[j] # Asks(out[i+1].id)
      BY <2>1 DEF FeedInv, AskedOnce
    <2>3. m.op = "subscribe" => out[i+1].id # m.id
      <3>1. out[i+1] \in Requests /\ out[i+1].op = "subscribe"
        BY <2>1, <1>1, ElementOfSeq
      <3>2. out[i+1] = Asks(out[i+1].id)
        BY <3>1, MessageIds DEF Asks
      <3> QED BY <3>2, <2>1, <1>8
    <2> QED BY <2>1, <2>2, <2>3, <1>9a, <1>14
  <1>16. AsksOwned(out)'
    <2> SUFFICES ASSUME NEW i \in 1..Len(out'), out'[i].op = "subscribe"
                 PROVE  \/ out'[i].id = handle \/ doing = Asks(out'[i].id)
                        \/ out'[i].id \in abandoned
                        \/ \E j \in (i+1)..Len(out') : out'[j] = Ends(out'[i].id)
      BY <1>3 DEF AsksOwned
    <2>1. out'[i] = out[i+1] /\ i + 1 \in 1..Len(out)
      BY <1>4, <1>10
    <2>2. ASSUME NEW j \in (i+1+1)..Len(out), out[j] = Ends(out[i+1].id)
          PROVE  \E k \in (i+1)..Len(out') : out'[k] = Ends(out'[i].id)
      BY <2>1, <2>2, <1>14a
    <2> QED BY <2>1, <2>2, Zenon DEF FeedInv, AsksOwned
  <1>17. FeedTypeOK' /\ GivenOut(in)' /\ Answers(in)'
    <2>1. /\ msgs = <<>>
          \/ \E x \in Replies :
             /\ msgs = <<x>> /\ x.id \in 0..ids
             /\ x.op = "subscribed" => x.id \in granted' /\ x.id \in served'
             /\ x.op = "subscribe_failed" => x.id \in refused'
      <3>0. NoSub \in 0..ids
        BY <1>0, IdsAreSubs
      <3>1. CASE m.op = "nodes"
        <4>1. m = Message("nodes", NoSub)
          BY <3>1, <1>4, MessageIds
        <4>2. PICK x \in Replies : msgs = <<x>> /\ x.op \in {"nodes", "no_nodes"} /\ x.id = NoSub
          <5>1. \A op : Message(op, NoSub).op = op /\ Message(op, NoSub).id = NoSub
            BY DEF Message
          <5> QED BY <3>1, <4>1, <5>1, <1>2, ReplyForms
        <4> QED BY <3>0, <4>2
      <3>2. CASE m.op = "subscribe"
        <4>1. m.id \in Sub /\ m.id \in 0..ids
          BY <3>2, <1>0, <1>6, IdsAreSubs
        <4>2. \A op \in {"subscribed", "subscribe_failed"} :
                 Message(op, m.id) \in Replies /\ Message(op, m.id).op = op /\ Message(op, m.id).id = m.id
          BY <4>1, ReplyForms DEF Message
        <4>3. CASE msgs = <<Message("subscribed", m.id)>> /\ served' = served \cup {m.id}
                   /\ granted' = granted \cup {m.id}
          <5> DEFINE x == Message("subscribed", m.id)
          <5>1. x \in Replies /\ x.op = "subscribed" /\ x.id = m.id /\ msgs = <<x>>
            BY <4>2, <4>3
          <5> HIDE DEF x
          <5> QED BY <5>1, <4>1, <4>3
        <4>4. CASE msgs = <<Message("subscribe_failed", m.id)>> /\ refused' = refused \cup {m.id}
          <5> DEFINE x == Message("subscribe_failed", m.id)
          <5>1. x \in Replies /\ x.op = "subscribe_failed" /\ x.id = m.id /\ msgs = <<x>>
            BY <4>2, <4>4
          <5> HIDE DEF x
          <5> QED BY <5>1, <4>1, <4>4
        <4> QED BY <3>2, <4>3, <4>4, <1>2
      <3>3. CASE m.op = "unsubscribe"
        BY <3>3, <1>2
      <3> QED BY <3>1, <3>2, <3>3, <1>4, MessageIds
    <2>2. CASE msgs = <<>> \/ ~reading
      <3>1. in' = in
        BY <2>2, <1>1, <1>3, ConcatEmptySeq
      <3>2. FeedTypeOK'
        BY <3>1, <1>1, <1>9c
      <3>3. GivenOut(in)'
        BY <3>1, <1>3 DEF FeedInv, GivenOut
      <3>6. Answers(in)'
        BY <3>1, <1>3, <1>9a DEF FeedInv, Answers
      <3> QED BY <3>2, <3>3, <3>6
    <2>3. ASSUME reading, NEW x \in Replies, msgs = <<x>>, x.id \in 0..ids,
                 x.op = "subscribed" => x.id \in granted' /\ x.id \in served',
                 x.op = "subscribe_failed" => x.id \in refused'
          PROVE  FeedTypeOK' /\ GivenOut(in)' /\ Answers(in)'
      <3>1. /\ in' \in Seq(Replies)
            /\ \A i \in 1..Len(in') : (i \in 1..Len(in) /\ in'[i] = in[i]) \/ in'[i] = x
        BY <2>3, <1>1, <1>3, AppendedReply
      <3>2. FeedTypeOK'
        BY <3>1, <1>1, <1>9c
      <3>3. GivenOut(in)'
        BY <3>1, <2>3, <1>3 DEF FeedInv, GivenOut
      <3>6. Answers(in)'
        <4> SUFFICES ASSUME NEW i \in 1..Len(in')
                     PROVE  /\ in'[i].op = "subscribed" =>
                                 /\ in'[i].id \in granted'
                                 /\ doing = Asks(in'[i].id) => in'[i].id \in served'
                            /\ in'[i].op = "subscribe_failed" =>
                                 (doing = Asks(in'[i].id) => in'[i].id \in refused')
          BY <1>3 DEF Answers
        <4>1. CASE in'[i] = x
          BY <4>1, <2>3
        <4>2. CASE i \in 1..Len(in) /\ in'[i] = in[i]
          BY <4>2, <1>9a DEF FeedInv, Answers
        <4> QED BY <3>1, <4>1, <4>2
      <3> QED BY <3>2, <3>3, <3>6
    <2>4. CASE msgs # <<>> /\ reading
      <3> PICK x \in Replies :
             /\ msgs = <<x>> /\ x.id \in 0..ids
             /\ x.op = "subscribed" => x.id \in granted' /\ x.id \in served'
             /\ x.op = "subscribe_failed" => x.id \in refused'
        BY <2>1, <2>4
      <3> QED BY <2>3, <2>4
    <2> QED BY <2>2, <2>4
  <1>18. MainFits' /\ ReplyFits'
    BY <1>0, <1>3 DEF MainFits, ReplyFits
  <1>19. ReplyTrue'
    <2>1. reply.op = "subscribed" => doing.id \in served'
      <3> SUFFICES ASSUME reply.op = "subscribed" PROVE doing.id \in served'
        OBVIOUS
      <3>1. doing.id \in served
        BY <1>0, <1>7 DEF ReplyTrue
      <3>2. doing.op = "subscribe"
        <4>1. Idle.op = "idle" /\ Message("nodes", NoSub).op = "nodes"
              /\ Message("no_nodes", NoSub).op = "no_nodes"
          BY DEF Idle, Message
        <4> QED BY <4>1, <1>0 DEF ReplyFits
      <3> QED BY <3>1, <3>2, <1>0, <1>9a, DoingForms
    <2> QED BY <2>1, <1>0, <1>3, <1>9a DEF ReplyTrue
  <1>20. FarFits'
    BY <1>0, <1>2, <1>8 DEF FarFits
  <1>21. OldFits'
    BY <1>3, <1>9a DEF FeedInv, OldFits, GivenOut, OldAnswers
  <1>22. HeldIsServed'
    <2> SUFFICES ASSUME handle # NoSub
                 PROVE  /\ handle \in granted'
                        /\ handle \in served' \cup refused' \/ Contains(out, Asks(handle))'
      BY <1>3 DEF HeldIsServed, Asks
    <2>0. /\ handle \in granted
          /\ handle \in served \cup refused \/ Contains(out, Asks(handle))
      BY <1>7 DEF FeedInv, HeldIsServed, Asks
    <2>1. CASE handle \in served \cup refused
      BY <2>0, <2>1, <1>9a
    <2>2. CASE Contains(out, Asks(handle)) /\ m # Asks(handle)
      BY <2>0, <2>2, <1>3, <1>9a, <1>11
    <2>3. CASE m = Asks(handle)
      <3>1. m.op = "subscribe" /\ m.id = handle
        BY <2>3 DEF Asks, Message
      <3> QED BY <2>0, <3>1, <1>2, <1>9a
    <2> QED BY <2>0, <2>1, <2>2, <2>3
  <1>23. ServedIsOwned'
    <2> SUFFICES ASSUME NEW id \in served'
                 PROVE  \/ id = handle \/ doing = Asks(id) \/ id \in abandoned
                        \/ Contains(out, Ends(id))'
      BY <1>3 DEF ServedIsOwned, Asks, Ends
    <2>1. CASE id \in served
      <3>1. CASE Contains(out, Ends(id)) /\ m # Ends(id)
        BY <3>1, <1>11
      <3>2. CASE m = Ends(id)
        <4>1. m.op = "unsubscribe" /\ m.id = id
          BY <3>2 DEF Ends, Message
        <4> QED BY <4>1, <1>2
      <3> QED BY <2>1, <3>1, <3>2 DEF FeedInv, ServedIsOwned, Asks, Ends
    <2>2. CASE id \notin served
      <3>1. m.op = "subscribe" /\ id = m.id
        BY <2>2, <1>2
      <3>2. \/ id = handle \/ doing = Asks(id) \/ id \in abandoned
            \/ \E j \in 2..Len(out) : out[j] = Ends(id)
        <4>1. out[1].op = "subscribe" /\ out[1].id = id
          BY <3>1, <1>5
        <4>2. 1 + 1 = 2
          OBVIOUS
        <4> QED BY <4>1, <4>2, <1>5, Zenon DEF FeedInv, AsksOwned
      <3>3. ASSUME NEW j \in 2..Len(out), out[j] = Ends(id)
            PROVE  Contains(out, Ends(id))'
        BY <3>3, <1>10 DEF Contains
      <3> QED BY <3>2, <3>3
    <2> QED BY <2>1, <2>2
  <1> QED BY <1>12, <1>13, <1>15, <1>16, <1>17, <1>18, <1>19, <1>20, <1>21, <1>22, <1>23
          DEF FeedInv

(* A run ends, and its subscription with it.                                *)
LEMMA KeptByStop ==
    ASSUME FeedInv, on_stop
    PROVE  FeedInv'
  <1>0. FeedTypeOK /\ MainFits /\ ReplyFits /\ ServedIsOwned
    BY DEF FeedInv
  <1>1. /\ doing = Idle /\ run' = 0 /\ handle' = NoSub
        /\ UNCHANGED <<runs, doing, reply, ids, abandoned, adapter>>
    BY Zenon DEF on_stop, unsubscribe, portVars, lossVars
  <1>2. doing.op = "idle" /\ \A id : doing # Asks(id)
    BY <1>1 DEF Idle, Asks, Message
  <1>3. subs' = subs \ {handle} /\ requests' = {}
    <2>1. NoSub \notin subs
      BY <1>0, IdsAreSubs, MessageIds DEF FeedTypeOK
    <2>2. CASE handle = NoSub
      BY <2>1, <2>2, <1>0 DEF on_stop, portVars, FeedTypeOK
    <2>3. CASE handle # NoSub
      BY <2>3, <1>0 DEF on_stop, unsubscribe, FeedTypeOK
    <2> QED BY <2>2, <2>3
  <1>4. MainFits' /\ HeldIsServed'
    BY <1>1, <1>2 DEF MainFits, HeldIsServed
  <1>5. ReplyFits' /\ ReplyTrue'
    <2>1. reply.op # "subscribed" /\ reply.op # "subscribe_failed"
      <3>1. Idle.op = "idle" /\ Message("nodes", NoSub).op = "nodes"
            /\ Message("no_nodes", NoSub).op = "no_nodes"
        BY DEF Idle, Message
      <3> QED BY <3>1, <1>0, <1>2 DEF ReplyFits
    <2> QED BY <2>1, <1>0, <1>1 DEF ReplyFits, ReplyTrue
  <1>6. ASSUME UNCHANGED <<up, in, reading, old, served, refused, granted, drops>>,
               out' \in Seq(Requests), Len(out') <= MaxQueue,
               linked' = TRUE \/ UNCHANGED <<linked, out>>
        PROVE  FeedTypeOK'
    <2>1. run' \in 0..runs'
      BY <1>0, <1>1 DEF FeedTypeOK
    <2>2. /\ requests' \subseteq subs' /\ subs' \subseteq 1..ids'
          /\ requests' = {handle'} \ {NoSub}
      BY <1>0, <1>1, <1>3 DEF FeedTypeOK
    <2>3. ~linked' => out' = <<>> /\ in' = <<>> /\ served' = {} /\ refused' = {} /\ reading'
      BY <1>0, <1>6 DEF FeedTypeOK
    <2>4. linked' \in BOOLEAN
      BY <1>0, <1>6 DEF FeedTypeOK
    <2> QED BY <2>1, <2>2, <2>3, <2>4, <1>0, <1>1, <1>6 DEF FeedTypeOK
  <1>8. CASE UNCHANGED farVars /\ UNCHANGED linkVars /\ (handle = NoSub \/ ~linked)
    <2>1. UNCHANGED <<up, linked, out, in, reading, old, served, refused, granted, drops>>
      BY <1>8 DEF linkVars, farVars
    <2>2. /\ GivenOut(out)' /\ EndsOver(out)' /\ AskedOnce(out)' /\ AsksOwned(out)'
          /\ GivenOut(in)' /\ Answers(in)' /\ OldFits' /\ FarFits' /\ ServedIsOwned'
      BY <2>1, <1>1, <1>2, <1>8, LinkQuiet
    <2>3. FeedTypeOK'
      BY <2>1, <1>0, <1>6 DEF FeedTypeOK
    <2> QED BY <2>2, <2>3, <1>4, <1>5 DEF FeedInv
  <1>9. CASE handle # NoSub /\ Send(Ends(handle), requests')
    <2>1. handle \in Sub /\ handle \in 1..ids /\ handle \in 0..ids /\ Ends(handle) \in Requests
      BY <1>0, <1>9, IdsAreSubs, RequestForms
    <2>2. requests' = {NoSub} \ {NoSub}
      BY <1>3
    <2>3. PICK b :
          /\ Len(b) \in Nat
          /\ GivenOut(b) /\ EndsOver(b) /\ AskedOnce(b) /\ AsksOwned(b)
          /\ linked => b = out
          /\ out' \in Seq(Requests) /\ Len(out') <= MaxQueue
          /\ linked' = TRUE
          /\ Len(out') = Len(b) + 1
          /\ \A i \in 1..Len(b) : out'[i] = b[i]
          /\ out'[Len(b) + 1] = Ends(handle)
          /\ UNCHANGED <<up, in, reading, old, served, refused, granted, drops>>
      <3> DEFINE held == requests'
      <3> HIDE DEF held
      <3>1. Send(Ends(handle), held) /\ held = {NoSub} \ {NoSub}
        BY <1>9, <2>2 DEF held
      <3> QED BY <2>1, <3>1, SendFits, Zenon
    <2>4. /\ \A i \in 1..Len(out') : i \in 1..Len(b) \/ i = Len(b) + 1
          /\ \A i \in 1..Len(b) : i \in 1..Len(out') /\ Len(b) + 1 \in (i+1)..Len(out')
          /\ \A i \in 1..Len(b) : \A j \in (i+1)..Len(b) : j \in (i+1)..Len(out') /\ j \in 1..Len(b)
      BY <2>3
    <2>5. Ends(handle).op = "unsubscribe" /\ Ends(handle).id = handle
      BY DEF Ends, Message
    <2>7. GivenOut(out)'
      BY <1>1, <2>1, <2>3, <2>4, <2>5 DEF GivenOut
    <2>8. EndsOver(out)'
      <3> SUFFICES ASSUME NEW i \in 1..Len(out'), out'[i].op = "unsubscribe"
                   PROVE  out'[i].id # NoSub
        BY <1>1, <1>2 DEF EndsOver
      <3>1. out'[i] \in Requests
        BY <2>3, ElementOfSeq
      <3> QED BY <3>1, MessageIds
    <2>9. AsksOwned(out)'
      <3> SUFFICES ASSUME NEW i \in 1..Len(b), b[i].op = "subscribe"
                   PROVE  \/ b[i].id \in abandoned
                          \/ \E j \in (i+1)..Len(out') : out'[j] = Ends(b[i].id)
        BY <1>1, <1>2, <2>3, <2>4, <2>5 DEF AsksOwned
      <3>1. CASE \E j \in (i+1)..Len(b) : b[j] = Ends(b[i].id)
        BY <3>1, <2>3, <2>4
      <3>2. CASE b[i].id = handle
        BY <3>2, <2>3, <2>4
      <3> QED BY <3>1, <3>2, <2>3, <1>2 DEF AsksOwned
    <2>9a. AskedOnce(out)'
      <3>1. Ends(handle).op # "subscribe"
        BY <2>5
      <3> QED BY <3>1, <2>3, AskedOnceAppended
    <2>10. GivenOut(in)' /\ Answers(in)' /\ FarFits'
      BY <1>1, <2>3 DEF FeedInv, GivenOut, Answers, FarFits
    <2>10a. OldFits'
      BY <1>1, <1>2, <2>3 DEF FeedInv, OldFits, GivenOut, OldAnswers
    <2>11. ServedIsOwned'
      <3> SUFFICES ASSUME NEW id \in served
                   PROVE  id \in abandoned \/ Contains(out', Ends(id))
        BY <1>1, <2>3 DEF ServedIsOwned, Ends
      <3>1. b = out
        BY <2>3, <1>0 DEF FeedTypeOK
      <3>2. CASE Contains(out, Ends(id))
        BY <3>1, <3>2, <2>3, <2>4 DEF Contains
      <3>3. CASE id = handle
        <4>1. Len(b) + 1 \in 1..Len(out')
          BY <2>3
        <4> QED BY <3>3, <4>1, <2>3 DEF Contains
      <3> QED BY <3>2, <3>3, <1>0, <1>2 DEF ServedIsOwned, Asks, Ends
    <2>12. FeedTypeOK'
      BY <2>3, <1>6
    <2> QED BY <2>7, <2>8, <2>9, <2>9a, <2>10, <2>10a, <2>11, <2>12, <1>4, <1>5 DEF FeedInv
  <1>10. \/ UNCHANGED farVars /\ UNCHANGED linkVars /\ (handle = NoSub \/ ~linked)
         \/ handle # NoSub /\ Send(Ends(handle), requests')
    <2>1. CASE handle = NoSub
      BY <2>1 DEF on_stop
    <2>2. CASE handle # NoSub
      <3>1. unsubscribe
        BY <2>2 DEF on_stop
      <3>2. CASE CanSend
        BY <2>2, <3>1, <3>2, Zenon DEF unsubscribe, Ends
      <3>3. CASE ~CanSend
        BY <3>1, <3>3 DEF unsubscribe, CanSend
      <3> QED BY <3>2, <3>3
    <2> QED BY <2>1, <2>2
  <1> QED BY <1>8, <1>9, <1>10

(* A subscription is asked for.                                             *)
LEMMA KeptBySubscribe ==
    ASSUME FeedInv, try_subscribe
    PROVE  FeedInv'
  <1> DEFINE id == ids + 1
  <1>0. FeedTypeOK /\ MainFits /\ ServedIsOwned /\ ids \in Nat
    BY IdsAreSubs DEF FeedInv
  <1>1. /\ run # 0 /\ handle = NoSub /\ id \in Sub
        /\ Send(Asks(id), requests)
        /\ ids' = id
        /\ subs' = subs \cup {id}
        /\ doing' = Asks(id) /\ reply' = Idle
        /\ UNCHANGED <<run, runs, handle, abandoned, adapter, requests>>
    BY Zenon DEF try_subscribe, subscribe_kpm, Asks, lossVars
  <1>2. doing.op # "subscribe"
    <2>1. Idle.op = "idle"
      BY DEF Idle, Message
    <2>2. doing = Idle \/ doing.op = "nodes first"
      BY DEF try_subscribe
    <2> QED BY <2>1, <2>2
  <1>3. \A i : doing # Asks(i)
    BY <1>0, <1>2, DoingForms
  <1>6. requests = {handle} \ {NoSub} /\ Asks(id) \in Requests
    BY <1>0, <1>1, RequestForms DEF FeedTypeOK
  <1>7. PICK b :
        /\ Len(b) \in Nat
        /\ GivenOut(b) /\ EndsOver(b) /\ AskedOnce(b) /\ AsksOwned(b)
        /\ linked => b = out
        /\ out' \in Seq(Requests) /\ Len(out') <= MaxQueue
        /\ linked' = TRUE
        /\ Len(out') = Len(b) + 1
        /\ \A i \in 1..Len(b) : out'[i] = b[i]
        /\ out'[Len(b) + 1] = Asks(id)
        /\ UNCHANGED <<up, in, reading, old, served, refused, granted, drops>>
    <2> HIDE DEF id
    <2>1. Send(Asks(id), requests)
      BY <1>1
    <2> QED BY <2>1, <1>6, SendFits, Zenon
  <1>8. Asks(id).op = "subscribe" /\ Asks(id).id = id
    BY DEF Asks, Message
  <1>9. \A i : Asks(id) = Asks(i) => i = id
    BY DEF Asks, Message
  <1>11. /\ id \in 1..ids' /\ 1..ids \subseteq 1..ids' /\ id \in Nat
         /\ 0..ids \subseteq 0..ids' /\ id \in 0..ids'
         /\ \A i \in 0..ids : i # id
         /\ \A i \in 1..ids : i # id
         /\ id <= MaxAsked
    BY <1>0, <1>1 DEF Sub
  <1> HIDE DEF id
  <1>12. /\ \A i \in 1..Len(out') : i \in 1..Len(b) \/ i = Len(b) + 1
         /\ \A i \in 1..Len(b) : i \in 1..Len(out')
         /\ \A i \in 1..Len(b) : \A j \in (i+1)..Len(b) : j \in (i+1)..Len(out') /\ j \in 1..Len(b)
         /\ \A j \in (Len(b)+1+1)..Len(out') : FALSE
         /\ \A i \in 1..Len(b) : \A j \in (i+1)..Len(out') : j \in (i+1)..Len(b) \/ j = Len(b) + 1
    BY <1>7
  <1>13. FeedTypeOK'
    <2>1. doing' \in Waiting
      BY <1>1 DEF Waiting, Asks
    <2>2. /\ requests' \subseteq subs' /\ subs' \subseteq 1..ids'
          /\ granted' \cup refused' \cup abandoned' \subseteq 1..ids'
      BY <1>0, <1>1, <1>7, <1>11 DEF FeedTypeOK
    <2>3. ids' \in 0..MaxAsked
      BY <1>1, <1>11, FeedAssumption DEF MaxAsked
    <2>4. handle' \in 1..ids' \cup {NoSub} /\ requests' = {handle'} \ {NoSub}
      BY <1>1, <1>6
    <2> QED BY <2>1, <2>2, <2>3, <2>4, <1>0, <1>1, <1>7 DEF FeedTypeOK
  <1>14. MainFits'
    BY <1>1, <1>8 DEF MainFits
  <1>15. ReplyFits' /\ ReplyTrue'
    <2>1. Idle.op = "idle"
      BY DEF Idle, Message
    <2> QED BY <2>1, <1>1 DEF ReplyFits, ReplyTrue
  <1>16. GivenOut(out)' /\ GivenOut(in)'
    BY <1>7, <1>8, <1>11, <1>12 DEF FeedInv, GivenOut
  <1>17. EndsOver(out)'
    <2> SUFFICES ASSUME NEW i \in 1..Len(b), b[i].op = "unsubscribe"
                 PROVE  b[i].id # handle /\ b[i].id # id
      BY <1>1, <1>7, <1>8, <1>9, <1>12 DEF EndsOver
    <2> QED BY <1>7, <1>11 DEF EndsOver, GivenOut
  <1>18. AsksOwned(out)'
    <2> SUFFICES ASSUME NEW i \in 1..Len(b), b[i].op = "subscribe"
                 PROVE  \/ b[i].id = handle \/ b[i].id \in abandoned
                        \/ \E j \in (i+1)..Len(out') : out'[j] = Ends(b[i].id)
      BY <1>1, <1>7, <1>8, <1>12 DEF AsksOwned
    <2>2. CASE \E j \in (i+1)..Len(b) : b[j] = Ends(b[i].id)
      BY <2>2, <1>7, <1>12
    <2> QED BY <2>2, <1>3, <1>7 DEF AsksOwned
  <1>18a. AskedOnce(out)'
    <2>1. id \notin served \cup refused
      BY <1>0, <1>11 DEF FeedTypeOK
    <2>2. ASSUME NEW i \in 1..Len(b), b[i].op = "subscribe"
          PROVE  /\ b[i].id \notin served \cup refused
                 /\ \A j \in (i+1)..Len(out') : out'[j] # Asks(b[i].id)
      <3>1. b[i].id # id
        BY <1>7, <1>11 DEF GivenOut
      <3>2. /\ b[i].id \notin served \cup refused
            /\ \A j \in (i+1)..Len(b) : b[j] # Asks(b[i].id)
        BY <2>2, <1>7 DEF AskedOnce
      <3>3. ASSUME NEW j \in (i+1)..Len(out') PROVE out'[j] # Asks(b[i].id)
        <4>1. CASE j = Len(b) + 1
          BY <4>1, <3>1, <1>7, <1>9
        <4>2. CASE j \in (i+1)..Len(b)
          <5>1. out'[j] = b[j]
            BY <4>2, <1>7, <1>12
          <5> QED BY <4>2, <5>1, <3>2
        <4> QED BY <4>1, <4>2, <1>12
      <3> QED BY <3>2, <3>3
    <2> SUFFICES ASSUME NEW i \in 1..Len(out'), out'[i].op = "subscribe"
                 PROVE  /\ out'[i].id \notin served \cup refused
                        /\ \A j \in (i+1)..Len(out') : out'[j] # Asks(out'[i].id)
      BY <1>7 DEF AskedOnce
    <2>3. CASE i \in 1..Len(b)
      <3>1. out'[i] = b[i]
        BY <2>3, <1>7
      <3> QED BY <2>2, <2>3, <3>1
    <2>4. CASE i = Len(b) + 1
      <3>1. out'[i].id = id
        BY <2>4, <1>7, <1>8
      <3> QED BY <2>1, <2>4, <3>1, <1>12
    <2> QED BY <2>3, <2>4, <1>12
  <1>19. Answers(in)'
    <2>1. \A i \in 1..Len(in) : doing' # Asks(in[i].id)
      <3>1. \A i \in 1..Len(in) : in[i].id \in 0..ids
        BY DEF FeedInv, GivenOut
      <3> QED BY <3>1, <1>1, <1>9, <1>11
    <2> QED BY <2>1, <1>7 DEF FeedInv, Answers
  <1>20. OldFits'
    <2>1. \A k \in 1..MaxDrops : \A i \in 1..Len(old[k]) :
             old[k][i].id \in 0..ids' /\ doing' # Asks(old[k][i].id)
      <3>1. \A k \in 1..MaxDrops : \A i \in 1..Len(old[k]) : old[k][i].id \in 0..ids
        BY DEF FeedInv, OldFits, GivenOut
      <3> QED BY <3>1, <1>1, <1>9, <1>11
    <2> QED BY <2>1, <1>7 DEF FeedInv, OldFits, GivenOut, OldAnswers
  <1>21. HeldIsServed' /\ FarFits'
    BY <1>1, <1>7 DEF HeldIsServed, FeedInv, FarFits
  <1>22. ServedIsOwned'
    <2> SUFFICES ASSUME NEW i \in served
                 PROVE  i = handle \/ i \in abandoned \/ Contains(out', Ends(i))
      BY <1>1, <1>7 DEF ServedIsOwned, Ends
    <2>1. b = out
      BY <1>7, <1>0 DEF FeedTypeOK
    <2>2. CASE Contains(out, Ends(i))
      BY <2>1, <2>2, <1>7, <1>12 DEF Contains
    <2> QED BY <2>2, <1>0, <1>3 DEF ServedIsOwned, Asks, Ends
  <1> QED BY <1>13, <1>14, <1>15, <1>16, <1>17, <1>18, <1>18a, <1>19, <1>20, <1>21, <1>22
          DEF FeedInv

-----------------------------------------------------------------------------
(* The port, the monitor, the readers and the far end agree, in every       *)
(* reachable state.                                                         *)
THEOREM FeedInvHolds == Spec => []FeedInv
  <1>1. FeedInv /\ [Next]_vars => FeedInv'
    <2> SUFFICES ASSUME FeedInv, [Next]_vars PROVE FeedInv'
      OBVIOUS
    <2>1. CASE on_start \/ NodesKnown \/ CannotAsk \/ FeedStarts
      BY <2>1, KeptByMain
    <2>2. CASE on_stop
      BY <2>2, KeptByStop
    <2>3. ASSUME NEW why \in Why, connected_nodes(why)
          PROVE  FeedInv'
      BY <2>3, KeptByNodes
    <2>4. CASE try_subscribe
      BY <2>4, KeptBySubscribe
    <2>5. CASE Subscribed \/ Rejected \/ TimesOut
      BY <2>5, KeptByAnswer
    <2>6. CASE AnswerCrossesTimeout
      BY <2>6, KeptByCross
    <2>7. CASE dispatch
      BY <2>7, KeptByDispatch
    <2>8. ASSUME NEW k \in 1..MaxDrops, dispatchOld(k)
          PROVE  FeedInv'
      BY <2>8, KeptByOldDispatch
    <2>9. CASE FeedHears
      BY <2>9, KeptByFeedHears
    <2>10. ASSUME NEW stays \in BOOLEAN, LinkDrops(stays)
           PROVE  FeedInv'
      BY <2>10, KeptByDrop
    <2>11. CASE UNCHANGED vars
      <3>1. UNCHANGED <<adapter, run, runs, doing, reply, handle, ids, abandoned, subs,
                        requests, up, linked, out, in, reading, old, served, refused,
                        granted, drops>>
        BY <2>11, Zenon DEF vars, mainVars, portVars, lossVars, farVars, linkVars
      <3>2. MainFits' /\ ReplyFits' /\ ReplyTrue'
        BY <3>1 DEF FeedInv, MainFits, ReplyFits, ReplyTrue
      <3>3. FeedTypeOK'
        BY <3>1 DEF FeedInv, FeedTypeOK
      <3>4. FarFits' /\ HeldIsServed'
        BY <3>1 DEF FeedInv, FarFits, HeldIsServed
      <3>5. ServedIsOwned'
        BY <3>1 DEF FeedInv, ServedIsOwned
      <3>6. GivenOut(out)' /\ EndsOver(out)' /\ GivenOut(in)'
        BY <3>1 DEF FeedInv, GivenOut, EndsOver
      <3>7. AskedOnce(out)'
        BY <3>1 DEF FeedInv, AskedOnce
      <3>8. AsksOwned(out)'
        BY <3>1 DEF FeedInv, AsksOwned
      <3>9. Answers(in)'
        BY <3>1 DEF FeedInv, Answers
      <3>10. OldFits'
        BY <3>1 DEF FeedInv, OldFits, GivenOut, OldAnswers
      <3> QED BY <3>2, <3>3, <3>4, <3>5, <3>6, <3>7, <3>8, <3>9, <3>10
              DEF FeedInv
    <2> QED BY <2>1, <2>2, <2>3, <2>4, <2>5, <2>6, <2>7, <2>8, <2>9, <2>10, <2>11, Zenon
            DEF Next, Why
  <1> QED BY FeedInvInit, <1>1, PTL DEF Spec

(* Type correctness, and what the port keeps of the subscription the        *)
(* monitor holds: kpm_monitor.py handle, jsonfeed.py _subs, _sub_requests.  *)
THEOREM FeedTypes == Spec => []FeedTypeOK
  <1>1. FeedInv => FeedTypeOK
    BY DEF FeedInv
  <1> QED BY <1>1, FeedInvHolds, PTL

(* What the monitor holds was granted, and on a link it is served, or asked *)
(* for again, or was refused when it was asked for again.                   *)
THEOREM HeldIsAlwaysServed == Spec => []HeldIsServed
  <1>1. FeedInv => HeldIsServed
    BY DEF FeedInv
  <1> QED BY <1>1, FeedInvHolds, PTL

(* No subscription outlives its run, but for one granted too late, whatever *)
(* the readers of earlier links still do.                                   *)
THEOREM ServedIsAlwaysOwned == Spec => []ServedIsOwned
  <1>1. FeedInv => ServedIsOwned
    BY DEF FeedInv
  <1> QED BY <1>1, FeedInvHolds, PTL
=============================================================================
