----------------------------- MODULE StompBroker -----------------------------
(***************************************************************************)
(* The in-process STOMP broker (SimpleBroker) and the WebSocket endpoint   *)
(* in front of it (Endpoint).  Every broker operation is one step under    *)
(* its mutex, except publish, which takes a snapshot of the subscriptions, *)
(* sends to each of them without the lock, records each delivery that      *)
(* wants an acknowledgement under the lock again, and at the end removes   *)
(* the subscriptions of the sessions it found closed.  The frames of a     *)
(* session run on its shard thread; each session has a shard of its own,   *)
(* so that frames of two sessions interleave.                              *)
(***************************************************************************)
EXTENDS Naturals, Sequences, FiniteSets

CONSTANTS Sessions,   \* WebSocket sessions
          Senders,    \* those that publish
          Dests,      \* destinations
          Kind,       \* Dests -> "topic", "queue" or "user"
          Owner,      \* Dests -> the principal of a "user" destination
          Principal,  \* Sessions -> principal
          SubIds,     \* subscription ids clients use
          Modes,      \* ack modes clients ask for
          MaxMsg,     \* bound of the model: message ids handed out
          MaxSubs,    \* bound of the model: Sessions -> ids its endpoint notes
          MaxNack     \* bound of the model: negative acknowledgements

VARIABLES ws,         \* each session: "fresh", "admitted", "open", "closing", "gone"
          conn,       \* connections_ and the ConnectionState of each session
          accepting,  \* Endpoint::accepting_
          doomed,     \* sessions force_shutdown has taken and not yet closed
          subs,       \* subscriptions_
          cursor,     \* queue_cursors_
          pending,    \* pending_acks_
          nextMsg,    \* next_message_id_
          task,       \* the frame a session's shard thread is inside of
          sent,       \* history: MESSAGE frames each session accepted, in order
          recorded,   \* history: deliveries entered in pending_acks_, in order
          acks,       \* history: deliveries the client named in an ACK that was accepted
          ended,      \* history: deliveries of subscriptions the client has ended
          voided,     \* history: deliveries recorded when the session last unsubscribed
          nacks       \* counts what is bounded by MaxNack

brokerVars == <<subs, cursor, pending, nextMsg>>
historyVars == <<sent, recorded, acks, ended, voided, nacks>>
vars == <<ws, conn, accepting, doomed, brokerVars, task, historyVars>>

Subscription == [session : Sessions, id : SubIds, mode : Modes]
Delivery == [msg : 1..MaxMsg, sub : SubIds, mode : Modes]
Idle == [pc |-> "idle"]
Elems(q) == {q[i] : i \in 1..Len(q)}

TypeOK ==
  /\ ws \in [Sessions -> {"fresh", "admitted", "open", "closing", "gone"}]
  /\ conn \in [Sessions -> [known : BOOLEAN, connected : BOOLEAN, ids : Seq(SubIds)]]
  /\ accepting \in BOOLEAN /\ doomed \subseteq Sessions
  /\ subs \in [Dests -> Seq(Subscription)]
  /\ cursor \in [Dests -> 0..MaxMsg]
  /\ pending \in [Sessions -> Seq(Delivery)]
  /\ nextMsg \in 1..(MaxMsg + 1)
  /\ \A s \in Sessions :
       \/ task[s] = Idle
       \/ task[s].pc = "subscribe" /\ task[s].id \in SubIds
       \/ /\ task[s].pc \in {"send", "record"}
          /\ task[s].dest \in Dests /\ task[s].msg \in 1..MaxMsg
          /\ task[s].targets \in Seq(Subscription)
          /\ task[s].stale \subseteq Sessions /\ task[s].any \in BOOLEAN
          /\ task[s].pc = "record" => task[s].targets # <<>>
  /\ sent \in [Sessions -> Seq(Delivery)]
  /\ recorded \in [Sessions -> Seq(Delivery)]
  /\ acks \in [Sessions -> SUBSET Delivery] /\ ended \in [Sessions -> SUBSET Delivery]
  /\ \A s \in Sessions : voided[s] \in 0..Len(recorded[s])
  /\ nacks \in 0..MaxNack

Init ==
  /\ ws = [s \in Sessions |-> "fresh"]
  /\ conn = [s \in Sessions |-> [known |-> FALSE, connected |-> FALSE, ids |-> <<>>]]
  /\ accepting = TRUE /\ doomed = {}
  /\ subs = [d \in Dests |-> <<>>]
  /\ cursor = [d \in Dests |-> 0]
  /\ pending = [s \in Sessions |-> <<>>]
  /\ nextMsg = 1
  /\ task = [s \in Sessions |-> Idle]
  /\ sent = [s \in Sessions |-> <<>>]
  /\ recorded = [s \in Sessions |-> <<>>]
  /\ acks = [s \in Sessions |-> {}] /\ ended = [s \in Sessions |-> {}]
  /\ voided = [s \in Sessions |-> 0]
  /\ nacks = 0

Active(s) == ws[s] = "open"

(* The frame is read, process_frame runs with connected set.               *)
Reads(s) == Active(s) /\ conn[s].known /\ conn[s].connected /\ task[s] = Idle

(* protocol_error: an ERROR frame and close(1002).                         *)
ProtocolError(s) == ws' = [ws EXCEPT ![s] = "closing"]

-----------------------------------------------------------------------------
(* Connections                                                             *)

(* on_open: the check of accepting_ comes before the lock.                 *)
Admit(s) ==
  /\ ws[s] = "fresh"
  /\ ws' = [ws EXCEPT ![s] = IF accepting THEN "admitted" ELSE "closing"]
  /\ UNCHANGED <<conn, accepting, doomed, brokerVars, task, historyVars>>

Register(s) ==
  /\ ws[s] = "admitted"
  /\ ws' = [ws EXCEPT ![s] = "open"]
  /\ conn' = [conn EXCEPT ![s].known = TRUE]
  /\ UNCHANGED <<accepting, doomed, brokerVars, task, historyVars>>

Connect(s) ==
  /\ Active(s) /\ conn[s].known /\ ~conn[s].connected
  /\ conn' = [conn EXCEPT ![s].connected = TRUE]
  /\ UNCHANGED <<ws, accepting, doomed, brokerVars, task, historyVars>>

(* DISCONNECT, the peer's Close, or a frame that ends in protocol_error.   *)
Leave(s) ==
  /\ Active(s) /\ task[s] = Idle
  /\ ProtocolError(s)
  /\ UNCHANGED <<conn, accepting, doomed, brokerVars, task, historyVars>>

(* The transport breaks: the session is gone and on_close is not called.   *)
Drop(s) ==
  /\ ws[s] \in {"open", "closing"} /\ task[s] = Idle
  /\ ws' = [ws EXCEPT ![s] = "gone"]
  /\ UNCHANGED <<conn, accepting, doomed, brokerVars, task, historyVars>>

(* unsubscribe forgets the subscription under every destination and all    *)
(* the session's deliveries.                                               *)
Unsubscribed(S) ==
  [d \in Dests |-> SelectSeq(subs[d], LAMBDA x : <<x.session, x.id>> \notin S)]

ForgetSession(s) ==
  /\ subs' = Unsubscribed({s} \X Elems(conn[s].ids))
  /\ pending' = IF conn[s].ids = <<>> THEN pending ELSE [pending EXCEPT ![s] = <<>>]
  /\ ended' = [ended EXCEPT ![s] = Elems(sent[s])]
  /\ voided' = [voided EXCEPT ![s] = IF conn[s].ids = <<>> THEN @ ELSE Len(recorded[s])]
  /\ UNCHANGED <<cursor, nextMsg>>

(* The closing handshake completes: on_close, on the shard thread.         *)
OnClose(s) ==
  /\ ws[s] = "closing" /\ task[s] = Idle
  /\ ws' = [ws EXCEPT ![s] = "gone"]
  /\ IF conn[s].known
     THEN ForgetSession(s) /\ conn' = [conn EXCEPT ![s].known = FALSE]
     ELSE UNCHANGED <<conn, brokerVars, ended, voided>>
  /\ UNCHANGED <<accepting, doomed, task, sent, recorded, acks, nacks>>

BeginShutdown ==
  /\ accepting
  /\ accepting' = FALSE
  /\ ws' = [s \in Sessions |-> IF conn[s].known /\ Active(s) THEN "closing" ELSE ws[s]]
  /\ UNCHANGED <<conn, doomed, brokerVars, task, historyVars>>

ForceShutdown ==
  /\ ~accepting /\ \E s \in Sessions : conn[s].known
  /\ doomed' = doomed \cup {s \in Sessions : conn[s].known}
  /\ conn' = [s \in Sessions |-> [conn[s] EXCEPT !.known = FALSE]]
  /\ UNCHANGED <<ws, accepting, brokerVars, task, historyVars>>

ForceOne(s) ==
  /\ s \in doomed
  /\ doomed' = doomed \ {s}
  /\ ForgetSession(s)
  /\ ws' = [ws EXCEPT ![s] = IF Active(s) THEN "closing" ELSE @]
  /\ UNCHANGED <<conn, accepting, task, sent, recorded, acks, nacks>>

-----------------------------------------------------------------------------
(* SUBSCRIBE and UNSUBSCRIBE                                               *)

PlaceAppended(q, x) == Append(q, x)
Place(q, x) ==
  IF \E i \in 1..Len(q) : q[i].session = x.session /\ q[i].id = x.id
  THEN [i \in 1..Len(q) |->
          IF q[i].session = x.session /\ q[i].id = x.id THEN x ELSE q[i]]
  ELSE Append(q, x)

Subscribe(s, d, id, mode) ==
  /\ Reads(s) /\ Len(conn[s].ids) < MaxSubs[s]
  /\ subs' = [subs EXCEPT ![d] = Place(@, [session |-> s, id |-> id, mode |-> mode])]
  /\ task' = [task EXCEPT ![s] = [pc |-> "subscribe", id |-> id]]
  /\ UNCHANGED <<ws, conn, accepting, doomed, cursor, pending, nextMsg, historyVars>>

(* subscription_ids.emplace_back, after the broker's lock is released.     *)
NoteSubscription(s) ==
  /\ task[s].pc = "subscribe"
  /\ conn' = [conn EXCEPT ![s].ids = Append(@, task[s].id)]
  /\ task' = [task EXCEPT ![s] = Idle]
  /\ UNCHANGED <<ws, accepting, doomed, brokerVars, historyVars>>

Unsubscribe(s, id) ==
  /\ Reads(s)
  /\ subs' = Unsubscribed({<<s, id>>})
  /\ pending' = [pending EXCEPT ![s] = <<>>]
  /\ ended' = [ended EXCEPT ![s] = @ \cup {x \in Elems(sent[s]) : x.sub = id}]
  /\ voided' = [voided EXCEPT ![s] = Len(recorded[s])]
  /\ conn' = [conn EXCEPT ![s].ids = SelectSeq(@, LAMBDA x : x # id)]
  /\ UNCHANGED <<ws, accepting, doomed, cursor, nextMsg, task, sent, recorded, acks, nacks>>

-----------------------------------------------------------------------------
(* SEND: publish, step by step                                             *)

(* The first active subscription from the cursor on.                       *)
Competing(d) ==
  LET q == subs[d]
      At(o) == q[((cursor[d] + o) % Len(q)) + 1]
      found == {o \in 0..(Len(q) - 1) : Active(At(o).session)}
  IN  IF found = {} THEN <<>>
      ELSE <<At(CHOOSE o \in found : \A p \in found : o <= p)>>

Targets(d) ==
  CASE Kind[d] = "queue" -> Competing(d)
    [] Kind[d] = "user"  -> SelectSeq(subs[d], LAMBDA x : Principal[x.session] = Owner[d])
    [] OTHER             -> subs[d]

(* publish returned 0 and the destination is neither /topic nor /queue.     *)
RejectSend(s) == ProtocolError(s)

Send(s, d) ==
  /\ Reads(s) /\ s \in Senders
  /\ IF subs[d] = <<>>
     THEN /\ IF Kind[d] = "user" THEN RejectSend(s) ELSE UNCHANGED ws
          /\ UNCHANGED <<cursor, nextMsg, task>>
     ELSE /\ nextMsg <= MaxMsg
          /\ nextMsg' = nextMsg + 1
          /\ cursor' = IF Kind[d] = "queue" THEN [cursor EXCEPT ![d] = @ + 1] ELSE cursor
          /\ task' = [task EXCEPT ![s] =
               [pc |-> "send", dest |-> d, msg |-> nextMsg, targets |-> Targets(d),
                stale |-> {}, any |-> FALSE]]
          /\ UNCHANGED ws
  /\ UNCHANGED <<conn, accepting, doomed, subs, pending, historyVars>>

Sending(s) == task[s].pc = "send" /\ task[s].targets # <<>>
Target(s) == Head(task[s].targets)
Made(s) == [msg |-> task[s].msg, sub |-> Target(s).id, mode |-> Target(s).mode]

DeliverStale(s) ==
  /\ Sending(s) /\ ~Active(Target(s).session)
  /\ task' = [task EXCEPT ![s].stale = @ \cup {Target(s).session}, ![s].targets = Tail(@)]
  /\ UNCHANGED <<ws, conn, accepting, doomed, brokerVars, historyVars>>

(* A delivery that wants an acknowledgement is recorded next.              *)
AfterSend(s) ==
  IF Target(s).mode = "auto" THEN [task[s] EXCEPT !.any = TRUE, !.targets = Tail(@)]
  ELSE [task[s] EXCEPT !.any = TRUE, !.pc = "record"]

Deliver(s) ==
  /\ Sending(s) /\ Active(Target(s).session)
  /\ sent' = [sent EXCEPT ![Target(s).session] = Append(@, Made(s))]
  /\ task' = [task EXCEPT ![s] = AfterSend(s)]
  /\ UNCHANGED <<ws, conn, accepting, doomed, brokerVars, recorded, acks, ended, voided, nacks>>

(* The session's queue is full: send_text closes it and returns false.     *)
DeliverOverflow(s) ==
  /\ Sending(s) /\ Active(Target(s).session)
  /\ ws' = [ws EXCEPT ![Target(s).session] = "closing"]
  /\ task' = [task EXCEPT ![s].stale = @ \cup {Target(s).session}, ![s].targets = Tail(@)]
  /\ UNCHANGED <<conn, accepting, doomed, brokerVars, historyVars>>

RecordPending(s) ==
  /\ task[s].pc = "record"
  /\ pending' = [pending EXCEPT ![Target(s).session] = Append(@, Made(s))]
  /\ recorded' = [recorded EXCEPT ![Target(s).session] = Append(@, Made(s))]
  /\ task' = [task EXCEPT ![s].pc = "send", ![s].targets = Tail(@)]
  /\ UNCHANGED <<ws, conn, accepting, doomed, subs, cursor, nextMsg, sent, acks, ended, voided, nacks>>

FinishPublish(s) ==
  /\ task[s].pc = "send" /\ task[s].targets = <<>>
  /\ subs' = Unsubscribed(task[s].stale \X SubIds)
  /\ task' = [task EXCEPT ![s] = Idle]
  /\ IF ~task[s].any /\ Kind[task[s].dest] = "user" /\ Active(s)
     THEN RejectSend(s) ELSE UNCHANGED ws
  /\ UNCHANGED <<conn, accepting, doomed, cursor, pending, nextMsg, historyVars>>

-----------------------------------------------------------------------------
(* ACK and NACK of a message the client has got and not settled yet.       *)

Acked(s, x) == {i \in 1..Len(pending[s]) : pending[s][i].msg = x.msg}
Found(s, x) == CHOOSE i \in Acked(s, x) : \A j \in Acked(s, x) : i <= j

(* Deliveries up to x in the order the client got them, and what the       *)
(* client has settled, in its own view.                                    *)
UpTo(s, x) ==
  {sent[s][i] : i \in {i \in 1..Len(sent[s]) : \E j \in i..Len(sent[s]) : sent[s][j] = x}}
Settled(s) == UNION {IF x.mode = "client" THEN UpTo(s, x) ELSE {x} : x \in acks[s]}
Unsettled(s) == Elems(sent[s]) \ (Settled(s) \cup ended[s])

RemainingOthers(s, i) ==
  SubSeq(pending[s], 1, i - 1) \o SubSeq(pending[s], i + 1, Len(pending[s]))
Remaining(s, i) ==
  IF pending[s][i].mode = "client"
  THEN SubSeq(pending[s], i + 1, Len(pending[s]))
  ELSE RemainingOthers(s, i)

Acknowledge(s, x) ==
  /\ Acked(s, x) # {}
  /\ pending' = [pending EXCEPT ![s] = Remaining(s, Found(s, x))]
  /\ acks' = [acks EXCEPT ![s] = @ \cup {x}]
  /\ UNCHANGED ws

AckUnknown(s, x) ==
  /\ Acked(s, x) = {}
  /\ ProtocolError(s)
  /\ UNCHANGED <<pending, acks>>

Ack(s, x) ==
  /\ Reads(s) /\ x \in Unsettled(s) /\ x.mode # "auto"
  /\ Acknowledge(s, x) \/ AckUnknown(s, x)
  /\ UNCHANGED <<conn, accepting, doomed, subs, cursor, nextMsg, task, sent, recorded, ended, voided, nacks>>

(* The message goes to the session again if its subscription is still      *)
(* there, and stays pending.  When send_text refuses it, the session's     *)
(* queue is full and the session closes, as after an unknown id.           *)
Redelivers(s, i) ==
  \E d \in Dests : \E y \in Elems(subs[d]) : y.session = s /\ y.id = pending[s][i].sub

NackKeeps(s, x) == UNCHANGED pending

Nack(s, x) ==
  /\ Reads(s) /\ x \in Unsettled(s) /\ x.mode # "auto"
  /\ nacks < MaxNack /\ nacks' = nacks + 1
  /\ \/ Acked(s, x) # {} /\ Redelivers(s, Found(s, x)) /\ UNCHANGED ws
     \/ ProtocolError(s)
  /\ NackKeeps(s, x)
  /\ UNCHANGED <<conn, accepting, doomed, subs, cursor, nextMsg, task, sent, recorded, acks, ended, voided>>

-----------------------------------------------------------------------------
Publishing(s) ==
  \/ DeliverStale(s) \/ Deliver(s) \/ DeliverOverflow(s)
  \/ RecordPending(s) \/ FinishPublish(s)

Next ==
  \/ BeginShutdown \/ ForceShutdown
  \/ \E s \in Sessions :
       \/ Admit(s) \/ Register(s) \/ Connect(s) \/ Leave(s) \/ Drop(s) \/ OnClose(s)
       \/ ForceOne(s) \/ NoteSubscription(s) \/ Publishing(s)
       \/ \E d \in Dests : Send(s, d)
       \/ \E d \in Dests, id \in SubIds, mode \in Modes : Subscribe(s, d, id, mode)
       \/ \E id \in SubIds : Unsubscribe(s, id)
       \/ \E x \in Elems(sent[s]) : Ack(s, x) \/ Nack(s, x)

Spec == Init /\ [][Next]_vars

-----------------------------------------------------------------------------
(* Properties                                                              *)

Gets(s, m) == {i \in 1..Len(sent[s]) : sent[s][i].msg = m}

(* A subscription gets a published message at most once (NACK apart), even *)
(* when the client subscribes again under an id it already uses: subscribe *)
(* replaces the entry instead of adding a second one.                      *)
DeliveredOnce ==
  \A s \in Sessions : \A i, j \in 1..Len(sent[s]) :
    sent[s][i].msg = sent[s][j].msg /\ sent[s][i].sub = sent[s][j].sub => i = j

(* A message to a /queue destination reaches one subscriber in all,        *)
(* however the subscribers come, go and fail while it is being sent.       *)
QueueCompetes ==
  \A p \in Sessions : task[p].pc \in {"send", "record"} /\ Kind[task[p].dest] = "queue" =>
    /\ Len(task[p].targets) <= 1
    /\ task[p].targets # <<>> /\ task[p].pc = "send" =>
         \A s \in Sessions : Gets(s, task[p].msg) = {}
    /\ \A s, t \in Sessions :
         Gets(s, task[p].msg) # {} /\ Gets(t, task[p].msg) # {} => s = t

(* A message to /user/{principal}/... only reaches sessions of that        *)
(* principal, whoever else has subscribed to the destination.              *)
UserPrivate ==
  \A p \in Sessions : task[p].pc \in {"send", "record"} /\ Kind[task[p].dest] = "user" =>
    \A s \in Sessions : Gets(s, task[p].msg) # {} => Principal[s] = Owner[task[p].dest]

(* A delivery that wants an acknowledgement is about to be recorded by the *)
(* publisher that has just sent it, or pending, or one of three things     *)
(* happened: the session unsubscribed after it was recorded (from          *)
(* whatever subscription: unsubscribe erases all of the session's), or an  *)
(* ACK named its message, or an ACK of a cumulative mode named one that    *)
(* was recorded after it.                                                  *)
InFlight(s, x) ==
  \E p \in Sessions : task[p].pc = "record" /\ Target(p).session = s /\ Made(p) = x
Named(s, x) == \E y \in acks[s] : y.msg = x.msg
KeptUntilSettled ==
  \A s \in Sessions :
    /\ \A x \in Elems(sent[s]) : x.mode = "auto" \/ x \in Elems(recorded[s]) \/ InFlight(s, x)
    /\ \A i \in 1..Len(recorded[s]) :
         \/ recorded[s][i] \in Elems(pending[s]) \/ i <= voided[s] \/ Named(s, recorded[s][i])
         \/ \E j \in i..Len(recorded[s]) : recorded[s][j].mode = "client" /\ Named(s, recorded[s][j])

(* The client's own view.  For a session whose deliveries belong to one    *)
(* subscription, were recorded in the order in which it got them and were  *)
(* not taken away by an UNSUBSCRIBE of another id, what it has not settled *)
(* is kept ("at-least-once"), and what it has settled,  *)
(* one by one or cumulatively ("all earlier messages for the connection"), *)
(* is no longer pending.  With two subscriptions an UNSUBSCRIBE takes the  *)
(* other's deliveries away and an ACK may hit the other's delivery of the  *)
(* same message; two publishers may record in another order than they sent.*)
OwnUnsubscribes(s) == \A i \in 1..voided[s] : recorded[s][i] \in ended[s]
OneSubscription(s) == \A x, y \in Elems(sent[s]) : x.sub = y.sub
RecordedInOrder(s) ==
  \A i \in 1..Len(recorded[s]) : recorded[s][i] = SelectSeq(sent[s], LAMBDA x : x.mode # "auto")[i]
AtLeastOnce ==
  \A s \in Sessions : ws[s] # "gone" /\ OneSubscription(s) /\ OwnUnsubscribes(s) /\ RecordedInOrder(s) =>
    /\ \A x \in Unsettled(s) : x.mode = "auto" \/ x \in Elems(pending[s]) \/ InFlight(s, x)
    /\ Active(s) => Elems(pending[s]) \cap Settled(s) = {}

(* When the closing handshake has run on_close, the broker keeps no        *)
(* subscription of the session, unless force_shutdown has taken over.      *)
ClosedForgotten ==
  \A s \in Sessions : ws[s] = "gone" /\ conn[s].connected /\ ~conn[s].known /\ accepting =>
    \A d \in Dests : \A x \in Elems(subs[d]) : x.session # s

(* All of the above.                                                       *)
DeliveriesSound ==
  /\ TypeOK /\ DeliveredOnce /\ QueueCompetes /\ UserPrivate /\ ClosedForgotten
  /\ KeptUntilSettled /\ AtLeastOnce
=============================================================================
