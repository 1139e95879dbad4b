------------------------------ MODULE StompRelay ------------------------------
(***************************************************************************)
(* One browser session of the STOMP broker relay (RelayEndpoint): the      *)
(* shard thread that queues the browser's frames, the worker thread that   *)
(* owns the TCP connection to the broker and replays CONNECT and the       *)
(* active subscriptions after a reconnect, and the broker at the far end.  *)
(* Critical sections under ConnectionState::mutex are one step each; the   *)
(* frames of a batch are sent one by one.  What is in the socket buffers   *)
(* when a connection breaks or is closed may still reach the broker, at    *)
(* any later time, or never.                                               *)
(***************************************************************************)
EXTENDS Naturals, Sequences, FiniteSets

CONSTANTS SubIds,     \* subscription ids
          MaxQueued,  \* Config::max_queued_frames
          MaxData,    \* bound of the model: SEND, ACK, ... frames of the browser
          MaxSubs,    \* bound of the model: SUBSCRIBE and UNSUBSCRIBE frames
          MaxDials,   \* bound of the model: successful connects to the broker
          Buffer      \* frames the socket buffers hold

VARIABLES active,     \* the browser's session is neither closing nor gone
          known,      \* the session is in connections_
          stop,       \* the worker's stop token
          greeting,   \* connect_frame has a value
          subs,       \* ConnectionState::subscriptions
          outbound,   \* ConnectionState::outbound
          wpc,        \* the worker: see Worker below
          batch,      \* frames the worker has taken and not yet sent
          link,       \* "none", "up", or "broken" and not yet noticed
          wire,       \* frames in the socket buffers
          late,       \* data frames still under way on connections that have gone
          broker,     \* the broker's side of the current connection
          welcomed,   \* the browser has got CONNECTED
          got,        \* history: data frames the broker has got and on which connection
          data, subFrames, dials  \* counts

bounds == <<data, subFrames, dials>>
vars == <<active, known, stop, greeting, subs, outbound, wpc, batch, link, wire,
          late, broker, welcomed, got, bounds>>

Frame == [kind : {"connect"}] \cup [kind : {"sub", "unsub"}, id : SubIds]
           \cup [kind : {"data"}, n : 1..MaxData]
Arrival == [conn : 1..MaxDials, n : 1..MaxData]
Fresh == [connected |-> FALSE, subs |-> {}]

TypeOK ==
  /\ active \in BOOLEAN /\ known \in BOOLEAN /\ stop \in BOOLEAN /\ greeting \in BOOLEAN
  /\ subs \subseteq SubIds
  /\ outbound \in Seq(Frame) /\ Len(outbound) <= MaxQueued
  /\ wpc \in {"dial", "wait", "snapshot", "greet", "flush", "loop", "done"}
  /\ batch \in Seq(Frame) /\ (wpc \notin {"greet", "flush"} => batch = <<>>)
  /\ link \in {"none", "up", "broken"} /\ wire \in Seq(Frame)
  /\ link # "up" => wire = <<>>
  /\ late \in Seq(Arrival)
  /\ broker \in [connected : BOOLEAN, subs : SUBSET SubIds]
  /\ welcomed \in BOOLEAN /\ got \in Seq(Arrival)
  /\ data \in 0..MaxData /\ subFrames \in 0..MaxSubs /\ dials \in 0..MaxDials

Init ==
  /\ active = TRUE /\ known = TRUE /\ stop = FALSE /\ greeting = FALSE
  /\ subs = {} /\ outbound = <<>>
  /\ wpc = "dial" /\ batch = <<>>
  /\ link = "none" /\ wire = <<>> /\ late = <<>> /\ broker = Fresh
  /\ welcomed = FALSE /\ got = <<>>
  /\ data = 0 /\ subFrames = 0 /\ dials = 0

workerVars == <<wpc, batch, link, wire, late, broker, welcomed, got, dials>>

-----------------------------------------------------------------------------
(* The shard thread: on_message, on_close, and the shutdown functions      *)

BrowserConnect ==
  /\ active /\ known /\ ~greeting
  /\ greeting' = TRUE
  /\ UNCHANGED <<active, known, stop, subs, outbound, workerVars, data, subFrames>>

(* A full queue closes the session with 1013.                              *)
Enqueue(f) ==
  IF Len(outbound) >= MaxQueued
  THEN active' = FALSE /\ UNCHANGED outbound
  ELSE outbound' = Append(outbound, f) /\ UNCHANGED active

BrowserSubscribes(id) ==
  /\ active /\ known /\ welcomed /\ subFrames < MaxSubs
  /\ subFrames' = subFrames + 1
  /\ \/ subs' = subs \cup {id} /\ Enqueue([kind |-> "sub", id |-> id])
     \/ subs' = subs \ {id} /\ Enqueue([kind |-> "unsub", id |-> id])
  /\ UNCHANGED <<known, stop, greeting, workerVars, data>>

BrowserSends ==
  /\ active /\ known /\ welcomed /\ data < MaxData
  /\ data' = data + 1
  /\ Enqueue([kind |-> "data", n |-> data + 1])
  /\ UNCHANGED <<known, stop, greeting, subs, workerVars, subFrames>>

(* DISCONNECT by Close frame, begin_shutdown, a rejected or malformed      *)
(* frame: the session starts to close.                                     *)
SessionCloses ==
  /\ active /\ active' = FALSE
  /\ UNCHANGED <<known, stop, greeting, subs, outbound, workerVars, data, subFrames>>

(* on_close, or force_shutdown: the worker is asked to stop; the caller    *)
(* then joins it.                                                          *)
StopWorker ==
  /\ known /\ known' = FALSE /\ stop' = TRUE /\ active' = FALSE
  /\ UNCHANGED <<greeting, subs, outbound, workerVars, data, subFrames>>

-----------------------------------------------------------------------------
(* The worker thread: relay_loop                                           *)

shardVars == <<active, known, stop, greeting, data, subFrames>>
farVars == <<welcomed, got>>
RunningUntilStop == ~stop
Running == ~stop /\ active

Finish == ~Running /\ wpc' = "done" /\ UNCHANGED <<link, wire, late, broker, dials>>

(* connect_broker: getaddrinfo and connect.                                *)
Dial ==
  /\ wpc = "dial"
  /\ \/ Finish
     \/ /\ Running /\ dials < MaxDials /\ dials' = dials + 1
        /\ wpc' = "snapshot" /\ link' = "up" /\ wire' = <<>> /\ broker' = Fresh
        /\ UNCHANGED late
     \/ Running /\ wpc' = "wait" /\ UNCHANGED <<link, wire, late, broker, dials>>
  /\ UNCHANGED <<shardVars, subs, outbound, batch, farVars>>

(* reconnect_delay passes or the stop token wakes the thread.              *)
Wait ==
  /\ wpc = "wait" /\ wpc' = "dial"
  /\ UNCHANGED <<shardVars, subs, outbound, batch, link, wire, late, broker, farVars, dials>>

IsData(f) == f.kind = "data"

SubFrames(S) ==
  {q \in [1..Cardinality(S) -> [kind : {"sub"}, id : S]] :
     \A i, j \in DOMAIN q : q[i] = q[j] => i = j}

(* The replay state and the queued frames it does not stand for, in one    *)
(* critical section.  Without a CONNECT to replay, the connection is       *)
(* closed again and what was taken is gone.                                *)
SnapshotBatch(q) == q \o SelectSeq(outbound, IsData)

(* close(fd), and a connection that breaks: what the broker has not read   *)
(* yet is on its own from here.                                            *)
LeaveUnread ==
  LET unread == SelectSeq(wire, IsData)
  IN  /\ late' = late \o [i \in 1..Len(unread) |-> [conn |-> dials, n |-> unread[i].n]]
      /\ wire' = <<>>
Hangup == link' = "none" /\ LeaveUnread /\ broker' = Fresh

Snapshot ==
  /\ wpc = "snapshot"
  /\ outbound' = <<>>
  /\ IF greeting
     THEN /\ \E q \in SubFrames(subs) : batch' = SnapshotBatch(q)
          /\ wpc' = "greet" /\ UNCHANGED <<link, wire, late, broker>>
     ELSE wpc' = "wait" /\ batch' = <<>> /\ Hangup
  /\ UNCHANGED <<shardVars, subs, farVars, dials>>

(* send_all: into the socket buffer, into a connection that is already     *)
(* broken, or an error.                                                    *)
Puts(f) ==
  \/ link = "up" /\ Len(wire) < Buffer /\ wire' = Append(wire, f)
  \/ link = "broken" /\ UNCHANGED wire

Greet ==
  /\ wpc = "greet"
  /\ \/ Puts([kind |-> "connect"]) /\ wpc' = "flush" /\ UNCHANGED <<batch, link, late, broker>>
     \/ link = "broken" /\ wpc' = "wait" /\ batch' = <<>> /\ Hangup
  /\ UNCHANGED <<shardVars, subs, outbound, farVars, dials>>

FlushKept == UNCHANGED batch
FlushPopped == batch' = Tail(batch)

Flush ==
  /\ wpc = "flush"
  /\ IF batch = <<>>
     THEN wpc' = "loop" /\ UNCHANGED <<batch, link, wire, late, broker>>
     ELSE \/ Puts(Head(batch)) /\ FlushPopped /\ UNCHANGED <<wpc, link, late, broker>>
          \/ link = "broken" /\ wpc' = "dial" /\ batch' = <<>> /\ Hangup
  /\ UNCHANGED <<shardVars, subs, outbound, farVars, dials>>

(* The inner loop: leave it, or swap the queue out, or notice in select    *)
(* and recv that the connection is gone or its bytes are no STOMP.         *)
Loop ==
  /\ wpc = "loop"
  /\ \/ ~Running /\ wpc' = "dial" /\ Hangup /\ UNCHANGED <<outbound, batch>>
     \/ /\ Running /\ outbound # <<>> /\ wpc' = "flush"
        /\ batch' = outbound /\ outbound' = <<>>
        /\ UNCHANGED <<link, wire, late, broker>>
     \/ /\ Running /\ link = "broken" /\ wpc' = "dial" /\ Hangup
        /\ UNCHANGED <<outbound, batch>>
  /\ UNCHANGED <<shardVars, subs, farVars, dials>>

Worker == Dial \/ Wait \/ Snapshot \/ Greet \/ Flush \/ Loop

-----------------------------------------------------------------------------
(* The broker and the network                                              *)

BrokerReads ==
  /\ link = "up" /\ wire # <<>> /\ wire' = Tail(wire)
  /\ LET f == Head(wire)
     IN  /\ broker' = CASE f.kind = "connect" -> [broker EXCEPT !.connected = TRUE]
                        [] f.kind = "sub"   -> [broker EXCEPT !.subs = @ \cup {f.id}]
                        [] f.kind = "unsub" -> [broker EXCEPT !.subs = @ \ {f.id}]
                        [] OTHER            -> broker
         /\ welcomed' = (welcomed \/ f.kind = "connect")
         /\ got' = IF IsData(f) THEN Append(got, [conn |-> dials, n |-> f.n]) ELSE got
  /\ UNCHANGED <<shardVars, subs, outbound, wpc, batch, link, late, dials>>

Break ==
  /\ link = "up" /\ link' = "broken" /\ LeaveUnread
  /\ UNCHANGED <<shardVars, subs, outbound, wpc, batch, broker, farVars, dials>>

(* The next data frame of an old connection.                               *)
LateArrival(i) ==
  /\ \A j \in 1..(i - 1) : late[j].conn # late[i].conn
  /\ got' = Append(got, late[i])
  /\ late' = SubSeq(late, 1, i - 1) \o SubSeq(late, i + 1, Len(late))
  /\ UNCHANGED <<shardVars, subs, outbound, wpc, batch, link, wire, broker, welcomed, dials>>

Next ==
  \/ BrowserConnect \/ BrowserSends \/ (\E id \in SubIds : BrowserSubscribes(id))
  \/ SessionCloses \/ StopWorker \/ Worker \/ BrokerReads \/ Break
  \/ \E i \in 1..Len(late) : LateArrival(i)

(* The worker thread is scheduled, and the broker reads what it is sent    *)
(* (relay_loop's blocking send has no timeout).                            *)
Fairness == WF_vars(Worker) /\ WF_vars(BrokerReads)
Spec == Init /\ [][Next]_vars /\ Fairness

-----------------------------------------------------------------------------
(* Properties                                                              *)

(* Every frame but CONNECT and subscriptions reaches the broker at most    *)
(* once, across reconnects (what may already have been processed is never  *)
(* replayed), and the frames of one connection arrive in the order in which*)
(* the browser sent them.  A frame left in the buffers of a connection that*)
(* has gone may be overtaken by those of the next.                         *)
InOrderAtMostOnce ==
  \A i, j \in 1..Len(got) : i < j =>
    /\ got[i].n # got[j].n
    /\ got[i].conn = got[j].conn => got[i].n < got[j].n

(* Whenever the relay has nothing left to send on a working connection,    *)
(* the broker has exactly the client's active subscriptions, whatever was  *)
(* queued, dropped and replayed before.                                    *)
SubscriptionsReplayed ==
  wpc = "loop" /\ link = "up" /\ wire = <<>> /\ outbound = <<>> =>
    broker.connected /\ broker.subs = subs

(* The worker ends once its session closes, so that the join in on_close   *)
(* and force_shutdown returns.                                             *)
WorkerEnds == (~active) ~> (wpc = "done")

=============================================================================
