--------------------------- MODULE WebSocketSession ---------------------------
(***************************************************************************)
(* The sending side of one WebSocket connection: the queue any thread may  *)
(* append to through a SessionHandle (SharedSession), the frame buffer of  *)
(* the session on its shard thread, and the buffer of the transport below, *)
(* TcpConnectionManager's write_buffer ("tcp") or the outbound queue of an *)
(* HTTP/2 stream with its TransportBackpressure ("h2").  What nghttp2 reads*)
(* from that queue goes on into the same write_buffer, which has no limit  *)
(* of its own: over HTTP/2 it is the peer's flow-control window that stops *)
(* nghttp2 from reading more than the peer has made room for.              *)
(*                                                                         *)
(* Every SharedSession function is one step under its mutex; the wakeup it *)
(* calls afterwards only posts a drain, which may run at any later time,   *)
(* and is part of the same step.  The drain takes the queue in one step    *)
(* and then executes the commands while other threads go on.  A callback   *)
(* on the shard thread ends by moving the session's frames to the          *)
(* transport.                                                              *)
(***************************************************************************)
EXTENDS Integers, Sequences

CONSTANTS Payloads,       \* sizes of application messages
          Limit,          \* limits_.max_pending_send_bytes
          Header,         \* size of a frame header
          QueueOverhead,  \* what enqueue() adds to a payload (10)
          CloseSize,      \* size of a Close frame
          Window,         \* flow-control window of the HTTP/2 peer
          MaxSends,       \* bound of the model: messages, pings and closes over a run
          Transport       \* "tcp" or "h2"

ASSUME FramesAssumption ==
  /\ Payloads \subseteq Nat
  /\ {Limit, Header, QueueOverhead, CloseSize, Window, MaxSends} \subseteq Nat
  /\ Header <= QueueOverhead

VARIABLES active, closing,      \* SharedSession::active_, closing_
          queued, queuedBytes,  \* SharedSession::queued_ and its byte count
          drainPosted,          \* a drain is in the loop's task queue
          taken,                \* commands the running drain has still to execute
          dpc,                  \* shard thread: "idle" or "drain"
          out,                  \* Session: frames, bytes, close_sent_, reserved bytes
          connClosed,           \* Connection::closed_
          alive,                \* the Connection object exists
          buffer, bufferBytes,  \* frames in the transport's buffer
          unread,               \* bytes nghttp2 has passed on to write_buffer and the
                                \* peer has not read yet
          handedOn,             \* history: the frames that have left the buffer
          sends                 \* counts what is bounded by MaxSends

sharedVars == <<active, closing, queued, queuedBytes>>
bufferVars == <<buffer, bufferBytes, unread, handedOn>>
wsVars == <<sharedVars, drainPosted, taken, dpc, out, connClosed, alive, bufferVars, sends>>

Frame == [kind : {"data", "pong", "close"}, size : Nat]
Command == [kind : {"data", "close"}, size : Nat]

WsType ==
  /\ active \in BOOLEAN /\ closing \in BOOLEAN /\ drainPosted \in BOOLEAN
  /\ connClosed \in BOOLEAN /\ alive \in BOOLEAN
  /\ queued \in Seq(Command) /\ queuedBytes \in Nat
  /\ taken \in Seq(Command)
  /\ dpc \in {"idle", "drain"} /\ (dpc = "idle" => taken = <<>>)
  /\ out \in [frames : Seq(Frame), bytes : Nat, closeSent : BOOLEAN, reserved : Nat]
  /\ dpc = "idle" => out.frames = <<>> /\ out.bytes = 0
  /\ buffer \in Seq(Frame) /\ bufferBytes \in Int
  /\ unread \in 0..Window
  /\ handedOn \in Seq(Frame)
  /\ sends \in Nat

WsInit ==
  /\ active = TRUE /\ closing = FALSE
  /\ queued = <<>> /\ queuedBytes = 0
  /\ drainPosted = FALSE /\ taken = <<>> /\ dpc = "idle"
  /\ out = [frames |-> <<>>, bytes |-> 0, closeSent |-> FALSE, reserved |-> 0]
  /\ connClosed = FALSE /\ alive = TRUE
  /\ buffer = <<>> /\ bufferBytes = 0 /\ unread = 0 /\ handedOn = <<>>
  /\ sends = 0

-----------------------------------------------------------------------------
(* Session: what send_frame and close do to the session's buffer.          *)

Put(o, kind, size) ==
  [frames |-> Append(o.frames, [kind |-> kind, size |-> size]),
   bytes |-> o.bytes + size,
   closeSent |-> o.closeSent,
   reserved |-> IF Transport = "h2" THEN o.reserved + size ELSE o.reserved]

(* outbound_.clear() leaves the reservation as it is.                      *)
Cleared(o) ==
  [frames |-> <<>>, bytes |-> 0, closeSent |-> o.closeSent, reserved |-> o.reserved]

SessionClose(o) ==
  IF o.closeSent THEN o
  ELSE [Put(IF o.bytes + CloseSize > Limit THEN Cleared(o) ELSE o, "close", CloseSize)
          EXCEPT !.closeSent = TRUE]

NoRoomForFrames(o, size) == o.bytes + size > Limit
NoRoom(o, size) ==
  \/ o.bytes + size > Limit
  \/ Transport = "h2" /\ (size > Limit \/ o.reserved > Limit - size)

SendFrame(o, kind, size) ==
  IF NoRoom(o, size) THEN SessionClose(o) ELSE Put(o, kind, size)

SendDataUnchecked(o, payload) == SendFrame(o, "data", payload + Header)
SendData(o, payload) ==
  IF o.closeSent THEN o ELSE SendFrame(o, "data", payload + Header)

(* take_outbound() and its way into the transport's buffer.                *)
Flush(o) ==
  /\ buffer' = buffer \o o.frames
  /\ bufferBytes' = bufferBytes + o.bytes
  /\ out' = Cleared(o)

-----------------------------------------------------------------------------
(* SessionHandle, on any thread.                                           *)

MaySend == sends < MaxSends /\ sends' = sends + 1

QueueFull(payload) == queuedBytes + payload + QueueOverhead > Limit

Enqueue(payload) ==
  /\ MaySend
  /\ active /\ ~closing
  /\ IF QueueFull(payload)
     THEN /\ queued' = <<[kind |-> "close", size |-> 0]>>
          /\ queuedBytes' = 0
          /\ closing' = TRUE
     ELSE /\ queued' = Append(queued, [kind |-> "data", size |-> payload])
          /\ queuedBytes' = queuedBytes + payload + QueueOverhead
          /\ UNCHANGED closing
  /\ drainPosted' = TRUE
  /\ UNCHANGED <<active, taken, dpc, out, connClosed, alive, bufferVars>>

EnqueueCloseSilent ==
  /\ MaySend
  /\ active /\ ~closing
  /\ closing' = TRUE
  /\ queued' = Append(queued, [kind |-> "close", size |-> 0])
  /\ UNCHANGED <<active, queuedBytes, drainPosted, taken, dpc, out, connClosed, alive, bufferVars>>

EnqueueClose ==
  /\ MaySend
  /\ active /\ ~closing
  /\ closing' = TRUE
  /\ queued' = Append(queued, [kind |-> "close", size |-> 0])
  /\ drainPosted' = TRUE
  /\ UNCHANGED <<active, queuedBytes, taken, dpc, out, connClosed, alive, bufferVars>>

-----------------------------------------------------------------------------
(* The shard thread: drain_external_outbound.                              *)

DrainTake ==
  /\ drainPosted /\ dpc = "idle"
  /\ drainPosted' = FALSE
  /\ IF alive THEN /\ taken' = queued /\ queued' = <<>> /\ queuedBytes' = 0
                   /\ dpc' = "drain"
              ELSE UNCHANGED <<taken, queued, queuedBytes, dpc>>
  /\ UNCHANGED <<active, closing, out, connClosed, alive, bufferVars, sends>>

DrainCommand ==
  /\ dpc = "drain" /\ taken # <<>>
  /\ out' = IF Head(taken).kind = "close" THEN SessionClose(out)
                                          ELSE SendData(out, Head(taken).size)
  /\ closing' = (closing \/ out'.closeSent)
  /\ taken' = Tail(taken)
  /\ UNCHANGED <<active, queued, queuedBytes, drainPosted, dpc, connClosed, alive, bufferVars, sends>>

DrainFlush ==
  /\ dpc = "drain" /\ taken = <<>>
  /\ Flush(out)
  /\ dpc' = "idle"
  /\ UNCHANGED <<sharedVars, drainPosted, taken, connClosed, alive, unread, handedOn, sends>>

-----------------------------------------------------------------------------
(* The shard thread: feed() of a frame of the peer.                        *)

Feeds == alive /\ ~connClosed /\ dpc = "idle"

(* A message; on_message answers it with one of its own.                   *)
RecvMessage(payload) ==
  /\ Feeds /\ MaySend
  /\ Flush(SendData(out, payload))
  /\ closing' = (closing \/ out'.closeSent)
  /\ UNCHANGED <<active, queued, queuedBytes, drainPosted, taken, dpc, connClosed, alive, unread, handedOn>>

(* A Ping is answered without a look at close_sent_.                       *)
RecvPing ==
  /\ Feeds /\ MaySend
  /\ Flush(SendFrame(out, "pong", Header))
  /\ closing' = (closing \/ out'.closeSent)
  /\ UNCHANGED <<active, queued, queuedBytes, drainPosted, taken, dpc, connClosed, alive, unread, handedOn>>

(* A Close, or a frame that breaks the protocol (protocol_close).          *)
RecvClose ==
  /\ Feeds
  /\ Flush(SessionClose(out))
  /\ connClosed' = TRUE
  /\ active' = FALSE /\ closing' = TRUE
  /\ queued' = <<>> /\ queuedBytes' = 0
  /\ UNCHANGED <<drainPosted, taken, dpc, alive, unread, handedOn, sends>>

(* ~Connection: the peer has gone, or everything is written and the        *)
(* connection closed.                                                      *)
Destroy ==
  /\ alive /\ dpc = "idle"
  /\ alive' = FALSE
  /\ active' = FALSE /\ closing' = TRUE
  /\ queued' = <<>> /\ queuedBytes' = 0
  /\ buffer' = <<>> /\ bufferBytes' = 0 /\ unread' = 0
  /\ UNCHANGED <<drainPosted, taken, dpc, out, connClosed, handedOn, sends>>

(* The next frame leaves the buffer: send() takes it, or the data source of *)
(* the stream, which gives the reservation back.  nghttp2 calls the source *)
(* as far as the peer's window allows.                                     *)
Release(o, n) ==
  IF Transport = "h2"
  THEN [o EXCEPT !.reserved = IF n >= @ THEN 0 ELSE @ - n] ELSE o

WindowOpen(n) == Transport = "h2" => unread + n <= Window

Transmit ==
  /\ alive /\ dpc = "idle" /\ buffer # <<>>
  /\ WindowOpen(Head(buffer).size)
  /\ handedOn' = Append(handedOn, Head(buffer))
  /\ bufferBytes' = bufferBytes - Head(buffer).size
  /\ buffer' = Tail(buffer)
  /\ unread' = IF Transport = "h2" THEN unread + Head(buffer).size ELSE unread
  /\ out' = Release(out, Head(buffer).size)
  /\ UNCHANGED <<sharedVars, drainPosted, taken, dpc, connClosed, alive, sends>>

(* write_buffer drains to the peer, which reads and sends WINDOW_UPDATE.   *)
PeerReads ==
  /\ alive /\ unread > 0
  /\ unread' \in 0..(unread - 1)
  /\ UNCHANGED <<sharedVars, drainPosted, taken, dpc, out, connClosed, alive, buffer, bufferBytes,
                 handedOn, sends>>

WsNext ==
  \/ \E payload \in Payloads : Enqueue(payload) \/ RecvMessage(payload)
  \/ EnqueueClose
  \/ DrainTake \/ DrainCommand \/ DrainFlush
  \/ RecvPing \/ RecvClose \/ Destroy \/ Transmit \/ PeerReads

(* The owner loop runs what is posted.  The peer need not read.            *)
WsFairness == WF_wsVars(DrainTake) /\ WF_wsVars(DrainCommand) /\ WF_wsVars(DrainFlush)

WsSpec == WsInit /\ [][WsNext]_wsVars /\ WsFairness

-----------------------------------------------------------------------------
HasClose(frames) == \E i \in 1..Len(frames) : frames[i].kind = "close"
OnlyPongs(frames) == \A i \in 1..Len(frames) : frames[i].kind = "pong"
CloseThenPongs(frames) ==
  \A i, j \in 1..Len(frames) : i < j /\ frames[i].kind = "close" => frames[j].kind = "pong"

(* In what the peer gets (handedOn, then buffer, then the session's frames) *)
(* there is at most one Close, and after it nothing but Pongs: neither a   *)
(* handle on another thread nor the overflow path nor the answer to the    *)
(* peer's Close gets a message in after the Close.                         *)
CloseIsLast ==
  /\ CloseThenPongs(handedOn) /\ CloseThenPongs(buffer) /\ CloseThenPongs(out.frames)
  /\ HasClose(handedOn) => OnlyPongs(buffer) /\ OnlyPongs(out.frames)
  /\ HasClose(buffer) => OnlyPongs(out.frames)

(* The queue that any thread may fill is bounded by the limit.             *)
QueueBounded == queuedBytes <= Limit

(* "Hitting the outbound limit closes a slow connection ... rather than    *)
(* growing memory without bound": all that waits for the peer, in the      *)
(* session, in the transport's buffer and in the write_buffer below it, is *)
(* bounded by the limit, the one Close frame that is always sent, and over *)
(* HTTP/2 the window that the peer keeps open.                             *)
OutboundBounded == out.bytes + bufferBytes + unread <= Limit + CloseSize + Window

(* A session whose handle refuses messages has its Close on the way: the   *)
(* queue of a closing session is drained and its Close frame produced.     *)
ClosingSendsClose == closing ~> (out.closeSent \/ ~alive)
=============================================================================
