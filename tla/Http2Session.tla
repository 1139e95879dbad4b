----------------------------- MODULE Http2Session -----------------------------
(***************************************************************************)
(* One HTTP/2 connection of a shard (Http2Session): request streams whose  *)
(* response is a body or a server-sent event channel, and WebSockets over  *)
(* extended CONNECT.  The loop thread either receives frames, then sends   *)
(* what is pending (feed_data), or runs a posted drain_outbound, then      *)
(* sends.  Threads of the application publish events and WebSocket         *)
(* messages at any time, and each of them posts a drain.                   *)
(*                                                                         *)
(* nghttp2 is external: per stream it keeps the two half-closed states,    *)
(* one data provider, the flag that the provider has deferred, and the     *)
(* peer's window; it calls a provider only when the window is open.  All   *)
(* payloads are units of one window credit.  The handler answers CONNECT   *)
(* with a plain response (the router's 404).                               *)
(***************************************************************************)
EXTENDS Integers, Sequences

CONSTANTS Streams,    \* stream ids, opened in order: 1..n
          MaxUnits,   \* bound: units a stream's application produces
          MaxWindow   \* bound: credits a stream is given in total

VARIABLES stream,   \* stream id -> Http2Stream and nghttp2's state of it
          mode,     \* loop thread: "idle", "recv" or "send"
          posted    \* a drain is in the loop's task queue

vars == <<stream, mode, posted>>

(* present .. taken: Http2Stream.  client .. window: nghttp2.  source: what*)
(* the application has produced and the session not taken (the channel's   *)
(* events, the SharedSession's queue).  made, taken, wire: history, units  *)
(* produced, units in the order in which a WebSocket's session was given   *)
(* them, and units sent.  A unit is the number of its making, negative if a*)
(* callback of the WebSocket made it.                                      *)
NoStream ==
  [present |-> FALSE, connect |-> FALSE, active |-> FALSE, handled |-> 0,
   kind |-> "none", left |-> 0, queue |-> <<>>, submission |-> FALSE,
   client |-> "idle", server |-> "none", item |-> "none", deferred |-> FALSE,
   window |-> 0, credit |-> 0, source |-> <<>>, closed |-> FALSE, made |-> 0, taken |-> <<>>, wire |-> <<>>]

Init == stream = [s \in Streams |-> NoStream] /\ mode = "idle" /\ posted = FALSE

-----------------------------------------------------------------------------
(* handle_stream_request: the handler, then the response, which nghttp2    *)
(* drops if the stream has one.                                            *)
Submitted(r) == IF r.server = "none" THEN [r EXCEPT !.server = "open", !.item = "body"] ELSE r
Handle(r, kind, n) ==
  Submitted([r EXCEPT !.handled = @ + 1, !.kind = IF r.kind = "none" THEN kind ELSE @,
                      !.left = IF r.kind = "none" THEN n ELSE @,
                      !.made = IF r.kind = "none" /\ kind = "sse" THEN n ELSE @,
                      !.source = IF r.kind = "none" /\ kind = "sse" THEN [i \in 1..n |-> i] ELSE @])
Responses == {<<"body", n>> : n \in 0..MaxUnits} \cup {<<"sse", n>> : n \in 0..1}
Handled(r) ==
  IF r.connect THEN {Handle(r, "body", 1)} ELSE {Handle(r, a[1], a[2]) : a \in Responses}

(* queue_websocket_outbound and submit_websocket_data.                     *)
QueueFirst(r, units) ==
  IF units = <<>> \/ ~r.active THEN r
  ELSE LET q == [r EXCEPT !.queue = units \o @, !.taken = @ \o units]
       IN IF q.submission \/ q.item # "none" THEN q
          ELSE [q EXCEPT !.item = "ws", !.submission = TRUE]
Queue(r, units) ==
  IF units = <<>> \/ ~r.active THEN r
  ELSE LET q == [r EXCEPT !.queue = @ \o units, !.taken = @ \o units]
       IN IF q.submission \/ q.item # "none" THEN q
          ELSE [q EXCEPT !.item = "ws", !.submission = TRUE]

(* A message of the WebSocket's own (on_open, or an answer in on_message). *)
Answer(r) == Queue([r EXCEPT !.made = @ + 1], <<-(r.made + 1)>>)

(* handle_websocket_connect: refused, or accepted with a 200.              *)
Connected(r) ==
  Handled(r) \cup
  (LET a == [r EXCEPT !.active = TRUE, !.kind = "ws", !.server = "open"] IN {a, Answer(a)})

-----------------------------------------------------------------------------
(* Frames of the peer: on_begin_headers .. on_frame_recv.                  *)
Receiving == mode \in {"idle", "recv"} /\ mode' = "recv" /\ UNCHANGED posted

OnHeaders(s, connect, end) ==
  /\ Receiving
  /\ stream[s].client = "idle" /\ \A q \in Streams : q < s => stream[q].client # "idle"
  /\ LET r == [NoStream EXCEPT !.present = TRUE, !.connect = connect,
                               !.client = IF end THEN "ended" ELSE "open"]
     IN \E n \in IF connect /\ ~end THEN Connected(r) ELSE IF end THEN Handled(r) ELSE {r} :
          stream' = [stream EXCEPT ![s] = n]

(* A WebSocket's END_STREAM is ignored; any other one completes a request. *)
EndStream(r) ==
  IF r.active THEN {[r EXCEPT !.client = "ended"]} ELSE Handled([r EXCEPT !.client = "ended"])

OnData(s, end) ==
  /\ Receiving
  /\ stream[s].present /\ stream[s].client = "open"
  /\ LET r == stream[s]
         fed == IF r.active /\ r.made < MaxUnits THEN {r, Answer(r)} ELSE {r}
     IN \E f \in fed : \E n \in IF end THEN EndStream(f) ELSE {f} : stream' = [stream EXCEPT ![s] = n]

(* Trailers: on a CONNECT stream they are taken for a CONNECT request with *)
(* END_STREAM.                                                             *)
OnTrailers(s) ==
  /\ Receiving
  /\ stream[s].present /\ stream[s].client = "open"
  /\ \E n \in Handled([stream[s] EXCEPT !.client = "ended"]) : stream' = [stream EXCEPT ![s] = n]

(* on_stream_close: RST_STREAM, or both sides have ended.                  *)
Close(r) == [r EXCEPT !.present = FALSE, !.item = "none", !.closed = @ \/ r.kind = "sse"]

OnReset(s) ==
  /\ Receiving
  /\ stream[s].present
  /\ stream' = [stream EXCEPT ![s] = [Close(@) EXCEPT !.client = "ended", !.server = "ended"]]

OnWindowUpdate(s) ==
  /\ Receiving
  /\ stream[s].present /\ stream[s].credit < MaxWindow
  /\ stream' = [stream EXCEPT ![s].window = @ + 1, ![s].credit = @ + 1]

RecvDone == mode = "recv" /\ mode' = "send" /\ UNCHANGED <<stream, posted>>

-----------------------------------------------------------------------------
(* send_pending_frames: one frame of nghttp2_session_mem_send2.            *)
CanSend(r) == r.present /\ r.item # "none" /\ r.window > 0 /\ ~r.deferred

SendUnit(r, u) == [r EXCEPT !.wire = Append(@, u), !.window = @ - 1]
EndOfResponse(r) ==
  LET e == [r EXCEPT !.server = "ended", !.item = "none"]
  IN IF r.client = "ended" THEN Close(e) ELSE e

(* h2_data_source_read_callback.                                           *)
ReadSse(r) ==
  IF r.source # <<>> THEN [SendUnit(r, Head(r.source)) EXCEPT !.source = Tail(@)]
  ELSE IF r.closed THEN EndOfResponse(r)
  ELSE [r EXCEPT !.deferred = TRUE]
ReadBody(r) ==
  LET w == IF r.left > 0 THEN [SendUnit(r, Len(r.wire) + 1) EXCEPT !.left = @ - 1] ELSE r
  IN IF w.left = 0 THEN EndOfResponse(w) ELSE w

(* websocket_data_source_read_callback.                                    *)
ReadWebSocket(r) ==
  LET w == [SendUnit(r, Head(r.queue)) EXCEPT !.queue = Tail(@)]
  IN IF w.queue = <<>> THEN [w EXCEPT !.item = "none", !.submission = FALSE] ELSE w

SendFrame(s) ==
  /\ mode = "send" /\ CanSend(stream[s])
  /\ stream' = [stream EXCEPT ![s] =
       IF @.item = "ws" THEN ReadWebSocket(@) ELSE IF @.kind = "sse" THEN ReadSse(@) ELSE ReadBody(@)]
  /\ UNCHANGED <<mode, posted>>

SendDone ==
  /\ mode = "send" /\ \A s \in Streams : ~CanSend(stream[s])
  /\ mode' = "idle"
  /\ UNCHANGED <<stream, posted>>

(* drain_outbound: WebSocket messages are queued, deferred channels        *)
(* resumed.                                                                *)
Drained(r) ==
  IF ~r.present THEN r
  ELSE IF r.active THEN [Queue(r, r.source) EXCEPT !.source = <<>>]
  ELSE IF r.kind = "sse" THEN [r EXCEPT !.deferred = FALSE] ELSE r
DrainOutbound ==
  /\ mode = "idle" /\ posted
  /\ mode' = "send" /\ posted' = FALSE
  /\ stream' = [s \in Streams |-> Drained(stream[s])]

-----------------------------------------------------------------------------
(* The application, on any thread: a WebSocket message or an event, and    *)
(* the end of a channel.                                                   *)
Produce(s) ==
  /\ stream[s].present /\ stream[s].kind \in {"ws", "sse"} /\ ~stream[s].closed
  /\ stream[s].made < MaxUnits
  /\ stream' = [stream EXCEPT ![s].source = Append(@, stream[s].made + 1), ![s].made = @ + 1]
  /\ posted' = TRUE
  /\ UNCHANGED mode

CloseChannel(s) ==
  /\ stream[s].present /\ stream[s].kind = "sse" /\ ~stream[s].closed
  /\ stream' = [stream EXCEPT ![s].closed = TRUE]
  /\ posted' = TRUE
  /\ UNCHANGED mode

Next ==
  \/ \E s \in Streams :
       \/ \E connect, end \in BOOLEAN : OnHeaders(s, connect, end)
       \/ \E end \in BOOLEAN : OnData(s, end)
       \/ OnTrailers(s) \/ OnReset(s) \/ OnWindowUpdate(s)
       \/ SendFrame(s) \/ Produce(s) \/ CloseChannel(s)
  \/ RecvDone \/ SendDone \/ DrainOutbound

Spec == Init /\ [][Next]_vars

-----------------------------------------------------------------------------
TypeOK ==
  /\ mode \in {"idle", "recv", "send"} /\ posted \in BOOLEAN
  /\ \A s \in Streams : stream[s].item \in {"none", "body", "ws"} /\ stream[s].window \in 0..MaxWindow

(* What a live stream's application produced is sent once and in order: it *)
(* is on the wire, then in the session's queue, then with the application. *)
(* A WebSocket's stream sends messages in the order in which its session   *)
(* was given them, and they reach the session as they were made, except    *)
(* that a callback's message overtakes those that no drain has fetched yet.*)
Abs(u) == IF u < 0 THEN -u ELSE u
IsCount(seq) == \A i \in DOMAIN seq : seq[i] = i
StreamsInOrder ==
  \A s \in Streams : LET r == stream[s] IN
    r.present => /\ r.kind = "sse" => IsCount(r.wire \o r.source) /\ Len(r.wire \o r.source) = r.made
                 /\ r.kind = "ws" =>
                      LET all == r.taken \o r.source
                      IN  /\ r.wire \o r.queue = r.taken
                          /\ {Abs(all[i]) : i \in DOMAIN all} = 1..r.made /\ Len(all) = r.made
                          /\ \A i, j \in DOMAIN all :
                               i < j /\ Abs(all[i]) > Abs(all[j]) => all[i] < 0 /\ all[j] > 0

(* Nothing is left behind: when the loop rests and no drain is posted, a   *)
(* stream with something to send is waiting for the peer's window.         *)
NothingStalls ==
  mode = "idle" /\ ~posted =>
    \A s \in Streams : LET r == stream[s] IN
      r.present /\ r.window > 0 =>
        /\ r.queue = <<>> /\ r.source = <<>>
        /\ r.kind = "body" \/ (r.kind = "sse" /\ r.closed) => r.server = "ended"

(* A request is handled when it is complete and only once.  (A refused     *)
(* CONNECT is handled at once and again when its stream ends.)             *)
HandledOnce ==
  \A s \in Streams : LET r == stream[s] IN
    r.present /\ ~r.connect => r.handled = IF r.client = "ended" THEN 1 ELSE 0

(* A channel whose stream has gone is closed, so that its publishers stop. *)
ChannelsClosed == \A s \in Streams : stream[s].kind = "sse" /\ ~stream[s].present => stream[s].closed
===============================================================================
