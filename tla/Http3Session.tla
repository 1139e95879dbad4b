----------------------------- MODULE Http3Session -----------------------------
(***************************************************************************)
(* Http3Session of a QUIC connection and the stream loop of                *)
(* QuicConnection::on_write that empties it.                               *)
(*                                                                         *)
(* Units stand for bytes: a request is its header unit followed by body    *)
(* units, a response is its header unit followed by body units or by the   *)
(* units of SSE events.  ngtcp2 and nghttp3 are external: they deliver a   *)
(* chunk, choose the stream to write, accept units as the peer's window    *)
(* allows, and report acknowledgements, window updates and closed streams. *)
(* The queue of an SSE channel is the one of SseChannel; here a publisher  *)
(* appends to it and posts the stream's resume.                            *)
(***************************************************************************)
EXTENDS Integers, Sequences, FiniteSets, SequencesExt

CONSTANTS Streams,    \* request streams
          MaxBody,    \* body units of a request and of a response
          EventSize,  \* units of an SSE event
          MaxEvents,  \* events published on a stream
          MaxWindow   \* units the peer lets the server send on a stream

VARIABLES sent,     \* stream -> units of the request the peer has sent, and whether it ended it
          st,       \* stream -> record, see NewStream
          wire,     \* stream -> history: units the peer has been sent
          events,   \* stream -> history: events published
          window,   \* stream -> units the peer still lets the server send
          mode,     \* the loop thread: "idle", or "write" within on_write
          posted    \* streams whose resume is posted

vars == <<sent, st, wire, events, window, mode, posted>>

(* off: stream_read_offsets_.  handled: calls of the handler.  pending:    *)
(* units nghttp3 holds and ngtcp2 has not accepted.  unacked: units        *)
(* accepted and not acknowledged.  inflight, remaining: sse_inflight and   *)
(* sse_inflight_ack_remaining.  sched: nghttp3 has the stream scheduled.   *)
NewStream ==
  [here |-> FALSE, off |-> 0, body |-> <<>>, fin |-> FALSE, handled |-> 0, kind |-> "none", pending |-> <<>>,
   unacked |-> <<>>, queue |-> <<>>, closed |-> FALSE, inflight |-> <<>>, remaining |-> 0,
   eof |-> FALSE, sched |-> FALSE, gone |-> FALSE]

Header == 0
RequestUnit(i) == IF i = 1 THEN Header ELSE i - 1
EventUnits(s, e) == [i \in 1..EventSize |-> e * 10 + i]
ResponseBody == [i \in 1..MaxBody |-> i]

Init ==
  /\ sent = [s \in Streams |-> [units |-> 0, fin |-> FALSE]]
  /\ st = [s \in Streams |-> NewStream]
  /\ wire = [s \in Streams |-> <<>>]
  /\ events = [s \in Streams |-> 0]
  /\ window = [s \in Streams |-> 1]
  /\ mode = "idle" /\ posted = {}

(* on_end_stream: the handler runs and its response is submitted: headers  *)
(* alone, with a body, or with an event stream.                            *)
Respond(r) ==
  {[r EXCEPT !.handled = @ + 1, !.kind = k, !.pending = <<Header>>, !.eof = (k = "empty"), !.sched = TRUE] :
     k \in {"empty", "body", "sse"}}

(* on_stream_data: units already read are skipped.                         *)
TakeUnits(r, o, n) ==
  LET new == {i \in 1..n : o + i > r.off}
  IN [r EXCEPT !.here = TRUE, !.off = IF o + n > @ THEN o + n ELSE @,
               !.body = @ \o [i \in 1..Cardinality(new) |-> RequestUnit(r.off + i)]]

(* A packet brings units o+1..o+n of a stream, some of which may have come *)
(* before, and perhaps its end.  on_write follows every packet.            *)
OnStreamData(s, o, n, fin) ==
  /\ mode = "idle" /\ ~st[s].gone /\ ~st[s].fin
  /\ o <= st[s].off /\ o + n <= MaxBody + 1 /\ (n > 0 \/ fin)
  /\ ~sent[s].fin \/ o + n <= sent[s].units
  /\ fin => o + n >= 1 /\ o + n >= sent[s].units
  /\ sent' = [sent EXCEPT ![s] = [units |-> IF o + n > @.units THEN o + n ELSE @.units, fin |-> @.fin \/ fin]]
  /\ LET read == TakeUnits(st[s], o, n)
     IN IF fin THEN \E r \in Respond([read EXCEPT !.fin = TRUE]) : st' = [st EXCEPT ![s] = r]
        ELSE st' = [st EXCEPT ![s] = read]
  /\ mode' = "write"
  /\ UNCHANGED <<wire, events, window, posted>>

(* on_acked_stream_data: the in-flight event is dropped when all of it has *)
(* been acknowledged, and the stream is resumed.  Header units are not     *)
(* counted by nghttp3's callback.                                          *)
AckUnits(r, n) ==
  LET acked == SubSeq(r.unacked, 1, n)
      data == Cardinality({i \in 1..n : acked[i] # Header})
      rest == [r EXCEPT !.unacked = SubSeq(@, n + 1, Len(@))]
  IN IF r.kind # "sse" \/ r.remaining = 0 THEN rest
     ELSE IF data >= r.remaining THEN [rest EXCEPT !.remaining = 0, !.inflight = <<>>, !.sched = TRUE]
     ELSE [rest EXCEPT !.remaining = @ - data]
OnAcked(s, n) ==
  /\ mode = "idle" /\ ~st[s].gone /\ n \in 1..Len(st[s].unacked)
  /\ st' = [st EXCEPT ![s] = AckUnits(@, n)]
  /\ mode' = "write"
  /\ UNCHANGED <<sent, wire, events, window, posted>>

(* on_extend_max_stream_data.                                              *)
OnExtendMaxStreamData(s) ==
  /\ mode = "idle" /\ ~st[s].gone /\ window[s] < MaxWindow
  /\ window' = [window EXCEPT ![s] = @ + 1]
  /\ mode' = "write"
  /\ UNCHANGED <<sent, st, wire, events, posted>>

(* on_stream_close: the channel loses its wakeup and is closed.            *)
OnStreamClose(s) ==
  /\ mode = "idle" /\ st[s].here /\ ~st[s].gone
  /\ st' = [st EXCEPT ![s] = [@ EXCEPT !.gone = TRUE, !.closed = TRUE, !.sched = FALSE, !.pending = <<>>,
                                      !.unacked = <<>>, !.inflight = <<>>, !.remaining = 0]]
  /\ mode' = "write"
  /\ UNCHANGED <<sent, wire, events, window, posted>>

(* A publisher's event or close, and the posted resume_sse_stream.         *)
Publish(s) ==
  /\ st[s].kind = "sse" /\ ~st[s].closed /\ events[s] < MaxEvents
  /\ events' = [events EXCEPT ![s] = @ + 1]
  /\ st' = [st EXCEPT ![s].queue = Append(@, events[s] + 1)]
  /\ posted' = posted \cup {s}
  /\ UNCHANGED <<sent, wire, window, mode>>
CloseChannel(s) ==
  /\ st[s].kind = "sse" /\ ~st[s].closed
  /\ st' = [st EXCEPT ![s].closed = TRUE]
  /\ posted' = posted \cup {s}
  /\ UNCHANGED <<sent, wire, events, window, mode>>
ResumeSseStream(s) ==
  /\ mode = "idle" /\ s \in posted
  /\ posted' = posted \ {s}
  /\ st' = IF st[s].gone THEN st ELSE [st EXCEPT ![s].sched = TRUE]
  /\ mode' = "write"
  /\ UNCHANGED <<sent, wire, events, window>>

-----------------------------------------------------------------------------
(* on_read_data, called by nghttp3 for a scheduled stream whose units have *)
(* all been accepted: WOULDBLOCK takes it off the schedule.                *)
WouldBlock(r) == r.remaining > 0 \/ (r.queue = <<>> /\ ~r.closed)
ReadData(s) ==
  LET r == st[s]
  IN CASE r.kind = "body" -> [r EXCEPT !.pending = ResponseBody, !.eof = TRUE]
       [] r.kind = "sse" /\ WouldBlock(r) -> [r EXCEPT !.sched = FALSE]
       [] r.kind = "sse" /\ r.queue = <<>> -> [r EXCEPT !.eof = TRUE, !.sched = FALSE]
       [] OTHER -> LET e == EventUnits(s, Head(r.queue))
                   IN [r EXCEPT !.queue = Tail(@), !.inflight = e, !.remaining = Len(e), !.pending = e]
OnReadData(s) ==
  /\ mode = "write" /\ st[s].sched /\ st[s].pending = <<>> /\ ~st[s].eof
  /\ st' = [st EXCEPT ![s] = ReadData(s)]
  /\ UNCHANGED <<sent, wire, events, window, mode, posted>>

(* writev_stream accepts n units within the peer's window, and             *)
(* add_write_offset tells nghttp3.                                         *)
WriteUnits(s, n) ==
  /\ mode = "write" /\ st[s].sched
  /\ n \in 1..Len(st[s].pending) /\ n <= window[s]
  /\ LET now == SubSeq(st[s].pending, 1, n)
     IN /\ wire' = [wire EXCEPT ![s] = @ \o now]
        /\ st' = [st EXCEPT ![s] = [@ EXCEPT !.pending = SubSeq(@, n + 1, Len(@)), !.unacked = @ \o now,
                                            !.sched = ~(st[s].eof /\ n = Len(st[s].pending))]]
  /\ window' = [window EXCEPT ![s] = @ - n]
  /\ UNCHANGED <<sent, events, mode, posted>>

(* The window is used up: NGTCP2_ERR_STREAM_DATA_BLOCKED ends on_write.    *)
(* (After NGTCP2_ERR_STREAM_NOT_FOUND or _SHUT_WR the loop just chooses    *)
(* again, which changes nothing here.)                                     *)
StreamDataBlocked(s) ==
  /\ mode = "write" /\ st[s].sched /\ st[s].pending # <<>> /\ window[s] = 0
  /\ mode' = "idle"
  /\ UNCHANGED <<sent, st, wire, events, window, posted>>

(* Nothing is scheduled, or the connection is congestion limited.          *)
WriteDone ==
  /\ mode = "write"
  /\ mode' = "idle"
  /\ UNCHANGED <<sent, st, wire, events, window, posted>>

Next ==
  \/ \E s \in Streams :
       \/ \E o \in 0..MaxBody, n \in 0..MaxBody + 1, fin \in BOOLEAN : OnStreamData(s, o, n, fin)
       \/ \E n \in 1..MaxBody + EventSize + 1 : OnAcked(s, n) \/ WriteUnits(s, n)
       \/ OnExtendMaxStreamData(s) \/ OnStreamClose(s) \/ Publish(s) \/ CloseChannel(s)
       \/ ResumeSseStream(s) \/ OnReadData(s) \/ StreamDataBlocked(s)
  \/ WriteDone

Spec == Init /\ [][Next]_vars

-----------------------------------------------------------------------------
TypeOK ==
  /\ mode \in {"idle", "write"} /\ posted \subseteq Streams
  /\ \A s \in Streams : window[s] \in 0..MaxWindow /\ st[s].remaining \in 0..EventSize

(* The request the handler sees is what the peer sent, in order and once,  *)
(* whatever was repeated, and the handler runs once, when it is complete.  *)
RequestWhole ==
  \A s \in Streams :
    /\ st[s].body = [i \in 1..st[s].off |-> RequestUnit(i)]
    /\ st[s].handled = (IF st[s].fin THEN 1 ELSE 0)
    /\ st[s].fin => st[s].off = sent[s].units

(* What the peer has been sent is the response's headers and then its body *)
(* or its events, in order and without a gap.                              *)
Produced(s) ==
  <<Header>> \o (IF st[s].kind = "sse" THEN FlattenSeq([e \in 1..events[s] |-> EventUnits(s, e)]) ELSE ResponseBody)
ResponseInOrder == \A s \in Streams : IsPrefix(wire[s], Produced(s))

(* nghttp3 keeps pointers into sse_inflight: the units of an event that    *)
(* are not acknowledged are still held there.                              *)
InflightHeld ==
  \A s \in Streams :
    st[s].kind = "sse" =>
      \A u \in Range(st[s].unacked) \cup Range(st[s].pending) : u = Header \/ u \in Range(st[s].inflight)

(* A queued event, or the end of the stream, is not forgotten: its stream  *)
(* is scheduled, or its resume is posted, or an acknowledgement will       *)
(* resume it.                                                              *)
EventsServed ==
  \A s \in Streams :
    LET r == st[s]
    IN r.kind = "sse" /\ ~r.gone /\ ~r.eof /\ (r.queue # <<>> \/ r.closed) =>
         r.sched \/ s \in posted \/ r.remaining > 0

(* sse_inflight_ack_remaining is the number of the event's units that are  *)
(* not acknowledged, so the acknowledgement EventsServed waits for comes.  *)
RemainingExact ==
  \A s \in Streams :
    st[s].kind = "sse" =>
      st[s].remaining = Len(st[s].pending) + Len(st[s].unacked)
        - Cardinality({i \in DOMAIN st[s].pending : st[s].pending[i] = Header})
        - Cardinality({i \in DOMAIN st[s].unacked : st[s].unacked[i] = Header})
================================================================================
