--------------------------- MODULE WebSocketReceive ---------------------------
(***************************************************************************)
(* The receiving side of websocket/websocket.cpp: the opening handshake,   *)
(* then Connection::feed and process_frame on bytes that arrive cut in any *)
(* way.  What is sent back is module WebSocketSession.                      *)
(*                                                                         *)
(* A stream is a sequence of frames; `fed' counts the bytes that have      *)
(* arrived, `offset' those that feed has consumed.  Of a payload the model *)
(* keeps its length and whether it is valid (UTF-8, or a close payload);   *)
(* `top' is the first bit of a 64-bit length.                              *)
(***************************************************************************)
EXTENDS Naturals, Sequences, SequencesExt, FiniteSets

CONSTANTS Streams,        \* what a client may send: sequences of frames
          Handshakes,     \* opening requests
          Supported,      \* handler.subprotocols, in order of preference
          Chunks,         \* sizes in which bytes arrive; what is left may always arrive at once
          MaxMessage,     \* limits_.max_message_bytes
          MaxControl      \* 125

VARIABLES handshake,      \* the opening request
          stream,         \* what the client sends once upgraded
          answer,         \* "none", "refused", or the subprotocol chosen ("" when none)
          fed, offset,
          next,           \* index of the frame at `offset'
          fragment,       \* fragmented_, with opcode, size and validity, or NoFragment
          closed,         \* closed_
          delivered,      \* on_message calls
          notified        \* on_close calls, with their code

vars == <<handshake, stream, answer, fed, offset, next, fragment, closed, delivered, notified>>

NoFragment == [op |-> "none", len |-> 0, valid |-> TRUE]
Control == {"ping", "pong", "close"}
Size(f) == f.hdr + 4 + f.len
Start(s, i) == FoldLeft(LAMBDA n, f : n + Size(f), 0, SubSeq(s, 1, i - 1))
Total == Start(stream, Len(stream) + 1)

TypeOK ==
  /\ offset \in 0..fed /\ fed \in 0..Total /\ next \in 1..(Len(stream) + 1)
  /\ fragment.len \in 0..MaxMessage /\ closed \in BOOLEAN

Init ==
  /\ \E h \in Handshakes : handshake = h /\ stream \in (IF h.valid /\ h.origin THEN Streams ELSE {<<>>})
  /\ answer = "none" /\ fed = 0 /\ offset = 0 /\ next = 1 /\ fragment = NoFragment
  /\ closed = FALSE /\ delivered = <<>> /\ notified = <<>>

(* validate_upgrade_request, origin_authorizer and select_subprotocol: the *)
(* server's first preference that the client offers.                       *)
SelectSubprotocol(offered) ==
  LET at == {i \in DOMAIN Supported : Supported[i] \in offered}
  IN IF at = {} THEN "" ELSE Supported[CHOOSE i \in at : \A j \in at : i <= j]
Upgrade ==
  /\ answer = "none"
  /\ answer' = IF handshake.valid /\ handshake.origin THEN SelectSubprotocol(handshake.offered) ELSE "refused"
  /\ UNCHANGED <<handshake, stream, fed, offset, next, fragment, closed, delivered, notified>>

-----------------------------------------------------------------------------
(* The state that feed's loop carries, as a record, and its two endings.   *)
Here == [next |-> next, fragment |-> fragment, closed |-> closed,
         delivered |-> delivered, notified |-> notified]
Notify(s, code) == IF s.notified = <<>> THEN <<code>> ELSE s.notified
ProtocolClose(s, code) ==
  [s EXCEPT !.closed = TRUE, !.notified = Notify(s, code)]
Deliver(s, op, len) == [s EXCEPT !.delivered = Append(@, [op |-> op, len |-> len]), !.fragment = NoFragment]

(* process_frame                                                           *)
ValidUtf8(payload) == payload.valid
OnClose(s, f) ==
  IF f.len = 1 \/ ~ValidUtf8(f) THEN ProtocolClose(s, 1002) ELSE ProtocolClose(s, 1000)
OnContinuationUnbounded(s, f) ==
  LET g == [s.fragment EXCEPT !.len = @ + f.len, !.valid = @ /\ f.valid]
  IN IF s.fragment = NoFragment THEN ProtocolClose(s, 1002)
     ELSE IF ~f.fin THEN [s EXCEPT !.fragment = g]
     ELSE IF g.op = "text" /\ ~ValidUtf8(g) THEN ProtocolClose(s, 1007)
     ELSE Deliver(s, g.op, g.len)
OnContinuation(s, f) ==
  LET g == [s.fragment EXCEPT !.len = @ + f.len, !.valid = @ /\ f.valid]
  IN IF s.fragment = NoFragment THEN ProtocolClose(s, 1002)
     ELSE IF g.len > MaxMessage THEN ProtocolClose(s, 1009)
     ELSE IF ~f.fin THEN [s EXCEPT !.fragment = g]
     ELSE IF g.op = "text" /\ ~ValidUtf8(g) THEN ProtocolClose(s, 1007)
     ELSE Deliver(s, g.op, g.len)
OnData(s, f) ==
  IF s.fragment # NoFragment THEN ProtocolClose(s, 1002)
  ELSE IF ~f.fin THEN [s EXCEPT !.fragment = [op |-> f.op, len |-> f.len, valid |-> f.valid]]
  ELSE IF f.op = "text" /\ ~ValidUtf8(f) THEN ProtocolClose(s, 1007)
  ELSE Deliver(s, f.op, f.len)
ProcessFrame(s, f) ==
  CASE f.op \in {"ping", "pong"} -> s
    [] f.op = "close" -> OnClose(s, f)
    [] f.op = "continuation" -> OnContinuation(s, f)
    [] OTHER -> OnData(s, f)

(* One pass of the loop on frame f with `have' bytes of it in input_: the  *)
(* checks need two bytes, then the extended length, then all of it.        *)
Pass(s, f, have) ==
  IF have < 2 THEN "wait"
  ELSE IF f.rsv \/ f.op = "unknown" \/ ~f.masked THEN "1002"
  ELSE IF have < f.hdr THEN "wait"
  ELSE IF f.hdr = 10 /\ f.top THEN "1002"
  ELSE IF f.len > MaxMessage THEN "1009"
  ELSE IF f.op \in Control /\ (~f.fin \/ f.len > MaxControl) THEN "1002"
  ELSE IF have < Size(f) THEN "wait" ELSE "frame"

RECURSIVE Loop(_, _)
Loop(s, arrived) ==
  LET have == arrived - Start(stream, s.next)
      f == stream[s.next]
      p == Pass(s, f, have)
      t == [ProcessFrame(s, f) EXCEPT !.next = @ + 1]
  IN IF s.next > Len(stream) THEN s
     ELSE IF p = "wait" THEN s
     ELSE IF p = "1002" THEN ProtocolClose(s, 1002)
     ELSE IF p = "1009" THEN ProtocolClose(s, 1009)
     ELSE IF t.closed THEN t ELSE Loop(t, arrived)

(* feed(): nothing is looked at once the connection is closed.             *)
Feed(n) ==
  LET s == IF closed THEN Here ELSE Loop(Here, fed + n)
  IN /\ answer \notin {"none", "refused"} /\ fed + n <= Total
     /\ fed' = fed + n
     /\ next' = s.next /\ fragment' = s.fragment /\ closed' = s.closed
     /\ delivered' = s.delivered /\ notified' = s.notified
     /\ offset' = Start(stream, s.next)
     /\ UNCHANGED <<handshake, stream, answer>>

Next == Upgrade \/ \E n \in Chunks \cup {Total - fed} : n > 0 /\ Feed(n)
Spec == Init /\ [][Next]_vars

-----------------------------------------------------------------------------
(* The reference: what RFC 6455 makes of a whole stream, without buffers.  *)
Data(i) == stream[i].op \notin Control
LastData(i) == {j \in 1..(i - 1) : Data(j) /\ \A k \in (j + 1)..(i - 1) : ~Data(k)}
Open(i) == \E j \in LastData(i) : ~stream[j].fin
First(i) == CHOOSE j \in 1..i : /\ Data(j) /\ stream[j].op # "continuation"
                                /\ \A k \in (j + 1)..i : Data(k) => stream[k].op = "continuation"
Pieces(i) == {j \in First(i)..i : Data(j)}
Length(i) == FoldLeft(LAMBDA n, j : n + (IF Data(j) THEN stream[j].len ELSE 0), 0, [k \in 1..(i - First(i) + 1) |-> First(i) + k - 1])
Fault(i) ==
  LET f == stream[i]
  IN IF f.rsv \/ f.op = "unknown" \/ ~f.masked \/ (f.hdr = 10 /\ f.top) THEN 1002
     ELSE IF f.len > MaxMessage THEN 1009
     ELSE IF f.op \in Control THEN
       (IF ~f.fin \/ f.len > MaxControl \/ (f.op = "close" /\ (f.len = 1 \/ ~f.valid)) THEN 1002 ELSE 0)
     ELSE IF (f.op = "continuation") # Open(i) THEN 1002
     ELSE IF Length(i) > MaxMessage THEN 1009
     ELSE IF f.fin /\ stream[First(i)].op = "text" /\ \E j \in Pieces(i) : ~stream[j].valid THEN 1007
     ELSE 0
Ends(i) == Fault(i) # 0 \/ stream[i].op = "close"
End == IF \E i \in DOMAIN stream : Ends(i) THEN CHOOSE i \in DOMAIN stream : Ends(i) /\ \A j \in 1..(i - 1) : ~Ends(j)
       ELSE Len(stream) + 1
Messages ==
  LET whole == SelectSeq([k \in 1..(End - 1) |-> k], LAMBDA i : Data(i) /\ stream[i].fin)
  IN [k \in DOMAIN whole |-> [op |-> stream[First(whole[k])].op, len |-> Length(whole[k])]]
Code == IF End > Len(stream) THEN <<>> ELSE <<IF Fault(End) # 0 THEN Fault(End) ELSE 1000>>

(* However the bytes are cut, the application gets the messages the stream *)
(* stands for, in order and none twice, no message longer than the limit,  *)
(* one on_close with the right code and nothing after it.                  *)
ReceivedAsSent ==
  /\ TypeOK
  /\ IsPrefix(delivered, Messages) /\ IsPrefix(notified, Code)
  /\ \A i \in DOMAIN delivered : delivered[i].len <= MaxMessage
  /\ fed = Total /\ answer \notin {"none", "refused"} => delivered = Messages /\ notified = Code
  /\ closed => notified = Code /\ delivered = Messages

(* select_subprotocol answers only what the client offered, and nothing    *)
(* offered that the server prefers to the answer.                          *)
SubprotocolAgreed ==
  /\ answer \notin {"none", "refused", ""} => answer \in handshake.offered
  /\ answer \notin {"none", "refused"} => \A i \in DOMAIN Supported :
       Supported[i] \in handshake.offered => \E j \in 1..i : answer = Supported[j]
=============================================================================
