----------------------------- MODULE Http3Client -----------------------------
(***************************************************************************)
(* The client's QUIC connection (quic/quic_client_connection.cpp) and its  *)
(* HTTP/3 session (http3/http3_client_session.cpp), as ngtcp2 and nghttp3, *)
(* both external, call them: requests with bodies that are pulled chunk by *)
(* chunk, responses whose bytes arrive in pieces, cancellation, resets and *)
(* the ways a connection ends.  Everything runs on the loop's thread; who  *)
(* waits for the answers is module RestClient.                             *)
(*                                                                         *)
(* A response is its header section (the first unit of the stream) and     *)
(* Response[s] units of data; FIN comes with the last unit or alone.       *)
(*                                                                         *)
(* nghttp3 and ngtcp2 keep pointers into the buffer of a request's chunk   *)
(* until its bytes are acknowledged, and read it again for each            *)
(* transmission; nghttp3 may ask for the next chunk before that.           *)
(***************************************************************************)
EXTENDS Naturals, Sequences, SequencesExt, Functions, FiniteSets

CONSTANTS Streams,        \* the requests made on the connection
          Chunks,         \* what the provider of a request's body returns: sizes, 0 is an empty chunk
          Response        \* units of data in the answer

VARIABLES conn,           \* ngtcp2: "handshake", "up", "closing" or "draining"
          closed,         \* closed_
          session,        \* http3_session_ exists
          broken,         \* in_error_state_
          timer,          \* expiry_timer_ is armed
          told,           \* calls of disconnect_cb_
          own,            \* history: close() has been called
          quic,           \* the QUIC streams: "none", "open", "reset" (by us) or "done"
          bodies,         \* request_bodies_
          handed,         \* sizes of the vectors given to nghttp3, per stream
          out,            \* those vectors in the libraries, per stream, see NoneOut
          eof,            \* streams whose end of body was flagged
          streams,        \* streams_: units of data so far
          offsets,        \* stream_read_offsets_
          fin,            \* streams whose FIN ngtcp2 has delivered
          answered        \* handler_ calls: sizes of the answers

vars == <<conn, closed, session, broken, timer, told, own, quic, bodies, handed, out, eof, streams, offsets, fin, answered>>
linkVars == <<conn, closed, session, broken, timer, told, own>>
bodyVars == <<bodies, handed, out, eof>>
inVars == <<streams, offsets, fin, answered>>

Put(f, s, v) == [t \in DOMAIN f \cup {s} |-> IF t = s THEN v ELSE f[t]]
Erase(f, s) == Restrict(f, DOMAIN f \ {s})
Empty == [s \in {} |-> 0]
IsClosed == closed \/ conn = "closing"
Writes == ~IsClosed /\ conn # "draining"

(* vectors: each is "held", "sent" or "acked".  early: history, a chunk was*)
(* pulled while one before it was not acknowledged.  altered: history,     *)
(* bytes were transmitted that are no longer those of their chunk.         *)
NoneOut == [vectors |-> <<>>, early |-> FALSE, altered |-> FALSE]

TypeOK ==
  /\ conn \in {"handshake", "up", "closing", "draining"}
  /\ {closed, session, broken, timer, own} \subseteq BOOLEAN /\ told \in Nat
  /\ quic \in [Streams -> {"none", "open", "reset", "done"}]
  /\ {DOMAIN bodies, DOMAIN streams, DOMAIN offsets, eof, fin} \subseteq SUBSET Streams

Init ==
  /\ conn = "handshake" /\ closed = FALSE /\ session = FALSE /\ broken = FALSE
  /\ timer = TRUE /\ told = 0 /\ own = FALSE         \* connect() ends in on_write
  /\ quic = [s \in Streams |-> "none"]
  /\ bodies = Empty /\ handed = [s \in Streams |-> <<>>] /\ eof = {}
  /\ out = [s \in Streams |-> NoneOut]
  /\ streams = Empty /\ offsets = Empty /\ fin = {} /\ answered = [s \in Streams |-> <<>>]

-----------------------------------------------------------------------------
(* The connection.                                                         *)
SignalDisconnect == closed' = TRUE /\ told' = IF closed THEN told ELSE told + 1

(* handle_handshake_completed; the session may fail to be created.         *)
HandshakeCompleted ==
  /\ conn = "handshake" /\ ~closed
  /\ conn' = "up" /\ session' \in BOOLEAN /\ timer' = TRUE
  /\ UNCHANGED <<closed, broken, told, own, quic, bodyVars, inVars>>

(* on_read: a fatal error; the peer's CONNECTION_CLOSE is not fatal and    *)
(* the timer stays as it was.                                              *)
ReadFatal ==
  /\ conn \in {"handshake", "up"} /\ ~closed
  /\ SignalDisconnect
  /\ UNCHANGED <<conn, session, broken, timer, own, quic, bodyVars, inVars>>
PeerCloses ==
  /\ conn \in {"handshake", "up"} /\ ~closed
  /\ conn' = "draining"
  /\ UNCHANGED <<closed, session, broken, timer, told, own, quic, bodyVars, inVars>>

(* on_write ends with update_timer, unless it returns at once or a write   *)
(* reports an error; armed says whether a timer runs when it begins.  What *)
(* it sends is Transmit below.                                             *)
OnWrite(armed) == timer' \in IF Writes THEN {TRUE, armed} ELSE {armed}

(* handle_expiry: ngtcp2 gives up (idle, or the handshake took too long),  *)
(* or on_write follows.                                                    *)
Expiry ==
  /\ timer
  /\ \/ SignalDisconnect /\ timer' = FALSE
     \/ OnWrite(FALSE) /\ UNCHANGED <<closed, told>>
  /\ UNCHANGED <<conn, session, broken, own, quic, bodyVars, inVars>>

(* close()                                                                 *)
Close ==
  /\ ~closed
  /\ closed' = TRUE /\ own' = TRUE
  /\ conn' = IF conn = "draining" THEN conn ELSE "closing"
  /\ UNCHANGED <<session, broken, timer, told, quic, bodyVars, inVars>>

-----------------------------------------------------------------------------
(* Requests.                                                               *)
NoData == [data |-> 0, provided |-> 0, next |-> 1, finished |-> FALSE]
SubmitRequest(s) ==
  /\ session /\ conn = "up" /\ ~closed /\ quic[s] = "none"
  /\ quic' = [quic EXCEPT ![s] = "open"]
  /\ bodies' = IF Chunks[s] = <<>> THEN bodies ELSE Put(bodies, s, NoData)
  /\ UNCHANGED <<linkVars, handed, out, eof, inVars>>

Pull(s, b) ==
  IF b.provided < b.data \/ b.finished THEN b
  ELSE IF b.next <= Len(Chunks[s]) /\ Chunks[s][b.next] > 0
       THEN [data |-> Chunks[s][b.next], provided |-> 0, next |-> b.next + 1, finished |-> FALSE]
       ELSE [data |-> 0, provided |-> 0, next |-> b.next + 1, finished |-> TRUE]
ReadData(s) ==
  /\ Writes /\ session /\ quic[s] = "open" /\ s \notin eof
  /\ IF s \notin DOMAIN bodies THEN eof' = eof \cup {s} /\ UNCHANGED <<bodies, handed, out>>
     ELSE LET b == Pull(s, bodies[s])
              remain == b.data - b.provided
          IN /\ bodies' = [bodies EXCEPT ![s] = [b EXCEPT !.provided = @ + remain]]
             /\ handed' = [handed EXCEPT ![s] = IF remain > 0 THEN Append(@, remain) ELSE @]
             /\ out' = [out EXCEPT
                          ![s].vectors = IF remain > 0 THEN Append(@, "held") ELSE @,
                          ![s].early = @ \/ \E i \in DOMAIN out[s].vectors : out[s].vectors[i] # "acked"]
             /\ eof' = IF b.finished THEN eof \cup {s} ELSE eof
  /\ UNCHANGED <<linkVars, quic, inVars>>

(* ngtcp2 puts a vector into a packet, for the first time in order or again*)
(* after a loss, as its memory is now: rb.data, while that is its chunk.   *)
Intact(s, i) == s \in DOMAIN bodies /\ i = Len(handed[s]) /\ bodies[s].data > 0
Transmit(s, i) ==
  LET v == out[s].vectors
  IN  /\ Writes /\ session /\ quic[s] = "open"
      /\ v[i] # "acked" /\ \A j \in 1..(i - 1) : v[j] # "held"
      /\ out' = [out EXCEPT ![s].vectors[i] = "sent", ![s].altered = @ \/ ~Intact(s, i)]
      /\ UNCHANGED <<linkVars, quic, bodies, handed, eof, inVars>>

(* on_acked_stream_data                                                    *)
Acked(s, i) ==
  /\ conn = "up" /\ ~closed /\ session /\ quic[s] = "open" /\ out[s].vectors[i] = "sent"
  /\ out' = [out EXCEPT ![s].vectors[i] = "acked"]
  /\ UNCHANGED <<linkVars, quic, bodies, handed, eof, inVars>>

-----------------------------------------------------------------------------
(* Responses.  What nghttp3 makes of the units from..to of a stream.       *)
Total(s) == Response[s] + 1
DataIn(from, to) == IF to <= from THEN 0 ELSE to - (IF from < 1 THEN 1 ELSE from)

(* handle_recv_stream_data and on_stream_data: units [off, off + n) and    *)
(* perhaps FIN.  What was seen before is skipped.                          *)
Skip(off, cur) == IF off < cur THEN cur ELSE off
RecvStreamData(s, off, n, last) ==
  LET cur == IF s \in DOMAIN offsets THEN offsets[s] ELSE 0
      end == off + n
      from == Skip(off, cur)
      new == DataIn(from, end)
      known == IF s \in DOMAIN streams THEN streams[s] ELSE 0
  IN /\ conn = "up" /\ ~closed /\ session /\ ~broken /\ quic[s] = "open" /\ s \notin fin
     /\ (n > 0 \/ last) /\ off <= cur /\ end <= Total(s) /\ (last => end = Total(s))
     /\ offsets' = Put(offsets, s, IF end <= cur THEN cur ELSE end)
     /\ streams' = IF end <= cur THEN streams ELSE Put(streams, s, known + new)
     /\ fin' = IF last THEN fin \cup {s} ELSE fin
     /\ answered' = IF last THEN [answered EXCEPT ![s] = Append(@, streams'[s])] ELSE answered
     /\ UNCHANGED <<linkVars, quic, bodyVars>>

(* nghttp3 refuses the bytes: the callback fails, and with it on_read.     *)
RecvMalformed(s) ==
  /\ conn = "up" /\ ~closed /\ session /\ quic[s] = "open" /\ s \notin fin
  /\ broken' = TRUE /\ SignalDisconnect
  /\ offsets' = IF s \in DOMAIN offsets THEN offsets ELSE Put(offsets, s, 0)
  /\ UNCHANGED <<conn, session, timer, own, quic, bodyVars, streams, fin, answered>>

(* handle_stream_close: both directions have ended, or the peer reset it.  *)
Forget(s) ==
  /\ streams' = Erase(streams, s) /\ offsets' = Erase(offsets, s) /\ bodies' = Erase(bodies, s)
StreamClose(s) ==
  /\ conn = "up" /\ ~closed /\ session /\ quic[s] \in {"open", "reset"}
  /\ quic' = [quic EXCEPT ![s] = "done"]
  /\ Forget(s)
  /\ UNCHANGED <<linkVars, handed, out, eof, fin, answered>>

(* cancel_stream                                                           *)
CancelStream(s) ==
  /\ Writes /\ quic[s] = "open"
  /\ quic' = [quic EXCEPT ![s] = "reset"]
  /\ Forget(s) /\ OnWrite(timer)
  /\ UNCHANGED <<conn, closed, session, broken, told, own, handed, out, eof, fin, answered>>

Next ==
  \/ HandshakeCompleted \/ ReadFatal \/ PeerCloses \/ Expiry \/ Close
  \/ \E s \in Streams : SubmitRequest(s) \/ ReadData(s) \/ RecvMalformed(s) \/ StreamClose(s) \/ CancelStream(s)
  \/ \E s \in Streams : \E i \in DOMAIN out[s].vectors : Transmit(s, i) \/ Acked(s, i)
  \/ \E s \in Streams : \E off, n \in 0..Total(s), last \in BOOLEAN : RecvStreamData(s, off, n, last)
Spec == Init /\ [][Next]_vars

-----------------------------------------------------------------------------
(* What a request's body is: the chunks before the first empty one.        *)
Whole(s) == SelectInSeq(Chunks[s], LAMBDA c : c = 0)
BodyOf(s) == IF Whole(s) = 0 THEN Chunks[s] ELSE SubSeq(Chunks[s], 1, Whole(s) - 1)

(* Chunks are handed to nghttp3 once each and in order, and the end only   *)
(* after the last.  Every transmission carries the bytes of its chunk if   *)
(* nghttp3 asks for the next one when all before are acknowledged; if it   *)
(* asks earlier, on_read_data replaces the buffer that is still in use.    *)
BodiesInOrder ==
  \A s \in Streams :
    /\ IsPrefix(handed[s], BodyOf(s)) /\ (s \in eof => handed[s] = BodyOf(s))
    /\ out[s].altered => out[s].early

(* An answer is given once, whole, however its bytes were cut or repeated, *)
(* and never for a cancelled stream after the cancellation; nothing is     *)
(* kept for a stream that is over; the owner is told exactly once of a     *)
(* connection that ends otherwise than by close().                         *)
ClientStreamsSound ==
  /\ TypeOK /\ BodiesInOrder
  /\ \A s \in Streams :
       /\ answered[s] \in {<<>>, <<Response[s]>>}
       /\ answered[s] # <<>> <=> s \in fin
       /\ s \in DOMAIN streams \cup DOMAIN offsets \cup DOMAIN bodies => quic[s] = "open"
  /\ told = IF closed /\ ~own THEN 1 ELSE 0
  /\ broken => closed
=============================================================================
