--------------------------- MODULE Http1Connection ---------------------------
(***************************************************************************)
(* A server connection that speaks HTTP/1.1: the incremental parser of     *)
(* http1/http1_session.cpp inside the connection and write buffer of       *)
(* net/tcp_connection_manager.cpp.  The peer's bytes arrive in pieces cut  *)
(* anywhere; several requests may be in one piece.                         *)
(*                                                                         *)
(* A token stands for what the parser consumes at once: a line, a chunk's  *)
(* line break, or one unit of body.  A piece that ends inside a line or a  *)
(* unit leaves it unconsumed, exactly as if it arrived with the next one.  *)
(***************************************************************************)
EXTENDS Integers, FiniteSets, Sequences, SequencesExt

CONSTANT Scripts   \* the sequences of request kinds a peer may send

VARIABLES sent,    \* the peer's requests, fixed
          fed,     \* tokens of the peer that have arrived
          parser,  \* Http1Session
          wbuf,    \* ConnectionBuffer::write_buffer: answers not yet sent
          written,    \* history: answers the peer has been sent
          watch,   \* the descriptor is watched for writability
          ended,   \* "open", "clean" (closed by close_connection after the
                   \* last answer), "lost" (error or end of the peer)
          torn     \* history: a piece ended between a last chunk and its end

vars == <<sent, fed, parser, wbuf, written, watch, ended, torn>>

-----------------------------------------------------------------------------
(* What the peer sends.                                                    *)
Tok(t, r, n) == [t |-> t, req |-> r, n |-> n]

Body(kind) == CASE kind = "length" -> 2 [] kind = "chunked" -> 2 [] OTHER -> 0

Tokens(kind, r) ==
  LET T(t, n) == <<Tok(t, r, n)>>
      units(n) == [i \in 1..n |-> Tok("unit", r, 0)]
  IN CASE kind = "plain"   -> T("line", 0) \o T("empty", 0)
       [] kind = "length"  -> T("line", 0) \o T("length", 2) \o T("empty", 0) \o units(2)
       [] kind = "chunked" -> T("line", 0) \o T("chunked", 0) \o T("empty", 0)
                              \o T("size", 1) \o units(1) \o T("crlf", 0)
                              \o T("size", 1) \o units(1) \o T("crlf", 0)
                              \o T("size", 0) \o T("field", 0) \o T("empty", 0)
       [] kind = "close"   -> T("line", 0) \o T("close", 0) \o T("empty", 0)
       [] kind \in {"accepted", "refused"} -> T("line", 0) \o T("upgrade", 0) \o T("empty", 0)
       [] kind = "sse"     -> T("line", 0) \o T("empty", 0)
       [] kind = "bad"     -> T("junk", 0)
       [] kind = "frames"  -> units(2)

RECURSIVE Stream(_, _)
Stream(kinds, r) == IF r > Len(kinds) THEN <<>> ELSE Tokens(kinds[r], r) \o Stream(kinds, r + 1)
stream == Stream(sent, 1)

-----------------------------------------------------------------------------
(* Http1Session.  `out' are the answers of the current feed_data, `body'   *)
(* the units of the request being parsed, `toWs' the units given to the    *)
(* WebSocket session after an upgrade.                                     *)
NewParser == [state |-> "RequestLine", buf |-> <<>>, length |-> 0, chunked |-> FALSE,
              upgrade |-> FALSE, body |-> 0, keep |-> TRUE, upgraded |-> FALSE, sse |-> FALSE,
              out |-> <<>>, toWs |-> 0, more |-> TRUE]

Init ==
  /\ sent \in Scripts /\ fed = 0
  /\ parser = NewParser
  /\ wbuf = <<>> /\ written = <<>> /\ watch = FALSE /\ ended = "open" /\ torn = FALSE

(* Mutant: the length of the last body stays.                              *)
ResetKeepingLength(p) ==
  [p EXCEPT !.state = "RequestLine", !.chunked = FALSE, !.upgrade = FALSE, !.body = 0]
(* reset: the parser is ready for the next request of the connection.      *)
Reset(p) ==
  [p EXCEPT !.state = "RequestLine", !.length = 0, !.chunked = FALSE, !.upgrade = FALSE, !.body = 0]

Drop(p, n) == [p EXCEPT !.buf = SubSeq(@, n + 1, Len(@))]
NeedMore(p) == [p EXCEPT !.more = FALSE]
Fail(p) == [p EXCEPT !.state = "Error", !.more = FALSE]
Answered(p, r, what) == [p EXCEPT !.out = Append(@, [req |-> r, what |-> what])]

(* The Complete state: the handler runs; an event stream takes over the    *)
(* connection and what else the buffer holds is discarded.                 *)
Complete(p, r) ==
  LET done == Reset(Answered(p, r, p.body))
  IN IF sent[r] = "sse" THEN [done EXCEPT !.sse = TRUE, !.buf = <<>>, !.more = FALSE] ELSE done

(* The empty line after the headers.                                       *)
HeadersEnd(p, r) ==
  IF p.upgrade /\ sent[r] = "refused" THEN Reset([Answered(p, r, 403) EXCEPT !.keep = FALSE])
  ELSE IF p.upgrade THEN [Answered(p, r, 101) EXCEPT !.upgraded = TRUE, !.keep = TRUE, !.more = FALSE]
  ELSE IF p.length > 0 \/ p.chunked THEN [p EXCEPT !.state = "Body"]
  ELSE Complete(p, r)

OnHeader(p, tok) ==
  CASE tok.t = "empty"   -> HeadersEnd(p, tok.req)
    [] tok.t = "length"  -> [p EXCEPT !.length = tok.n]
    [] tok.t = "chunked" -> [p EXCEPT !.chunked = TRUE]
    [] tok.t = "close"   -> [p EXCEPT !.keep = FALSE]
    [] tok.t = "upgrade" -> [p EXCEPT !.upgrade = TRUE]
    [] OTHER             -> Fail(p)

(* Trailer fields after the last chunk, up to and including the empty line.*)
RECURSIVE Trailers(_)
Trailers(p) ==
  IF p.buf = <<>> THEN NeedMore(p)
  ELSE IF Head(p.buf).t = "empty" THEN Complete(Drop(p, 1), Head(p.buf).req)
  ELSE Trailers(Drop(p, 1))

(* A line that is no chunk size is an error.  A chunk is taken only when   *)
(* all of it has arrived.                                                  *)
OnChunk(p, tok) ==
  IF tok.t # "size" THEN Fail(p)
  ELSE IF tok.n = 0 THEN Trailers(Drop(p, 1))
  ELSE IF Len(p.buf) < tok.n + 2 THEN NeedMore(p)
  ELSE IF p.buf[tok.n + 2].t # "crlf" THEN Fail(p)
  ELSE [Drop(p, tok.n + 2) EXCEPT !.body = @ + tok.n]

OnLengthBody(p, tok) ==
  IF Len(p.buf) < p.length THEN NeedMore(p)
  ELSE Complete([Drop(p, p.length) EXCEPT !.body = p.length], tok.req)

Step(p) ==
  LET tok == Head(p.buf)
  IN CASE p.state = "RequestLine" /\ tok.t = "empty" -> Drop(p, 1)
       [] p.state = "RequestLine" /\ tok.t = "line"  -> [Drop(p, 1) EXCEPT !.state = "Headers"]
       [] p.state = "RequestLine" /\ tok.t \notin {"empty", "line"} -> Fail(p)
       [] p.state = "Headers" -> OnHeader(Drop(p, 1), tok)
       [] p.state = "Body" /\ p.chunked -> OnChunk(p, tok)
       [] p.state = "Body" /\ ~p.chunked -> OnLengthBody(p, tok)

RECURSIVE Parse(_)
Parse(p) == IF p.buf = <<>> \/ ~p.more THEN p ELSE Parse(Step(p))

(* After an upgrade TcpConnection moves the unparsed rest to the WebSocket *)
(* session and hands it all later data; during an event stream the data of *)
(* the peer is discarded.                                                  *)
HandOver(p) == IF p.upgraded THEN [p EXCEPT !.toWs = @ + Len(p.buf), !.buf = <<>>] ELSE p

Receive(p, piece) ==
  LET q == [p EXCEPT !.out = <<>>, !.more = TRUE]
  IN IF p.sse THEN q ELSE HandOver(IF p.upgraded THEN [q EXCEPT !.buf = piece]
                                   ELSE Parse([q EXCEPT !.buf = @ \o piece]))

-----------------------------------------------------------------------------
(* The connection.                                                         *)
Close(how) == ended' = how /\ wbuf' = <<>> /\ watch' = FALSE

(* send() of what is queued: the kernel takes a part of it.                *)
Sends(queue, taken) ==
  /\ written' = written \o SubSeq(queue, 1, taken)
  /\ wbuf' = SubSeq(queue, taken + 1, Len(queue))

(* A new answer is tried at once only when nothing is queued before it.    *)
Takes(new) == IF wbuf = <<>> THEN 0..Len(new) ELSE {0}

(* on_recv of the manager: a parse error closes the connection, together   *)
(* with the answers of the same piece.                                     *)
OnRecv ==
  /\ ended = "open"
  /\ \E n \in 1..(Len(stream) - fed) :
       LET p == Receive(parser, SubSeq(stream, fed + 1, fed + n))
       IN /\ fed' = fed + n
          /\ parser' = p
          /\ torn' = (torn \/ (p.state = "Body" /\ p.chunked
                               /\ stream[fed'].t \in {"size", "field"} /\ stream[fed'].n = 0))
          /\ IF p.state = "Error"
             THEN Close("lost") /\ UNCHANGED written
             ELSE \E k \in Takes(p.out) :
                    /\ Sends(wbuf \o p.out, k)
                    /\ IF ~p.keep /\ wbuf' = <<>>
                       THEN ended' = "clean" /\ watch' = FALSE
                       ELSE watch' = (watch \/ wbuf' # <<>>) /\ UNCHANGED ended
  /\ UNCHANGED sent

(* A connection that is not kept alive is closed when the queue is empty.  *)
StateIfWritten(queue) == IF queue = <<>> /\ ~parser.keep THEN "clean" ELSE "open"

(* The descriptor is writable: write_pending, then close or go on reading. *)
OnWritable ==
  /\ ended = "open" /\ watch
  /\ \E k \in 0..Len(wbuf) :
       /\ k > 0 \/ wbuf = <<>>
       /\ written' = written \o SubSeq(wbuf, 1, k)
       /\ wbuf' = SubSeq(wbuf, k + 1, Len(wbuf))
       /\ watch' = (wbuf' # <<>>)
       /\ ended' = StateIfWritten(wbuf')
  /\ UNCHANGED <<sent, fed, parser, torn>>

(* drain_websocket_outbound: the end of an event stream; its last chunk.   *)
SseEnds ==
  /\ ended = "open" /\ parser.sse
  /\ parser' = [parser EXCEPT !.keep = FALSE, !.sse = FALSE]
  /\ \E k \in Takes(<<1>>) : Sends(Append(wbuf, [req |-> 0, what |-> 0]), k)
  /\ watch' = TRUE
  /\ UNCHANGED <<sent, fed, ended, torn>>

(* End of file, a hang-up or a failing send.                               *)
PeerGone ==
  /\ ended = "open"
  /\ Close("lost")
  /\ UNCHANGED <<sent, fed, parser, written, torn>>

Next == OnRecv \/ OnWritable \/ SseEnds \/ PeerGone
Spec == Init /\ [][Next]_vars /\ WF_vars(OnWritable)

-----------------------------------------------------------------------------
TypeOK ==
  /\ fed \in 0..Len(stream) /\ ended \in {"open", "clean", "lost"} /\ watch \in BOOLEAN
  /\ parser.state \in {"RequestLine", "Headers", "Body", "Error"}
  /\ parser.length \in Nat /\ parser.body \in Nat /\ parser.toWs \in Nat

(* The requests that have arrived whole and that the parser is to handle:  *)
(* none after a malformed one, an event stream or an upgrade.              *)
Whole == {r \in 1..Len(sent) : \E i \in 1..fed : stream[i].req = r /\ (i = Len(stream) \/ stream[i + 1].req # r)}
Due == {r \in Whole : /\ sent[r] \notin {"bad", "frames"}
                      /\ \A q \in 1..(r - 1) : sent[q] \notin {"bad", "sse", "accepted"}}
AnswersTo(rs) == SelectSeq(written \o wbuf, LAMBDA a : a.req \in rs)
Expected(r) == [req |-> r, what |-> IF sent[r] = "refused" THEN 403 ELSE IF sent[r] = "accepted" THEN 101
                                    ELSE Body(sent[r])]

(* However the peer's bytes are cut into pieces, every request is answered *)
(* as soon as its last byte is there, once, in order, with its own body;   *)
(* the exception is a piece that ends inside the end of a chunked body     *)
(* (torn).  What follows an accepted upgrade reaches the WebSocket session.*)
RequestsFramed ==
  (~torn /\ ended # "lost") =>
    /\ AnswersTo({r \in 1..Len(sent) : \A q \in 1..(r - 1) : sent[q] # "sse"}) = [r \in 1..Cardinality(Due) |-> Expected(r)]
    /\ parser.upgraded /\ sent[Cardinality(Due)] = "accepted" =>
         parser.toWs = Cardinality({i \in 1..fed : stream[i].req > Cardinality(Due)})

(* A connection that is not to be kept alive is closed by the server once  *)
(* its answers are sent, unless a later pipelined upgrade takes it over.   *)
ClosedWhenDone == (~parser.keep) ~> (ended # "open" \/ parser.keep)
=============================================================================
