------------------------------- MODULE TlsStream -------------------------------
(***************************************************************************)
(* TlsTcpStream (net/tls_tcp_stream.cpp) under TcpConnection               *)
(* (net/tcp_connection_manager.cpp): the handshake, decryption and         *)
(* encryption of one accepted connection, through OpenSSL's memory BIOs.   *)
(*                                                                         *)
(* OpenSSL is external.  What it is given is a sequence of records: "hello"*)
(* and "finished" of the handshake, "bad" for what it rejects, "close" for *)
(* close_notify, and application data, of which "up" is a request to switch*)
(* an HTTP/1.1 connection to a WebSocket.  It processes whole records as they *)
(* come, so its BIOs are empty between two calls.  What it writes are      *)
(* records that carry their sequence number: the peer accepts them in no   *)
(* other order.                                                            *)
(***************************************************************************)
EXTENDS Integers, Sequences, FiniteSets, SequencesExt

CONSTANTS Scripts,   \* what peers send: sequences of records
          Alpns,     \* protocols that may be negotiated
          MaxOut     \* bound of the model: records written

VARIABLES ssl,       \* SSL_new and BIO_new succeeded
          status,    \* handshake_status_
          heard,     \* OpenSSL: "none", "hello", "finished": handshake records processed
          alpn,      \* the protocol negotiated
          script,    \* what the peer sends
          wire,      \* records of the peer that were not received
          written,   \* records OpenSSL wrote: the last sequence number
          session,   \* session_: "none", "http1", "http2" or "websocket"
          delivered, \* application data, with the session that was fed it
          tcp,       \* what was handed to the TCP connection
          open,      \* the connection is in connections_
          lost       \* history: SSL_write has refused what a session wanted to send

vars == <<ssl, status, heard, alpn, script, wire, written, session, delivered, tcp, open, lost>>

Init ==
  /\ ssl \in BOOLEAN /\ status = IF ssl THEN "handshaking" ELSE "failed"
  /\ heard = "none" /\ alpn \in Alpns /\ script \in Scripts /\ wire = script
  /\ written = 0
  /\ session = "none" /\ delivered = <<>> /\ tcp = <<>> /\ open = TRUE /\ lost = FALSE

IsData(r) == r \notin {"hello", "finished", "bad", "close"}
Records(from, n) == [i \in 1 .. n |-> from + i]

-----------------------------------------------------------------------------
(* SSL_do_handshake over the records that are there: the hello is answered *)
(* with a flight, "finished" completes it and leaves a session ticket.     *)
(* What comes out: the new state of OpenSSL.                               *)
DoHandshake(h, in) ==
  CASE h = "none" /\ in # <<>> /\ Head(in) = "hello" ->
         IF Len(in) > 1 /\ in[2] = "finished" THEN [result |-> "complete", heard |-> "finished", in |-> SubSeq(in, 3, Len(in)), out |-> 2]
         ELSE IF Len(in) > 1 THEN [result |-> "failed", heard |-> "hello", in |-> Tail(in), out |-> 1]
         ELSE [result |-> "handshaking", heard |-> "hello", in |-> <<>>, out |-> 1]
    [] h = "hello" /\ in # <<>> /\ Head(in) = "finished" ->
         [result |-> "complete", heard |-> "finished", in |-> Tail(in), out |-> 1]
    [] in = <<>> -> [result |-> "handshaking", heard |-> h, in |-> in, out |-> 0]
    [] OTHER -> [result |-> "failed", heard |-> h, in |-> in, out |-> 1]      \* an alert

(* The SSL_read loop: data up to the first record that is not data; at     *)
(* close_notify, or at a record that is refused, it ends with an error.    *)
Readable(in) == SelectInSeq(in, LAMBDA r : ~IsData(r))
SslRead(in) == IF Readable(in) = 0 THEN [data |-> in, error |-> FALSE]
               ELSE [data |-> SubSeq(in, 1, Readable(in) - 1), error |-> TRUE]

(* feed_network_data: an error keeps nothing, not even what was decrypted  *)
(* before it.                                                              *)
Feed(in) ==
  LET hs == IF status = "handshaking" THEN DoHandshake(heard, in)
            ELSE [result |-> status, heard |-> heard, in |-> in, out |-> 0]
      read == IF hs.result = "complete" THEN SslRead(hs.in) ELSE [data |-> <<>>, error |-> FALSE]
  IN [hs |-> hs, data |-> read.data,
      error |-> ~ssl \/ status = "failed" \/ hs.result = "failed" \/ read.error]

-----------------------------------------------------------------------------
(* on_accept starts the handshake; the server's side has nothing to send   *)
(* yet.  A stream without SSL stays, and its first data closes it.         *)
Close == open' = FALSE /\ UNCHANGED <<ssl, alpn, script, lost>>

(* What on_recv sends: the handshake's flight, the session's answer, and   *)
(* whatever OpenSSL has written besides.                                   *)
Assemble(flight, answer, extra) == flight \o answer \o extra

SessionFor(p) == IF p = "h2" THEN "http2" ELSE "http1"

(* Who is fed the data, and the session after it.  An HTTP/1.1 session may *)
(* accept a switch, and what follows is the WebSocket's.                   *)
Fed(who, data) == [i \in DOMAIN data |-> <<who, data[i]>>]
Routed(who, data) ==
  LET up == SelectInSeq(data, LAMBDA r : r = "up")
  IN  {[session |-> who, fed |-> Fed(who, data)]} \cup
      (IF who = "http1" /\ up > 0
       THEN {[session |-> "websocket",
              fed |-> Fed(who, SubSeq(data, 1, up)) \o Fed("websocket", SubSeq(data, up + 1, Len(data)))]}
       ELSE {})

(* on_recv of the next n records.  The session answers some of the data    *)
(* through encrypt_cb, which gives nothing when SSL_write fails, and the   *)
(* connection stays; reading may have made OpenSSL write too.  A WebSocket *)
(* never fails: its errors are frames to send.                             *)
OnRecv(n) ==
  LET fed == Feed(SubSeq(wire, 1, n))
      now == IF fed.hs.result = "complete" /\ session = "none" THEN SessionFor(alpn) ELSE session
  IN /\ open /\ n <= Len(wire)
     /\ wire' = SubSeq(wire, n + 1, Len(wire))
     /\ IF fed.error
        THEN /\ status' = (IF ssl /\ status # "failed" THEN fed.hs.result ELSE status)
             /\ Close /\ UNCHANGED <<heard, written, session, delivered, tcp>>
        ELSE \/ /\ fed.data # <<>> /\ now # "websocket" /\ status' = fed.hs.result   \* feed_data fails
                /\ Close /\ UNCHANGED <<heard, written, session, delivered, tcp>>
             \/ \E routed \in Routed(now, fed.data), refused \in BOOLEAN,
                   answers \in 0 .. Len(fed.data), update \in 0 .. (IF fed.data = <<>> THEN 0 ELSE 1) :
                LET flight == Records(written, fed.hs.out)
                    answer == Records(written + fed.hs.out, answers + (IF answers > 0 THEN update ELSE 0))
                    extra  == IF answers > 0 THEN <<>> ELSE Records(written + fed.hs.out, update)
                IN /\ written + fed.hs.out + answers + update <= MaxOut
                   /\ refused => fed.data # <<>>
                   /\ status' = fed.hs.result /\ heard' = fed.hs.heard
                   /\ written' = written + fed.hs.out + answers + update
                   /\ session' = routed.session
                   /\ delivered' = delivered \o routed.fed
                   /\ tcp' = tcp \o Assemble(flight, answer, extra)
                   /\ lost' = (lost \/ refused)
                   /\ UNCHANGED <<ssl, alpn, script, open>>

(* drain_websocket_outbound, posted by another thread's message or event.  *)
Drain ==
  /\ open /\ session # "none" /\ written < MaxOut
  /\ \/ /\ written' = written + 1 /\ tcp' = tcp \o Records(written, 1)
        /\ UNCHANGED lost
     \/ lost' = TRUE /\ UNCHANGED <<written, tcp>>            \* SSL_write fails
  /\ UNCHANGED <<ssl, status, heard, alpn, script, wire, session, delivered, open>>

(* The peer is gone (EOF or an error of recv or send), or the session does *)
(* not keep the connection alive.                                          *)
PeerGone == open /\ Close /\ UNCHANGED <<status, heard, wire, written, session, delivered, tcp>>

Next == (\E n \in 1 .. 4 : OnRecv(n)) \/ Drain \/ PeerGone
Spec == Init /\ [][Next]_vars

-----------------------------------------------------------------------------
Data == SelectSeq(script, IsData)
Arrived == SelectSeq(SubSeq(script, 1, Len(script) - Len(wire)), IsData)

(* The sessions receive, once the handshake is complete and under the      *)
(* protocol that was negotiated, exactly the data that arrived, in order:  *)
(* after a switch the WebSocket receives what follows the request for it,  *)
(* and the HTTP/1.1 session nothing more.  Records reach TCP in the order  *)
(* OpenSSL numbered them, none withheld while the connection is open.      *)
(* (What SSL_write refuses is lost, and the connection stays open.)        *)
TlsSound ==
  LET data == [i \in DOMAIN delivered |-> delivered[i][2]]
  IN  /\ IsPrefix(data, Data)
      /\ open /\ ssl => data = Arrived
      /\ delivered # <<>> => status = "complete"
      /\ session \in {"none", SessionFor(alpn)} \/ (session = "websocket" /\ alpn # "h2")
      /\ \A i \in DOMAIN delivered :
           /\ delivered[i][1] = SessionFor(alpn) \/ (delivered[i][1] = "websocket" /\ session = "websocket")
           /\ i > 1 /\ delivered[i - 1][1] = "websocket" => delivered[i][1] = "websocket"
           /\ i > 1 /\ delivered[i - 1][1] # delivered[i][1] => delivered[i - 1] = <<"http1", "up">>
      /\ tcp = Records(0, Len(tcp))
      /\ open => Len(tcp) = written
=============================================================================
