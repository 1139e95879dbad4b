-------------------------------- MODULE MCData --------------------------------
(* What messages and data go through, on small instances: the STOMP broker,*)
(* the decoders of WebSocket and STOMP frames, repositories, queries,      *)
(* PostgreSQL batches and the allocators.  They share nothing here: a      *)
(* behaviour moves one part, chosen at the start, which keeps its state in *)
(* x1, x2, ... in the order of its VARIABLES (the allocators in their own).*)
EXTENDS Memory, TLC

CONSTANT Parts

VARIABLES part, x1, x2, x3, x4, x5, x6, x7, x8, x9, x10, x11, x12, x13, x14, x15

(* The places that a part of so many variables does not use.               *)
after12 == <<x13, x14, x15>>
after11 == <<x12, after12>>
after10 == <<x11, after11>>
after6 == <<x7, x8, x9, x10, after10>>
places == <<x1, x2, x3, x4, x5, x6, after6>>
Unused(n) ==
  /\ IF n < 6 THEN x1 = 0 /\ x2 = 0 /\ x3 = 0 /\ x4 = 0 /\ x5 = 0 /\ x6 = 0 ELSE TRUE
  /\ IF n < 10 THEN x7 = 0 /\ x8 = 0 /\ x9 = 0 /\ x10 = 0 ELSE TRUE
  /\ IF n < 11 THEN x11 = 0 ELSE TRUE
  /\ IF n < 12 THEN x12 = 0 ELSE TRUE
  /\ IF n < 13 THEN x13 = 0 /\ x14 = 0 /\ x15 = 0 ELSE TRUE

-----------------------------------------------------------------------------
(* Two sessions of a broker.  Clients of a topic: both listen to the one   *)
(* that sends; one listens under two ids, or twice under one; both send to *)
(* the one that listens.  Clients of a queue and of a user destination.    *)
Users == {"s1", "s2"}
Clients(dest, msgs, senders, subs1, subs2, ids, mode) ==
  [dest |-> dest, msgs |-> msgs, senders |-> senders, subs |-> "s1" :> subs1 @@ "s2" :> subs2,
   ids |-> ids, mode |-> mode]
Scenario(p) ==
  CASE p = "topic" -> Clients("topic", 1, {"s1"}, 1, 1, {"a"}, "client")
    [] p = "ids" -> Clients("topic", 1, {"s1"}, 0, 2, {"a", "b"}, "client-individual")
    [] p = "senders" -> Clients("topic", 2, Users, 0, 1, {"a"}, "client")
    [] p = "queue" -> Clients("queue", 2, {"s1"}, 1, 1, {"a"}, "client-individual")
    [] p = "user" -> Clients("user", 2, {"s1"}, 1, 1, {"a"}, "auto")
Broker == {"topic", "ids", "senders", "queue", "user"}
BR(c) == INSTANCE StompBroker WITH Sessions <- Users, Senders <- c.senders, Dests <- {c.dest},
  Kind <- c.dest :> c.dest, Owner <- c.dest :> "alice", Principal <- "s1" :> "alice" @@ "s2" :> "bob",
  SubIds <- c.ids, Modes <- {c.mode}, MaxMsg <- c.msgs, MaxSubs <- c.subs, MaxNack <- 1,
  ws <- x1, conn <- x2, accepting <- x3, doomed <- x4, subs <- x5, cursor <- x6, pending <- x7,
  nextMsg <- x8, task <- x9, sent <- x10, recorded <- x11, acks <- x12, ended <- x13, voided <- x14, nacks <- x15

(* Every three frames of these, in pieces of these sizes; a message of at  *)
(* most three bytes, a control frame of two.                               *)
Frame == [op |-> "text", fin |-> TRUE, len |-> 1, valid |-> TRUE, hdr |-> 2, rsv |-> FALSE, masked |-> TRUE, top |-> FALSE]
FrameKinds == {Frame, [Frame EXCEPT !.fin = FALSE, !.len = 2, !.hdr = 4], [Frame EXCEPT !.valid = FALSE, !.fin = FALSE],
  [Frame EXCEPT !.op = "binary", !.fin = FALSE, !.valid = FALSE], [Frame EXCEPT !.op = "continuation"],
  [Frame EXCEPT !.op = "continuation", !.fin = FALSE, !.len = 2, !.hdr = 10], [Frame EXCEPT !.op = "ping"],
  [Frame EXCEPT !.op = "pong", !.fin = FALSE], [Frame EXCEPT !.op = "close", !.len = 2], [Frame EXCEPT !.op = "close"],
  [Frame EXCEPT !.hdr = 10, !.top = TRUE], [Frame EXCEPT !.len = 4, !.hdr = 4], [Frame EXCEPT !.masked = FALSE]}
Offer(s) == [valid |-> TRUE, origin |-> TRUE, offered |-> s]
WR == INSTANCE WebSocketReceive WITH Streams <- {<<a, b, c>> : a, b, c \in FrameKinds},
  Handshakes <- {Offer({}), Offer({"b", "c"}), Offer({"a", "b"}), [Offer({}) EXCEPT !.valid = FALSE], [Offer({"a"}) EXCEPT !.origin = FALSE]},
  Supported <- <<"a", "b">>, Chunks <- {1, 2, 5}, MaxMessage <- 3, MaxControl <- 2,
  handshake <- x1, stream <- x2, answer <- x3, fed <- x4, offset <- x5, next <- x6, fragment <- x7,
  closed <- x8, delivered <- x9, notified <- x10

(* Two STOMP frames, with the bytes that need care in headers and bodies.  *)
Message(h, b) == [command |-> "CMD", headers |-> h, body |-> b]
SC == INSTANCE StompFrames WITH MaxFrames <- 2,
  Frames <- {Message(<<>>, <<>>), Message(<<"hdr">>, <<"x", "LF">>), Message(<<>>, <<"x", "NUL">>),
             Message(<<"hdr", "len1">>, <<"NUL">>), Message(<<"len2">>, <<"LF", "x">>)},
  Beats <- {<<>>, <<"CR", "LF">>, <<"LF", "LF">>}, Eols <- {<<"LF">>, <<"CR", "LF">>},
  Broken <- {<<"CMD", "LF", "bad", "LF", "LF", "NUL">>, <<"CMD", "LF", "len1", "LF", "LF", "x", "x", "NUL">>},
  sent <- x1, sound <- x2, wire <- x3, buffer <- x4, failed <- x5, got <- x6

(* Two units of work on one entity, with and without transactions.         *)
ON == INSTANCE Orm WITH Workers <- {"u", "v"}, Children <- {1}, Tags <- {7}, MaxSaves <- 2,
  Cascades <- {{}, {"persist", "merge", "remove"}}, Ids <- {"auto", "assigned"},
  tx <- x1, cascade <- x2, orphan <- x3, ids <- x4, db <- x5, draft <- x6, holder <- x7, work <- x8,
  saves <- x9, before <- x10, lost <- x11

(* Two calls on a builder, over a table with nulls and a related one.      *)
Row(id, a, rel) == [id |-> id, a |-> a, rel |-> rel]
Rows == {Row(1, 0, 1), Row(2, 1, 2), Row(3, 2, 1), Row(4, -1, -1)}
Cond(k, op, vals) == [k |-> k, op |-> op, vals |-> vals]
Call(how, c) == [how |-> how, cond |-> c]
QB == INSTANCE QueryBuilder WITH Tables <- {Rows, Rows \ {Row(2, 1, 2)}}, Target <- 1 :> 5 @@ 2 :> 7,
  Children <- {[id |-> 1, parent |-> 1], [id |-> 2, parent |-> 1], [id |-> 3, parent |-> 2], [id |-> 4, parent |-> -1]},
  Conds <- {Cond("op", "=", <<1>>), Cond("op", "<", <<2>>), Cond("related", "=", <<5>>), Cond("null", "", <<>>),
            Cond("notnull", "", <<>>), Cond("in", "", <<>>), Cond("in", "", <<0, 2>>), Cond("between", "", <<0, 1>>)},
  Groups <- {<<>>, <<Call("where", Cond("op", "=", <<2>>)), Call("or", Cond("related", "=", <<7>>))>>},
  Orders <- {[col |-> "a", asc |-> FALSE]}, Limits <- {0, 1}, Pages <- {<<0, 2>>, <<1, 2>>}, MaxCalls <- 2,
  sql <- x1, params <- x2, order <- x3, limit <- x4, offset <- x5, joined <- x6, many <- x7, asked <- x8,
  calls <- x9, table <- x10, pc <- x11, result <- x12

PB == INSTANCE PostgresBatch WITH MaxSets <- 3, MaxBatches <- 2,
  conn <- x1, pc <- x2, size <- x3, sent <- x4, queue <- x5, rows <- x6, failed <- x7, sawSync <- x8,
  table <- x9, batches <- x10, refused <- x11, hungUp <- x12

-----------------------------------------------------------------------------
MCInit ==
  /\ part \in Parts /\ Init /\ (part # "memory" => blockSize = Page)
  /\ \/ part = "memory" /\ Unused(0)
     \/ \E p \in Broker : part = p /\ BR(Scenario(p))!Init
     \/ part = "websocket" /\ WR!Init /\ Unused(10) /\ (x1 = Offer({}) \/ x2 = <<Frame, Frame, Frame>>)
     \/ part = "stomp" /\ SC!Init /\ Unused(6)
     \/ part = "orm" /\ ON!Init /\ Unused(11)
     \/ part = "query" /\ QB!Init /\ Unused(12)
     \/ part = "batch" /\ PB!Init /\ Unused(12)
MCNext ==
  /\ UNCHANGED part
  /\ \/ part = "memory" /\ Next /\ UNCHANGED places
     \/ \E p \in Broker : part = p /\ BR(Scenario(p))!Next /\ UNCHANGED vars
     \/ part = "websocket" /\ WR!Next /\ UNCHANGED <<vars, after10>>
     \/ part = "stomp" /\ SC!Next /\ UNCHANGED <<vars, after6>>
     \/ part = "orm" /\ ON!Next /\ UNCHANGED <<vars, after11>>
     \/ part = "query" /\ QB!Next /\ UNCHANGED <<vars, after12>>
     \/ part = "batch" /\ PB!Next /\ UNCHANGED <<vars, after12>>
MCSpec == MCInit /\ [][MCNext]_<<part, vars, places>>

-----------------------------------------------------------------------------
(* A message reaches the sessions it is for, once: one subscriber of a     *)
(* queue, only the principal of a user destination, and a session that has *)
(* closed is not subscribed any more.  A delivery that asks for an         *)
(* acknowledgement is kept until the client's ACKs, by the broker's order, *)
(* or any UNSUBSCRIBE of the session take it; as long as one subscription  *)
(* and one order of delivery are all there is, that is what the client     *)
(* itself has settled, and an ACK settles what came before it and nothing  *)
(* else.                                                                   *)
BrokerSound ==
  \A p \in Broker : part = p => BR(Scenario(p))!DeliveriesSound
(* However a WebSocket peer's bytes are cut, the messages that it sent     *)
(* before its first error or close are delivered, whole and once, and      *)
(* nothing else, and the subprotocol is one that both sides know.  What    *)
(* serialize writes the STOMP decoder reads back, with heart-beats between,*)
(* up to the first broken frame.                                           *)
DecodedAsSent ==
  /\ part = "websocket" => WR!ReceivedAsSent /\ WR!SubprotocolAgreed
  /\ part = "stomp" => SC!FramesRoundTrip
(* No update is lost between two units of work, and a save in a transaction*)
(* leaves the associations as the entity has them.                         *)
OrmSound == part = "orm" => ON!OrmSound
(* What a builder's calls select, count and page is what they say, in the  *)
(* order they ask for unless a to-one association is fetched along.        *)
QueriesSound == part = "query" => QB!QueriesSound
(* A batch that returns is stored whole.  One that throws after its sync   *)
(* stored nothing, or the sets before a send that failed.  The connection  *)
(* it leaves behind takes the next statement, or is replaced, or poll      *)
(* reported its hang-up.                                                   *)
BatchSound == part = "batch" => PB!BatchSound
==============================================================================
