------------------------------- MODULE MCServing -------------------------------
(* What a shard serves requests with, on small instances: the limiting     *)
(* middlewares, authentication and authorization, routing, static files,   *)
(* HTTP/2 and HTTP/3 sessions over TLS streams, QUIC connections and       *)
(* packets, and the container that owns the beans that handlers use.  They *)
(* share nothing here: a behaviour moves one part, chosen at the start,    *)
(* which keeps its state in x1, x2, ... in the order of its VARIABLES.     *)
EXTENDS ConcurrencyLimit, Sequences, TLC

CONSTANTS Parts, RouterShards

VARIABLES part, x1, x2, x3, x4, x5, x6, x7, x8, x9, x10, x11, x12, x13, x14, x15, x16

(* The places that a part of so many variables does not use.               *)
after15 == <<x16>>
after12 == <<x13, x14, x15, after15>>
after11 == <<x12, after12>>
after10 == <<x11, after11>>
after9 == <<x10, after10>>
after8 == <<x9, after9>>
after7 == <<x8, after8>>
after6 == <<x7, after7>>
after5 == <<x6, after6>>
after3 == <<x4, x5, after5>>
places == <<x1, x2, x3, after3>>
quicVars == <<x1, x2, x3, x4, x5>>
Unused(n) ==
  /\ IF n < 1 THEN x1 = 0 ELSE TRUE
  /\ IF n < 2 THEN x2 = 0 ELSE TRUE
  /\ IF n < 3 THEN x3 = 0 ELSE TRUE
  /\ IF n < 4 THEN x4 = 0 ELSE TRUE
  /\ IF n < 5 THEN x5 = 0 ELSE TRUE
  /\ IF n < 6 THEN x6 = 0 ELSE TRUE
  /\ IF n < 7 THEN x7 = 0 ELSE TRUE
  /\ IF n < 8 THEN x8 = 0 ELSE TRUE
  /\ IF n < 9 THEN x9 = 0 ELSE TRUE
  /\ IF n < 10 THEN x10 = 0 ELSE TRUE
  /\ IF n < 11 THEN x11 = 0 ELSE TRUE
  /\ IF n < 12 THEN x12 = 0 ELSE TRUE
  /\ IF n < 13 THEN x13 = 0 /\ x14 = 0 ELSE TRUE
  /\ IF n < 15 THEN x15 = 0 ELSE TRUE
  /\ IF n < 16 THEN x16 = 0 ELSE TRUE

-----------------------------------------------------------------------------
(* Two keys compete for one entry of the rate limiter's table.             *)
RL == INSTANCE RateLimit WITH
  Keys <- {"k1", "k2"}, Watched <- "k1", Algorithms <- {"token", "fixed", "sliding", "gcra"},
  Limit <- 2, Window <- 4, Burst <- 2, MaxKeys <- 1, IdleTtls <- {2, 5},
  Second <- 3, Skew <- 1, Start <- 1, MaxTime <- 6,
  algorithm <- x1, idleTtl <- x2, now <- x3, entries <- x4, passed <- x5, promise <- x6

(* An HTTP/2 connection has two streams, or one with more to send.         *)
H2 == INSTANCE Http2Session WITH Streams <- {1, 2}, MaxUnits <- 1, MaxWindow <- 2,
  stream <- x1, mode <- x2, posted <- x3
Long == INSTANCE Http2Session WITH Streams <- {1}, MaxUnits <- 3, MaxWindow <- 4,
  stream <- x1, mode <- x2, posted <- x3
H3 == INSTANCE Http3Session WITH Streams <- {1}, MaxBody <- 2, EventSize <- 2, MaxEvents <- 2, MaxWindow <- 2,
  sent <- x1, st <- x2, wire <- x3, events <- x4, window <- x5, mode <- x6, posted <- x7
QC == INSTANCE QuicConnections WITH Conns <- {1, 2}, Cids <- 1..4,
  conn <- x1, cidMap <- x2, timers <- x3, posted <- x4, stray <- x5
(* Three beans depend on each other in every way.                          *)
DI == INSTANCE Container WITH Beans <- {"a", "b", "c"}, Threads <- {"t1", "t2"}, MaxCalls <- 2,
  deps <- x1, lazy <- x2, phase <- x3, color <- x4, path <- x5, degree <- x6, queue <- x7,
  order <- x8, instances <- x9, entries <- x10, owned <- x11, started <- x12, stack <- x13,
  holder <- x14, made <- x15, calls <- x16

(* Patterns that overlap in every way a table of two or three routes can.  *)
Static(t) == <<"s", t>>
Param(n) == <<"p", n>>
Rest(n) == <<"w", n>>
RoutePatterns == {<<Static("a")>>, <<Param("x")>>, <<Param("y"), Static("b")>>,
                  <<Static("a"), Param("z")>>, <<Rest("r")>>}
RT == INSTANCE Router WITH Shards <- RouterShards, Patterns <- RoutePatterns, Methods <- {"GET", "POST"},
  Paths <- {<<"a">>, <<"a", "b">>, <<"c", "">>}, MaxRoutes <- 2, ExHandlers <- <<{"app"}, {"app", "std"}>>,
  table <- x1, wsTable <- x2, names <- x3, routes <- x4, lookup <- x5, call <- x6

(* Tokens with every claim near its edge; two ticks to a second.           *)
Builder == [subject |-> <<<<"ann">>>>, issuer |-> <<<<"nova">>>>, scopes |-> <<<<"r">>, <<"w">>>>,
            audience |-> <<<<"x">>>>, expires |-> <<>>, notBefore |-> <<>>, claims |-> <<>>]
Edited == <<[name |-> "exp", type |-> "int", value |-> 2], [name |-> "sub", type |-> "string", value |-> <<"bob">>]>>
TokenBuilders == {Builder, [Builder EXCEPT !.subject = <<>>], [Builder EXCEPT !.issuer = <<>>],
  [Builder EXCEPT !.scopes = <<<<"r", "w">>>>], [Builder EXCEPT !.audience = <<<<"x">>, <<"y">>>>],
  [Builder EXCEPT !.expires = <<3>>], [Builder EXCEPT !.expires = <<3>>, !.notBefore = <<3>>],
  [Builder EXCEPT !.notBefore = <<3>>], [Builder EXCEPT !.claims = Edited],
  [Builder EXCEPT !.claims = Edited, !.expires = <<5>>]}
TokenIssuers == {[algorithm |-> "HS256", key |-> "k", array |-> a, defaultTtl |-> t, iat |-> TRUE] :
                   a \in BOOLEAN, t \in {0, 3}}
Verifier == [algorithms |-> {"HS256"}, keys |-> [a \in {"HS256", "RS256"} |-> IF a = "HS256" THEN "k" ELSE ""],
             skew |-> 1, requireExp |-> TRUE, checkNbf |-> TRUE, checkIat |-> TRUE, issuer |-> <<<<"nova">>>>,
             audiences |-> {<<"x">>}, scopes |-> {<<"r">>}, claims |-> {}, cookie |-> TRUE, allowOptions |-> TRUE]
TokenVerifiers == {Verifier, [Verifier EXCEPT !.skew = 0, !.requireExp = FALSE, !.cookie = FALSE],
  [Verifier EXCEPT !.claims = {[name |-> "sub", value |-> <<"ann">>]}],
  [Verifier EXCEPT !.algorithms = {"RS256"}], [Verifier EXCEPT !.keys["HS256"] = "other"]}
JT == INSTANCE Jwt WITH Tps <- 2, MaxTime <- 6, Builders <- TokenBuilders, Issuers <- TokenIssuers,
  Verifiers <- TokenVerifiers,
  Requests <- {[via |-> v, options |-> v = "none", listed |-> FALSE] : v \in {"bearer", "cookie", "none"}},
  now <- x1, issuer <- x2, cfg <- x3, builder <- x4, token <- x5, born <- x6, seen <- x7, dead <- x8

(* One browser that logs in twice, logs out and reads a page, or two of    *)
(* them that log in, where one posts its page's form; the store may fail.  *)
Kinds == "login1" :> "login" @@ "login2" :> "login" @@ "logout" :> "logout" @@ "get" :> "get" @@ "post" :> "post"
SE(S, other) == INSTANCE Sessions WITH Requests <- S, Browser <- [q \in S |-> IF q = other THEN "c" ELSE "b"], Kind <- Kinds,
  Subject <- [q \in S |-> IF q = "login1" THEN "ann" ELSE "bob"], Ttl <- 1, MaxTime <- 2, Faulty <- TRUE,
  now <- x1, store <- x2, jar <- x3, csrf <- x4, page <- x5, fresh <- x6, req <- x7, owner <- x8, gone <- x9
Logins == {"login1", "login2", "logout", "get"}
Forms == {"login1", "login2", "get", "post"}

(* Addresses of two bytes of two bits; policies of every kind.             *)
Policy == [match |-> TRUE, auth |-> TRUE, scopes |-> {"a", "b"}, any |-> FALSE,
           roles |-> {}, anyRole |-> FALSE, custom |-> TRUE]
Policies == {Policy, [Policy EXCEPT !.match = FALSE], [Policy EXCEPT !.auth = FALSE, !.scopes = {}],
             [Policy EXCEPT !.any = TRUE], [Policy EXCEPT !.custom = FALSE],
             [Policy EXCEPT !.scopes = {}, !.roles = {"x", "y"}, !.anyRole = TRUE]}
Method(roles) == [mark |-> "authorize", roles |-> roles, anyRole |-> FALSE, scopes |-> {"a"}, any |-> FALSE]
Anyone == [kind |-> "none", scopes |-> {}, roles |-> {}]
Unmarked == [mark |-> "none"]
Authorized == {Method({}), Method({"x", "y"})}
(* Requests through proxies of every kind, and requests of every principal *)
(* to every combination of policies and annotations.                       *)
Proxied ==
  [peer : {<<a, b>> : a \in {0, 1}, b \in {1, 3}} \cup {<<3, 3>>},
   header : {<<>>, <<<<<<"for", <<0, 1>>>>, <<"proto", <<"https">>>>, <<"for", <<>>>>, <<"host", <<"h">>>>>>,
                     <<<<"for", <<3, 3>>>>>>>>,
             <<<<<<"for", <<3, 3>>>>, <<"for", <<1, 1>>>>, <<"proto", <<"ftp">>>>, <<"host", <<>>>>>>>>},
   apply : SUBSET {"proto", "host"}, principal : {Anyone}, policies : {<<>>},
   method : {Unmarked}, class : {Unmarked}, call : {Unmarked}, service : {Unmarked}]
Guarded ==
  [peer : {<<0, 1>>}, header : {<<>>}, apply : {{}},
   principal : {Anyone, [kind |-> "jwt", scopes |-> {"a"}, roles |-> {}],
                [kind |-> "session", scopes |-> {"a", "b"}, roles |-> {"x"}]},
   policies : {<<>>} \cup {<<p>> : p \in Policies} \cup {<<p, Policy>> : p \in Policies},
   method : {Unmarked, [mark |-> "permitAll"]} \cup Authorized, class : {Unmarked} \cup Authorized,
   call : {Unmarked, [mark |-> "permitAll"]} \cup Authorized, service : {Unmarked} \cup Authorized]
AU == INSTANCE Authorization WITH ByteBits <- 2, Addresses <- {<<a, b>> : a, b \in {0, 1, 3}}, Hosts <- {<<"h">>},
  Cidrs <- {[net |-> <<1, 2>>, prefix |-> 3], [net |-> <<3, 3>>, prefix |-> 4]}, TrustAll <- FALSE,
  Requests <- Proxied \cup Guarded,
  r <- x1, address <- x2, scheme <- x3, authority <- x4, pc <- x5, status <- x6

(* Ranges before, in, across and past the end of files of 0, 1 or 3 bytes. *)
Bytes(form, x, y) == [form |-> form, x |-> x, y |-> y]
SF == INSTANCE StaticResource WITH Sizes <- {0, 1, 3}, MaxVersions <- 2,
  Ranges <- {Bytes("bad", 0, 0), Bytes("suffix", 0, 0), Bytes("suffix", 2, 0), Bytes("suffix", 9, 0),
             Bytes("from", 1, 0), Bytes("from", 3, 0), Bytes("span", 0, 9), Bytes("span", 2, 1)},
  file <- x1, pc <- x2, request <- x3, size <- x4, etag <- x5, response <- x6, cache <- x7,
  versions <- x8, requests <- x9, calm <- x10

(* Handshakes that end, fail or are overtaken, with data in every cut.     *)
Shaken == <<"hello", "finished">>
TL == INSTANCE TlsStream WITH Alpns <- {"h2", "http/1.1"}, MaxOut <- 9,
  Scripts <- {Shaken \o <<"d1", "d2", "d1", "close">>, Shaken \o <<"d1", "bad", "d2">>, Shaken \o <<"d1", "up", "d2", "d1">>,
              <<"hello", "bad">>, <<"bad">>, <<"hello", "d1">>},
  ssl <- x1, status <- x2, heard <- x3, alpn <- x4, script <- x5, wire <- x6, written <- x7,
  session <- x8, delivered <- x9, tcp <- x10, open <- x11, lost <- x12

(* A request with a body in pieces, and one without.                       *)
HC == INSTANCE Http3Client WITH Streams <- {0, 4}, Chunks <- 0 :> <<2, 1, 0, 1>> @@ 4 :> <<>>,
  Response <- 0 :> 2 @@ 4 :> 0,
  conn <- x1, closed <- x2, session <- x3, broken <- x4, timer <- x5, told <- x6, quic <- x7, bodies <- x8,
  handed <- x9, eof <- x10, streams <- x11, offsets <- x12, fin <- x13, answered <- x14, out <- x15, own <- x16

(* Two descriptors for two sockets; every pool of the loop can run dry.    *)
PI == INSTANCE PacketIo WITH Fds <- {3, 4}, Slots <- 2, Contexts <- 2, Buffers <- 1, SqSize <- 2,
  MaxSockets <- 2, MaxSends <- 3,
  open <- x1, sockets <- x2, files <- x3, callbacks <- x4, sq <- x5, armed <- x6, sending <- x7, cq <- x8,
  buffers <- x9, free <- x10, ctx <- x11, packets <- x12, dropped <- x13, wired <- x14, running <- x15, lost <- x16

-----------------------------------------------------------------------------
MCInit ==
  /\ part \in Parts /\ Init
  /\ \/ part = "concurrency" /\ Unused(0)
     \/ part = "rate" /\ RL!Init /\ Unused(6)
     \/ part = "h2" /\ H2!Init /\ Unused(3)
     \/ part = "long" /\ Long!Init /\ Unused(3)
     \/ part = "h3" /\ H3!Init /\ Unused(7)
     \/ part = "quic" /\ QC!Init /\ Unused(5)
     \/ part = "beans" /\ DI!Init
     \/ part = "router" /\ RT!Init /\ Unused(6)
     \/ part = "jwt" /\ JT!Init /\ Unused(8)
     \/ part = "sessions" /\ SE(Logins, "none")!Init /\ Unused(9)
     \/ part = "forms" /\ SE(Forms, "login2")!Init /\ Unused(9)
     \/ part = "access" /\ AU!Init /\ Unused(6)
     \/ part = "static" /\ SF!Init /\ Unused(10)
     \/ part = "tls" /\ TL!Init /\ Unused(12)
     \/ part = "client" /\ HC!Init
     \/ part = "packets" /\ PI!Init
MCNext ==
  /\ UNCHANGED part
  /\ \/ part = "concurrency" /\ Next /\ UNCHANGED places
     \/ part = "rate" /\ RL!Next /\ UNCHANGED <<vars, after6>>
     \/ part = "h2" /\ H2!Next /\ UNCHANGED <<vars, after3>>
     \/ part = "long" /\ Long!Next /\ UNCHANGED <<vars, after3>>
     \/ part = "h3" /\ H3!Next /\ UNCHANGED <<vars, after7>>
     \/ part = "quic" /\ QC!Next /\ UNCHANGED <<vars, after5>>
     \/ part = "beans" /\ DI!Next /\ UNCHANGED vars
     \/ part = "router" /\ RT!Next /\ UNCHANGED <<vars, after6>>
     \/ part = "jwt" /\ JT!Next /\ UNCHANGED <<vars, after8>>
     \/ part = "sessions" /\ SE(Logins, "none")!Next /\ UNCHANGED <<vars, after9>>
     \/ part = "forms" /\ SE(Forms, "login2")!Next /\ UNCHANGED <<vars, after9>>
     \/ part = "access" /\ AU!Next /\ UNCHANGED <<vars, after6>>
     \/ part = "static" /\ SF!Next /\ UNCHANGED <<vars, after10>>
     \/ part = "tls" /\ TL!Next /\ UNCHANGED <<vars, after12>>
     \/ part = "client" /\ HC!Next /\ UNCHANGED vars
     \/ part = "packets" /\ PI!Next /\ UNCHANGED vars
MCSpec == MCInit /\ [][MCNext]_<<part, vars, places>>
(* The loop keeps running its timers and what is posted to it.             *)
QuicSpec ==
  /\ MCSpec /\ WF_quicVars(part = "quic" /\ QC!Cleanup)
  /\ \A c \in {1, 2} : WF_quicVars(part = "quic" /\ QC!Expire(c)) /\ WF_quicVars(part = "quic" /\ QC!RunPosted(c))

-----------------------------------------------------------------------------
(* No interval sees more requests of a key pass than the policy allows,    *)
(* in the life of its entry, or at all if entries are not pruned while     *)
(* their quota is in use.  The headers tell the truth: who waits for       *)
(* Retry-After is let through if the table has room, RateLimit-Remaining   *)
(* requests do pass at the same moment and no more.  The first request of a*)
(* key with room in the store is allowed, one interval after the clock's   *)
(* epoch.                                                                  *)
RateSound ==
  part = "rate" => RL!TypeOK /\ RL!RateBound /\ RL!RetryHonest /\ RL!RemainingHonest /\ RL!FirstAllowed
(* HTTP/2: what a stream produces is sent once, in the order in which the  *)
(* session is given it, and not left behind; a request is handled once; a  *)
(* lost stream's channel closes.                                           *)
(* HTTP/3: a request arrives whole whatever is repeated, the response goes *)
(* out in order, unacknowledged events are held and queued ones served.    *)
(* QUIC: the ids that a connection manager knows lead to connections that  *)
(* exist, and a connection has one expiry timer at most, which ends with   *)
(* it; a posted wake-up strays only if cleanup has come before it.         *)
TransportsSound ==
  /\ part = "h2" => H2!TypeOK /\ H2!StreamsInOrder /\ H2!NothingStalls /\ H2!HandledOnce /\ H2!ChannelsClosed
  /\ part = "long" =>
       Long!TypeOK /\ Long!StreamsInOrder /\ Long!NothingStalls /\ Long!HandledOnce /\ Long!ChannelsClosed
  /\ part = "h3" =>
       /\ H3!TypeOK /\ H3!RequestWhole /\ H3!ResponseInOrder
       /\ H3!InflightHeld /\ H3!EventsServed /\ H3!RemainingExact
  /\ part = "quic" => QC!TypeOK /\ QC!MapLive /\ QC!OneTimer /\ QC!StrayOnlyAfterCleanup
(* A QUIC connection that has timed out is removed.                        *)
IdleRemoved == QC!IdleRemoved
(* The container refuses cycles and nothing else, makes a bean once, after *)
(* what it needs, and destroys it before what it needs; only a lazy bean   *)
(* whose post_construct has thrown stays without an owner.                 *)
BeansSound ==
  part = "beans" =>
    DI!TypeOK /\ DI!CyclesRefused /\ DI!OneInstance /\ DI!DependenciesFirst
    /\ DI!DestroyedAfterUsers /\ DI!OwnedOnce
(* A request runs the handler of the most specific route that fits its     *)
(* method and path, with the values of that route's parameters.            *)
RouteFound == part = "router" => RT!RouteFound
(* A request is dispatched by its own method, whatever other shards do.    *)
OwnMethod == part = "router" => RT!OwnMethod
(* A token is accepted exactly while its signature, times and claims       *)
(* satisfy what is required, and carries what its builder was given.       *)
TokensSound == part = "jwt" => JT!TokensSound
(* A session leads to the subject that logged in and to nobody else, until *)
(* it expires, is logged out or replaced, whatever requests run together.  *)
SessionsSound ==
  (part = "sessions" => SE(Logins, "none")!SessionsSound) /\ (part = "forms" => SE(Forms, "login2")!SessionsSound)
(* A handler runs only for a principal that every policy and annotation in *)
(* force admits, with the address that trusted peers reported.             *)
AccessSound == part = "access" => AU!AccessSound
(* A body has the length and the range its headers announce, and a 304     *)
(* confirms what the client keeps, whatever becomes of the file meanwhile. *)
StaticSound == part = "static" => SF!StaticSound
(* Receive buffers, send contexts and packets are each in one place, and   *)
(* what is received or sent is a socket's own, once.                       *)
PacketsSound == part = "packets" => PI!PacketsSound
==============================================================================
