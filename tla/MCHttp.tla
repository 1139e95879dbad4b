-------------------------------- MODULE MCHttp --------------------------------
(* What serves one peer: the SSE channel, a connection that speaks         *)
(* HTTP/1.1, a WebSocket session, STOMP heart-beats and the relay of one   *)
(* browser.  They share nothing here; a behaviour moves one part, chosen at*)
(* the start.  The channel has two publishers, events of one or two units  *)
(* and a queue that both limits can fill.  The connection meets every pair *)
(* of request kinds, cut into pieces in every way.  The session has        *)
(* messages of one or four units against a limit of eight, so that the     *)
(* queue, the session and the transport can each be the one that overflows.*)
(* Heart-beats have every combination of the given periods.                *)
EXTENDS SseChannel, WebSocketSession, FiniteSets

CONSTANTS Parts, Periods

VARIABLES part,
          sent, fed, parser, wbuf, written, watch, ended, torn,
          client, server, outgoing, incoming, state, beating, quiet, mute,
          browser, known, stop, greeting, relaySubs, outbound, wpc, batch, upstream, tcp, late,
          broker, welcomed, relayed, data, subFrames, dials

h1Vars == <<sent, fed, parser, wbuf, written, watch, ended, torn>>
beatVars == <<client, server, outgoing, incoming, state, beating, quiet, mute>>
relayVars == <<browser, known, stop, greeting, relaySubs, outbound, wpc, batch, upstream, tcp,
               late, broker, welcomed, relayed, data, subFrames, dials>>

Kinds == {"plain", "length", "chunked", "close", "accepted", "refused", "sse", "bad"}
H1 == INSTANCE Http1Connection WITH
        Scripts <- {<<a, b>> : a \in Kinds, b \in Kinds}
                   \cup {<<"accepted", "frames">>, <<"plain", "length", "plain">>}
HB == INSTANCE StompHeartbeat WITH Offers <- Periods \X Periods, Configs <- Periods \X Periods,
        alive <- beating
SR == INSTANCE StompRelay WITH SubIds <- {"a"}, MaxQueued <- 2, MaxData <- 2,
        MaxSubs <- 2, MaxDials <- 2, Buffer <- 2,
        active <- browser, subs <- relaySubs, link <- upstream, wire <- tcp, got <- relayed

(* The parts that do not move rest in one of their initial states.         *)
MCInit ==
  /\ part \in Parts
  /\ Init /\ H1!Init /\ WsInit /\ HB!Init /\ SR!Init
  /\ part # "sse" => kind = "http1"
  /\ part # "h1" => sent = <<"plain", "plain">>
  /\ part # "heartbeat" => client = <<0, 0>> /\ server = <<0, 0>>
MCNext ==
  \/ part = "sse" /\ Next /\ UNCHANGED <<part, h1Vars, wsVars, beatVars, relayVars>>
  \/ part = "h1" /\ H1!Next /\ UNCHANGED <<part, vars, wsVars, beatVars, relayVars>>
  \/ part = "websocket" /\ WsNext /\ UNCHANGED <<part, vars, h1Vars, beatVars, relayVars>>
  \/ part = "heartbeat" /\ HB!Next /\ UNCHANGED <<part, vars, h1Vars, wsVars, relayVars>>
  \/ part = "relay" /\ SR!Next /\ UNCHANGED <<part, vars, h1Vars, wsVars, beatVars>>
MCSpec ==
  /\ MCInit /\ [][MCNext]_<<part, vars, h1Vars, wsVars, beatVars, relayVars>>
  /\ \A p \in Publishers : WF_vars(part = "sse" /\ CallWakeup(p))
  /\ WF_vars(part = "sse" /\ Attach) /\ WF_vars(part = "sse" /\ RunPosted)
  /\ WF_vars(part = "sse" /\ TakeNext) /\ WF_vars(part = "sse" /\ TakeNextEmpty)
  /\ WF_vars(part = "sse" /\ CheckClosed) /\ WF_vars(part = "sse" /\ DetachClose)
  /\ WF_h1Vars(part = "h1" /\ H1!OnWritable)
  /\ WF_wsVars(part = "websocket" /\ DrainTake) /\ WF_wsVars(part = "websocket" /\ DrainCommand)
  /\ WF_wsVars(part = "websocket" /\ DrainFlush)
  /\ WF_beatVars(part = "heartbeat" /\ HB!Pass)
  /\ WF_relayVars(part = "relay" /\ SR!Worker) /\ WF_relayVars(part = "relay" /\ SR!BrokerReads)

(* However a peer's bytes are cut, each HTTP/1.1 request is answered once, *)
(* in order and with its own body, and what follows an upgrade reaches the *)
(* WebSocket session.                                                      *)
RequestsAnswered == part = "h1" => H1!RequestsFramed /\ H1!TypeOK
(* The relay: frames reach the broker at most once, across reconnects, and *)
(* in order on each connection, and a relay with nothing left to send has  *)
(* replayed every active subscription.  Heart-beats, which the endpoint    *)
(* negotiates with the two directions swapped: a client is not timed out   *)
(* while it keeps its promised period, when that is at most twice the      *)
(* server's, and the endpoint keeps the period that it promised in         *)
(* CONNECTED, when the client's is not longer.                             *)
StompSound ==
  /\ part = "relay" => SR!TypeOK /\ SR!InOrderAtMostOnce /\ SR!SubscriptionsReplayed
  /\ part = "heartbeat" => HB!TypeOK /\ HB!ServerBeats /\ HB!PromptClientKept
(* Nobody waits for ever: what an open event stream has accepted is        *)
(* delivered while its transport drains, close() ends the response, a      *)
(* connection that is not to be kept alive is closed once its answers are  *)
(* sent, a STOMP client that falls silent is timed out, when the server has*)
(* promised heart-beats, and the relay's worker ends once the browser's    *)
(* session has closed.                                                     *)
WaitsEnd ==
  /\ AcceptedIsDelivered /\ CloseEndsResponse /\ H1!ClosedWhenDone
  /\ HB!SilentClientCaught /\ SR!WorkerEnds
==============================================================================
