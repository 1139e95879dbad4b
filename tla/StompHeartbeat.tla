---------------------------- MODULE StompHeartbeat ----------------------------
(***************************************************************************)
(* Heart-beats of one STOMP session: what CONNECT negotiates and what the  *)
(* endpoint's heartbeat thread does with it.  The unit of time is one pass *)
(* of heartbeat_loop (25 ms); last_received_ms and last_sent_ms are kept   *)
(* as the time since then.                                                 *)
(***************************************************************************)
EXTENDS Naturals

CONSTANTS Offers,   \* <<client_outgoing, client_incoming>> clients may ask for
          Configs   \* <<server_outgoing, server_incoming>> of the endpoint

VARIABLES client, server,      \* the two pairs of periods
          outgoing, incoming,  \* ConnectionState: 0 is none
          state,               \* "new", "connected", "expired"
          alive,               \* the client still sends
          quiet,               \* time since the endpoint received something
          mute                 \* time since the heartbeat thread sent something

vars == <<client, server, outgoing, incoming, state, alive, quiet, mute>>

Larger(a, b) == IF a >= b THEN a ELSE b
Period(a, b) == IF a = 0 \/ b = 0 THEN 0 ELSE Larger(a, b)

(* What the two sides promise each other in CONNECT and CONNECTED.         *)
ClientPromise == Period(client[1], server[2])
ServerPromise == Period(server[1], client[2])

TypeOK ==
  /\ client \in Offers /\ server \in Configs
  /\ outgoing \in Nat /\ incoming \in Nat
  /\ state \in {"new", "connected", "expired"}
  /\ alive \in BOOLEAN /\ quiet \in Nat /\ mute \in Nat
  /\ incoming > 0 => quiet <= 2 * incoming + 1
  /\ outgoing > 0 => mute < outgoing

Init ==
  /\ client \in Offers /\ server \in Configs
  /\ outgoing = 0 /\ incoming = 0
  /\ state = "new" /\ alive = TRUE /\ quiet = 0 /\ mute = 0

Connect ==
  /\ state = "new" /\ state' = "connected"
  /\ outgoing' = Period(client[1], server[2])
  /\ incoming' = Period(client[2], server[1])
  /\ quiet' = 0 /\ mute' = 0
  /\ UNCHANGED <<client, server, alive>>

(* A frame or a bare newline from the client: on_message.                  *)
ClientFrame ==
  /\ state = "connected" /\ alive
  /\ quiet' = 0
  /\ UNCHANGED <<client, server, outgoing, incoming, state, alive, mute>>

ClientStops ==
  /\ state = "connected" /\ alive /\ alive' = FALSE
  /\ UNCHANGED <<client, server, outgoing, incoming, state, quiet, mute>>

(* Ages beyond every limit are not told apart.                             *)
Older(age, limit) == IF age > 2 * limit \/ limit = 0 THEN age ELSE age + 1

Silent(age) == incoming > 0 /\ age > incoming * 2
Due(age) == outgoing > 0 /\ age >= outgoing

(* One pass of heartbeat_loop, one unit of time after the last.  A client  *)
(* that is alive sends before its promised period is over.                 *)
Pass ==
  /\ state = "connected"
  /\ alive /\ ClientPromise > 0 => quiet < ClientPromise
  /\ quiet' = Older(quiet, incoming)
  /\ IF Silent(quiet')
     THEN state' = "expired" /\ mute' = 0
     ELSE /\ mute' = IF Due(mute + 1) THEN 0 ELSE Older(mute, outgoing)
          /\ UNCHANGED state
  /\ UNCHANGED <<client, server, outgoing, incoming, alive>>

Next == Connect \/ ClientFrame \/ ClientStops \/ Pass

(* The heartbeat thread keeps running.                                     *)
Fairness == WF_vars(Pass)
Spec == Init /\ [][Next]_vars /\ Fairness

-----------------------------------------------------------------------------
(* Connect takes each direction's period for the other one: the endpoint   *)
(* beats at the period of the client's promise and expects the client to   *)
(* keep the one of its own.  The properties hold for the sessions in which *)
(* that is strict enough, whatever the four periods are.                   *)

(* A client that keeps the period it promised in CONNECT is not timed out  *)
(* by heartbeat_loop, if that period is not more than twice the server's.  *)
PromptClientKept ==
  state = "expired" /\ ClientPromise \in 1..(2 * ServerPromise) => ~alive

(* The endpoint keeps the period it promised in CONNECTED, if the client's *)
(* is not longer.                                                          *)
ServerBeats ==
  state = "connected" /\ ClientPromise \in 1..ServerPromise =>
    outgoing > 0 /\ mute <= ServerPromise

(* A client that falls silent is timed out, if the server promised         *)
(* heart-beats.                                                            *)
SilentClientCaught ==
  (state = "connected" /\ ~alive /\ ServerPromise > 0) ~> (state = "expired")

=============================================================================
