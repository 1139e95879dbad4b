---------------------------- MODULE ShutdownDrain ----------------------------
(***************************************************************************)
(* ShutdownCoordinator::drain_for with the two participants every server   *)
(* has: the HTTP drain gate, first middleware of the pipeline, and the     *)
(* registry of the server's WebSocket sessions.                            *)
(*                                                                         *)
(* Requests run on the shard threads, the coordinator on the thread that   *)
(* called stop().  The gate's test of accepting_ and the increment of      *)
(* active_ are two atomic operations, and so are the drained() hooks of    *)
(* two participants.  A WebSocket upgrade is decided by the router without *)
(* the pipeline and never passes the gate.  A session leaves the registry  *)
(* when its Connection is destroyed.  stop() runs the drain once.          *)
(***************************************************************************)
EXTENDS Naturals, FiniteSets

CONSTANTS Requests,  \* requests in flight at the same time (shard threads)
          Sessions   \* WebSocket sessions that may be opened

VARIABLES accepting, active,  \* HttpDrainGate
          rpc,       \* request: "idle", "checked" (passed the test), "inside"
          registry,  \* SessionRegistry::sessions_
          conn,      \* Connection of a session: "none", "open", "gone"
          closing,   \* sessions whose handle is not active(): a Close is queued or sent
          told,      \* sessions that the drain has told to close
          dpc,       \* where drain_for is
          expired,   \* the deadline has passed
          forced,    \* forced_participants
          gap        \* history: requests in the gate when drained() last read no request

gateVars == <<accepting, active, rpc, gap>>
wsVars == <<registry, conn, closing, told>>
vars == <<gateVars, wsVars, dpc, expired, forced>>

TypeOK ==
  /\ accepting \in BOOLEAN
  /\ active \in 0..Cardinality(Requests)
  /\ rpc \in [Requests -> {"idle", "checked", "inside"}]
  /\ registry \subseteq Sessions
  /\ conn \in [Sessions -> {"none", "open", "gone"}]
  /\ closing \subseteq Sessions /\ told \subseteq closing
  /\ dpc \in {"idle", "stopWs", "pollHttp", "pollWs", "deadline", "forceHttp", "forceWs",
              "drained", "forced"}
  /\ expired \in BOOLEAN
  /\ forced \subseteq {"http-requests", "websocket-sessions"}
  /\ gap \subseteq Requests

Init ==
  /\ accepting = TRUE /\ active = 0
  /\ rpc = [r \in Requests |-> "idle"]
  /\ registry = {} /\ closing = {} /\ told = {}
  /\ conn = [w \in Sessions |-> "none"]
  /\ dpc = "idle" /\ expired = FALSE /\ forced = {}
  /\ gap = {}

-----------------------------------------------------------------------------
(* HttpDrainGate::handle.  A request that finds the gate closed gets 503.  *)

GateRefuses == ~accepting

GateCheck(r) ==
  /\ rpc[r] = "idle"
  /\ ~GateRefuses
  /\ rpc' = [rpc EXCEPT ![r] = "checked"]
  /\ UNCHANGED <<accepting, active, gap, wsVars, dpc, expired, forced>>

GateEnter(r) ==
  /\ rpc[r] = "checked"
  /\ active' = active + 1
  /\ rpc' = [rpc EXCEPT ![r] = "inside"]
  /\ UNCHANGED <<accepting, gap, wsVars, dpc, expired, forced>>

(* next() returns or throws; the guard gives the count back.               *)
GateLeave(r) ==
  /\ rpc[r] = "inside"
  /\ active' = active - 1
  /\ rpc' = [rpc EXCEPT ![r] = "idle"]
  /\ UNCHANGED <<accepting, gap, wsVars, dpc, expired, forced>>

-----------------------------------------------------------------------------
(* WebSocket sessions.                                                     *)

Upgrade(w) ==
  /\ conn[w] = "none"
  /\ conn' = [conn EXCEPT ![w] = "open"]
  /\ registry' = registry \cup {w}
  /\ UNCHANGED <<gateVars, closing, told, dpc, expired, forced>>

(* A handler, a protocol error or the peer's Close starts the close.       *)
StartClosing(w) ==
  /\ conn[w] = "open" /\ w \notin closing
  /\ closing' = closing \cup {w}
  /\ UNCHANGED <<gateVars, registry, conn, told, dpc, expired, forced>>

(* The peer answers the Close, or the transport goes away: ~Connection.    *)
Disconnect(w) ==
  /\ conn[w] = "open"
  /\ conn' = [conn EXCEPT ![w] = "gone"]
  /\ registry' = registry \ {w}
  /\ UNCHANGED <<gateVars, closing, told, dpc, expired, forced>>

(* close_all: sessions that are closing already are dropped from the map,  *)
(* the others get a Close and stay.                                        *)
CloseAll ==
  /\ registry' = registry \ closing
  /\ closing' = closing \cup registry
  /\ told' = told \cup (registry \ closing)

-----------------------------------------------------------------------------
(* ShutdownCoordinator::drain_for.                                         *)

StopHttp ==
  /\ dpc = "idle"
  /\ accepting' = FALSE
  /\ dpc' = "stopWs"
  /\ UNCHANGED <<active, rpc, gap, wsVars, expired, forced>>

StopWs ==
  /\ dpc = "stopWs"
  /\ CloseAll
  /\ dpc' = "pollHttp"
  /\ UNCHANGED <<gateVars, conn, expired, forced>>

PollHttp ==
  /\ dpc = "pollHttp"
  /\ dpc' = IF active = 0 THEN "pollWs" ELSE "deadline"
  /\ gap' = IF active = 0 THEN {r \in Requests : rpc[r] = "checked"} ELSE {}
  /\ UNCHANGED <<accepting, active, rpc, wsVars, expired, forced>>

PollWs ==
  /\ dpc = "pollWs"
  /\ dpc' = IF registry = {} THEN "drained" ELSE "deadline"
  /\ gap' = IF registry = {} THEN gap ELSE {}
  /\ UNCHANGED <<accepting, active, rpc, wsVars, expired, forced>>

DeadlinePasses ==
  /\ dpc \notin {"idle", "drained", "forced"} /\ ~expired
  /\ expired' = TRUE
  /\ UNCHANGED <<gateVars, wsVars, dpc, forced>>

CheckDeadlineNever ==
  /\ dpc = "deadline"
  /\ dpc' = "pollHttp"
  /\ UNCHANGED <<gateVars, wsVars, expired, forced>>

CheckDeadline ==
  /\ dpc = "deadline"
  /\ dpc' = IF expired THEN "forceHttp" ELSE "pollHttp"
  /\ UNCHANGED <<gateVars, wsVars, expired, forced>>

(* The gate has no force_close hook.                                       *)
ForceHttp ==
  /\ dpc = "forceHttp"
  /\ forced' = IF active = 0 THEN forced ELSE forced \cup {"http-requests"}
  /\ dpc' = "forceWs"
  /\ UNCHANGED <<gateVars, wsVars, expired>>

ForceWs ==
  /\ dpc = "forceWs"
  /\ IF registry = {} THEN UNCHANGED <<registry, closing, told, forced>>
     ELSE CloseAll /\ forced' = forced \cup {"websocket-sessions"}
  /\ dpc' = "forced"
  /\ UNCHANGED <<gateVars, conn, expired>>

Drain ==
  \/ StopHttp \/ StopWs \/ PollHttp \/ PollWs \/ CheckDeadline \/ ForceHttp \/ ForceWs

Next ==
  \/ \E r \in Requests : GateCheck(r) \/ GateEnter(r) \/ GateLeave(r)
  \/ \E w \in Sessions : Upgrade(w) \/ StartClosing(w) \/ Disconnect(w)
  \/ Drain \/ DeadlinePasses

(* The coordinator's thread is scheduled and time goes on; handlers and    *)
(* peers need not ever finish.                                             *)
Fairness == WF_vars(Drain) /\ WF_vars(DeadlinePasses)

Spec == Init /\ [][Next]_vars /\ Fairness

-----------------------------------------------------------------------------
(* active_ counts the requests inside the pipeline, so that drained() is   *)
(* neither stuck nor early by more than the requests about to enter.       *)
ActiveExact == active = Cardinality({r \in Requests : rpc[r] = "inside"})

(* "Once draining starts, new ... route requests receive 503": the only    *)
(* requests that a successful drain can leave behind are those between the *)
(* gate's test and its count at the moment when drained() read the count.  *)
LeftBehindOnlyInGap == dpc = "drained" => \A r \in Requests : rpc[r] # "idle" => r \in gap

(* A drain that ends as drained has waited for every session that it told  *)
(* to close.  (close_all forgets the sessions that were closing already:   *)
(* their peers get no further time.)                                       *)
DrainWaitsForSessions == dpc = "drained" => \A w \in told : conn[w] = "gone"

(* Participants are forced only when the deadline has passed.              *)
ForcedAfterDeadline == forced # {} => expired

(* The drain ends, whatever requests and peers do.                         *)
DrainEnds == (dpc # "idle") ~> (dpc \in {"drained", "forced"})
=============================================================================
