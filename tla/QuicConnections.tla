---------------------------- MODULE QuicConnections ----------------------------
(***************************************************************************)
(* The QUIC connections of a shard: ConnectionManager (the map from        *)
(* connection ids to connections, accepting and cleanup) and QuicConnection*)
(* (reading, writing, the expiry timer), with the SSE wakeups that the     *)
(* shard posts for a connection.  Everything runs on the loop thread;      *)
(* packets, timers, posted tasks and the 5 second cleanup come in any      *)
(* order.                                                                  *)
(*                                                                         *)
(* ngtcp2 is external: it decides what a packet does to a connection, has  *)
(* a next deadline or none, and reports an error for a bad packet, for a   *)
(* write that a stream's flow control stops, and for the idle timeout.     *)
(* Connection ids that the server makes are random and taken as fresh.     *)
(***************************************************************************)
EXTENDS Integers, FiniteSets

CONSTANTS Conns,  \* connections accepted over a run
          Cids    \* connection ids

VARIABLES conn,     \* connection -> record, see NoConn
          cidMap,   \* cid_map_: cid -> connection
          timers,   \* armed timers whose callback holds the connection
          posted,   \* connections with a posted SSE wakeup
          stray     \* history: a posted task has run for a removed connection

vars == <<conn, cidMap, timers, posted, stray>>

(* state: ngtcp2's.  handle: expiry_timer_, whose timer is armed           *)
(* ("current") or has fired or been cancelled ("spent").                   *)
NoConn == [state |-> "none", closed |-> FALSE, h3 |-> FALSE, handle |-> "none"]
Exists(c) == conn[c].state \notin {"none", "gone"}
IsDraining(r) == r.state = "draining"
IsClosed(r) == r.closed \/ r.state = "closing"

Init ==
  /\ conn = [c \in Conns |-> NoConn] /\ cidMap = [k \in {} |-> 0]
  /\ timers = [c \in Conns |-> 0] /\ posted = {} /\ stray = FALSE

Mapped(m, k, c) == [j \in DOMAIN m \cup {k} |-> IF j = k THEN c ELSE m[j]]
Known(m) == {m[j] : j \in DOMAIN m}
Unmapped(m, gone) == [j \in DOMAIN m \ gone |-> m[j]]
(* Ids are interchangeable: the lowest unknown ones stand for random ones. *)
Fresh == Cids \ DOMAIN cidMap
Lowest(ids) == CHOOSE k \in ids : \A j \in ids : k <= j

(* update_timer: the old timer is cancelled and a new one armed, unless    *)
(* ngtcp2 has no deadline.  The results are pairs <<record, timers>>.      *)
Rearm(r, left) ==
  {<<[r EXCEPT !.handle = "current"], left + 1>>,
   <<[r EXCEPT !.handle = IF @ = "none" THEN @ ELSE "spent"], left>>}
UpdateTimer(r, n) == Rearm(r, IF r.handle = "current" THEN n - 1 ELSE n)

(* on_write: nothing for a closed or draining connection; an error of a    *)
(* write returns before the timer is updated.                              *)
OnWrite(r, n) ==
  IF IsClosed(r) \/ IsDraining(r) THEN {<<r, n>>} ELSE {<<r, n>>} \cup UpdateTimer(r, n)
Written(results) == UNION {OnWrite(x[1], x[2]) : x \in results}

(* on_read: the packet is fine and may complete the handshake, whose       *)
(* callback makes the HTTP/3 session or closes the connection; or it       *)
(* carries CONNECTION_CLOSE; or it is an error.                            *)
Handshaken(r) ==
  IF r.state # "handshake" THEN {}
  ELSE {[r EXCEPT !.state = "open", !.h3 = TRUE], [r EXCEPT !.state = "closing", !.closed = TRUE]}
ReadOk(r, n) == UNION {UpdateTimer(p, n) : p \in {r} \cup Handshaken(r)}
ReadFailed(r, n) == UNION {OnWrite([r EXCEPT !.state = s], n) : s \in {"draining", "failed"}}

Becomes(c, result) ==
  /\ conn' = [conn EXCEPT ![c] = result[1]]
  /\ timers' = [timers EXCEPT ![c] = result[2]]

(* on_packet for a known id.  A GRO packet is one such step per segment.   *)
OnPacketKnown(c) ==
  /\ c \in Known(cidMap)
  /\ ~IsDraining(conn[c])
  /\ \E w \in Written(ReadOk(conn[c], timers[c]) \cup ReadFailed(conn[c], timers[c])) : Becomes(c, w)
  /\ UNCHANGED <<cidMap, posted, stray>>

(* QuicConnection::create: a server connection that waits for a handshake. *)
Created == [NoConn EXCEPT !.state = "handshake"]
(* on_packet for an unknown id: an Initial makes a connection, known by    *)
(* the client's id and by its own; it is written to if the read went well. *)
OnPacketInitial(c) ==
  /\ Cardinality(Fresh) >= 2 /\ conn[c].state = "none" /\ \A b \in Conns : b < c => conn[b].state # "none"
  /\ LET k == Lowest(Fresh)
     IN cidMap' = Mapped(Mapped(cidMap, Lowest(Fresh \ {k}), c), k, c)
  /\ \E w \in Written(ReadOk(Created, 0)) \cup ReadFailed(Created, 0) : Becomes(c, w)
  /\ UNCHANGED <<posted, stray>>

(* get_new_connection_id and remove_connection_id, called by ngtcp2 while  *)
(* it reads or writes.                                                     *)
NewCid(c) ==
  /\ conn[c].state = "open" /\ Fresh # {}
  /\ cidMap' = Mapped(cidMap, Lowest(Fresh), c)
  /\ UNCHANGED <<conn, timers, posted, stray>>
RetireCid(k) ==
  /\ k \in DOMAIN cidMap /\ conn[cidMap[k]].state = "open"
  /\ cidMap[k] \in Known(Unmapped(cidMap, {k}))
  /\ cidMap' = Unmapped(cidMap, {k})
  /\ UNCHANGED <<conn, timers, posted, stray>>

(* The timer's callback: handle_expiry, whose error (the idle timeout, for *)
(* one) ends it before on_write.                                           *)
Expire(c) ==
  /\ timers[c] > 0
  /\ LET r == [conn[c] EXCEPT !.handle = "spent"]
     IN IF ~Exists(c) THEN UNCHANGED conn /\ timers' = [timers EXCEPT ![c] = @ - 1]
        ELSE \/ \E w \in OnWrite(r, timers[c] - 1) : Becomes(c, w)
             \/ Becomes(c, <<[r EXCEPT !.state = IF @ \in {"handshake", "open"} THEN "idle" ELSE @],
                          timers[c] - 1>>)
  /\ UNCHANGED <<cidMap, posted, stray>>

(* schedule_cleanup, cleanup, remove_connection and ~QuicConnection.       *)
Removable(r) == IsClosed(r) \/ IsDraining(r)
UnmapRemoved(gone) == Unmapped(cidMap, {k \in DOMAIN cidMap : cidMap[k] \in gone})
Cleanup ==
  LET gone == {c \in Conns : Exists(c) /\ Removable(conn[c])}
  IN /\ gone # {}
     /\ cidMap' = UnmapRemoved(gone)
     /\ conn' = [c \in Conns |-> IF c \in gone THEN [NoConn EXCEPT !.state = "gone"] ELSE conn[c]]
     /\ timers' = [c \in Conns |-> IF c \in gone /\ conn[c].handle = "current" THEN timers[c] - 1 ELSE timers[c]]
     /\ UNCHANGED <<posted, stray>>

(* An SSE channel of the connection wakes the loop: the shard posts a task *)
(* that refers to the connection.  The session's end clears the wakeup.    *)
Publish(c) ==
  /\ Exists(c) /\ conn[c].h3
  /\ posted' = posted \cup {c}
  /\ UNCHANGED <<conn, cidMap, timers, stray>>
RunPosted(c) ==
  /\ c \in posted
  /\ posted' = posted \ {c}
  /\ IF Exists(c) THEN (\E w \in OnWrite(conn[c], timers[c]) : Becomes(c, w)) /\ UNCHANGED stray
     ELSE stray' = TRUE /\ UNCHANGED <<conn, timers>>
  /\ UNCHANGED cidMap

Next ==
  \/ \E k \in Cids : RetireCid(k)
  \/ \E c \in Conns : OnPacketInitial(c) \/ OnPacketKnown(c) \/ NewCid(c) \/ Expire(c) \/ Publish(c) \/ RunPosted(c)
  \/ Cleanup

(* The loop runs its timers and what is posted.                            *)
Fairness == WF_vars(Cleanup) /\ \A c \in Conns : WF_vars(Expire(c)) /\ WF_vars(RunPosted(c))
Spec == Init /\ [][Next]_vars /\ Fairness

-----------------------------------------------------------------------------
TypeOK ==
  /\ \A c \in Conns :
       /\ conn[c].state \in {"none", "handshake", "open", "idle", "failed", "closing", "draining", "gone"}
       /\ timers[c] \in Nat
  /\ DOMAIN cidMap \subseteq Cids /\ posted \subseteq Conns

(* Every id the manager knows belongs to a connection that exists, however *)
(* ids are added, retired and cleaned up, and a connection that exists can *)
(* be reached.                                                             *)
MapLive ==
  Known(cidMap) = {c \in Conns : Exists(c)}

(* A connection has at most one armed timer, the one its handle names, and *)
(* none outlives it.                                                       *)
OneTimer == \A c \in Conns : timers[c] = IF Exists(c) /\ conn[c].handle = "current" THEN 1 ELSE 0

(* A wake-up that is posted is for a connection with an HTTP/3 session, and*)
(* only cleanup can take that connection away before it runs.  (Then it    *)
(* uses what has been destroyed: stray.)                                   *)
StrayOnlyAfterCleanup ==
  /\ \A c \in posted : conn[c].h3 \/ conn[c].state = "gone"
  /\ stray => \E c \in Conns : conn[c].state = "gone"

(* "Connection lifecycle (creation, idle timeout, cleanup)": a connection  *)
(* that has been idle for too long is removed.                             *)
IdleRemoved == \A c \in Conns : conn[c].state = "idle" ~> conn[c].state # "idle"
================================================================================
