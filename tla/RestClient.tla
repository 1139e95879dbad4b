----------------------------- MODULE RestClient -----------------------------
(***************************************************************************)
(* The REST client (client/rest_client.cpp): requests are coroutines that  *)
(* suspend in an entry of the pending map (HTTP/2, HTTP/3) or in the one    *)
(* waiting slot (HTTP/1.1, stream id 0) of one persistent connection, and   *)
(* are resumed by the answer, by a cancellation posted from another thread, *)
(* or by the loss of the connection, which arms the reconnect timer.        *)
(*                                                                          *)
(* Everything runs on the thread of the event loop.  A resumed coroutine    *)
(* runs inside the callback that resumed it and may submit again or lose    *)
(* the connection there, so the activations that are under way are a stack  *)
(* and one step of the model is one step of the topmost activation.  Only   *)
(* Cancel is a step of another thread.                                      *)
(***************************************************************************)
EXTENDS Integers, FiniteSets, Sequences, SequencesExt

CONSTANTS Requests,      \* the requests made through the client
          Protocols,     \* the protocols a client is configured with: "h1", "h2", "h3"
          MaxAttempts,   \* max_request_attempts
          MaxReconnects, \* max_reconnect_attempts
          MaxConns       \* bound: connections made in a behaviour

VARIABLES protocol,  \* cfg_.protocol, fixed
          link,      \* "dialing", "up", "none" (no descriptor) or "closed" (QUIC)
          conn,      \* number of the current connection
          nextId,    \* next stream id, restarts with the connection
          waiting,   \* h2_pending_, pending_ or pending_tcp_handle_
          open,      \* streams the server has to answer: id -> request
          req,       \* the requests' coroutines
          tokens,    \* requests whose cancellation token is cancelled
          cancels,    \* cancellations posted to the loop
          stack,     \* activations on the loop thread, innermost last
          timers, reconnectPending, reconnects, \* reconnect_timer_, reconnect_*_
          got,       \* history: whose answer each request received
          mishap,    \* history: see Mishap below
          crashed    \* a coroutine that is not suspended was resumed

vars == <<protocol, link, conn, nextId, waiting, open, req, tokens, cancels, stack, timers,
          reconnectPending, reconnects, got, mishap, crashed>>
linkVars == <<protocol, link, conn, nextId, open>>
timerVars == <<timers, reconnectPending, reconnects>>

Tcp == protocol \in {"h1", "h2"}
None == "none"
Ended == {"done", "failed", "cancelled", "abandoned"}
NoEntries == [i \in {} |-> None]
Entry(r) == [req |-> r, complete |-> FALSE, cancelled |-> FALSE]
Without(f, i) == [j \in DOMAIN f \ {i} |-> f[j]]
With(f, i, v) == [j \in DOMAIN f \cup {i} |-> IF j = i THEN v ELSE f[j]]

Init ==
  /\ protocol \in Protocols
  /\ link = "dialing" /\ conn = 1 /\ nextId = 1
  /\ waiting = NoEntries /\ open = NoEntries
  /\ req = [r \in Requests |-> [pc |-> "idle", id |-> 0, conn |-> 0, attempt |-> 0]]
  /\ tokens = {} /\ cancels = <<>> /\ stack = <<>>
  /\ timers = 0 /\ reconnectPending = FALSE /\ reconnects = 0
  /\ got = [r \in Requests |-> None]
  /\ mishap = FALSE /\ crashed = FALSE

Frame(kind, r) == [kind |-> kind, req |-> r, todo |-> <<>>]
Top == Last(stack)
Below == Front(stack)
On(kind) == ~crashed /\ stack # <<>> /\ Top.kind = kind

(* The loop takes its next event: nothing runs, or the innermost activation *)
(* is wait_for_connection, which runs the loop itself.                      *)
LoopRuns == ~crashed /\ (stack # <<>> => Top.kind = "wait")

Waiters == {waiting[i].req : i \in DOMAIN waiting}
Ends(r, how) == req' = [req EXCEPT ![r].pc = how]

-----------------------------------------------------------------------------
(* on_disconnect: complete_pending_with_error marks every entry, resumes    *)
(* the waiting coroutines in the order of the map, clears the maps, and the *)
(* connection is torn down afterwards.                                      *)
Disconnect(below) ==
  /\ waiting' = IF protocol = "h1" THEN NoEntries
                ELSE [i \in DOMAIN waiting |-> [waiting[i] EXCEPT !.complete = TRUE]]
  /\ \E order \in SetToSeqs(Waiters) :
       stack' = Append(below, [Frame("disconnect", None) EXCEPT !.todo = order])

ResumeNextLost ==
  /\ On("disconnect") /\ Top.todo # <<>>
  /\ stack' = Below \o <<[Top EXCEPT !.todo = Tail(@)], Frame("resume", Head(Top.todo))>>
  /\ UNCHANGED <<linkVars, waiting, req, tokens, cancels, timerVars, got, mishap, crashed>>

MayArm == ~reconnectPending /\ reconnects < MaxReconnects

Teardown ==
  /\ On("disconnect") /\ Top.todo = <<>>
  /\ stack' = Below
  /\ waiting' = NoEntries
  /\ IF Tcp THEN link' = "none" /\ open' = NoEntries ELSE UNCHANGED <<link, open>>
  /\ reconnectPending' = TRUE
  /\ IF MayArm
     THEN timers' = timers + 1 /\ reconnects' = reconnects + 1
     ELSE UNCHANGED <<timers, reconnects>>
  /\ UNCHANGED <<protocol, conn, nextId, req, tokens, cancels, got, mishap, crashed>>

(* The read side finds the connection closed, reset or failing its          *)
(* handshake; QUIC reports a fatal error or an expiry once.                 *)
ConnectionLost ==
  /\ LoopRuns /\ link \in {"dialing", "up"}
  /\ Disconnect(stack)
  /\ IF Tcp THEN UNCHANGED <<link, open>> ELSE link' = "closed" /\ open' = NoEntries
  /\ UNCHANGED <<protocol, conn, nextId, req, tokens, cancels, timerVars, got, mishap, crashed>>

HandshakeDone ==
  /\ LoopRuns /\ link = "dialing"
  /\ link' = "up"
  /\ reconnects' = IF Tcp THEN reconnects ELSE 0
  /\ UNCHANGED <<protocol, conn, nextId, open, waiting, req, tokens, cancels, stack, timers,
                 reconnectPending, got, mishap, crashed>>

(* do_reconnect.  The loop gets to a posted cancellation within the back-off *)
(* of at least 100 ms.                                                      *)
ReconnectTimer ==
  /\ LoopRuns /\ timers > 0 /\ conn < MaxConns /\ cancels = <<>>
  /\ timers' = timers - 1
  /\ reconnectPending' = FALSE
  /\ conn' = conn + 1 /\ nextId' = 1 /\ open' = NoEntries
  /\ \/ link' = "dialing" /\ UNCHANGED <<waiting, stack>>
     \/ link' = (IF Tcp THEN "none" ELSE "closed") /\ Disconnect(stack)
  /\ UNCHANGED <<protocol, req, tokens, cancels, reconnects, got, mishap, crashed>>

-----------------------------------------------------------------------------
(* async_request_with_retry and async_request.                              *)
InFlight == {r \in Requests : req[r].pc \notin {"idle"} \cup Ended}

(* The one waiting slot of HTTP/1.1 is for one request at a time.           *)
MaxInFlight == IF protocol = "h1" THEN 1 ELSE Cardinality(Requests)

Start(r) ==
  /\ LoopRuns /\ req[r].pc = "idle" /\ Cardinality(InFlight) < MaxInFlight
  /\ IF r \in tokens THEN Ends(r, "cancelled") /\ UNCHANGED stack
     ELSE /\ req' = [req EXCEPT ![r].pc = "running", ![r].attempt = 1]
          /\ stack' = Append(stack, Frame("submit", r))
  /\ UNCHANGED <<linkVars, waiting, tokens, cancels, timerVars, got, mishap, crashed>>

StreamId == IF protocol = "h1" THEN 0 ELSE nextId

(* The registration of the cancellation, which fires at once for a token    *)
(* that is cancelled already, and the suspension in the pending entry.      *)
Suspend(r, id) ==
  /\ waiting' = With(waiting, id, Entry(r))
  /\ req' = [req EXCEPT ![r].pc = "suspended", ![r].id = id, ![r].conn = conn]
  /\ cancels' = IF r \in tokens THEN Append(cancels, id) ELSE cancels

Submit ==
  /\ On("submit") /\ link = "up"
  /\ Suspend(Top.req, StreamId)
  /\ nextId' = nextId + 1
  /\ open' = With(open, StreamId, Top.req)
  /\ stack' = Below
  /\ UNCHANGED <<protocol, link, conn, tokens, timerVars, got, mishap, crashed>>

(* send() fails: write_pending_tcp_data runs on_disconnect, then the        *)
(* coroutine goes on to register and to suspend.                            *)
SubmitWriteFails ==
  /\ On("submit") /\ link = "up" /\ Tcp
  /\ Disconnect(Append(Below, [Frame("register", Top.req) EXCEPT !.todo = <<StreamId>>]))
  /\ nextId' = nextId + 1
  /\ mishap' = TRUE
  /\ UNCHANGED <<protocol, link, conn, open, req, tokens, cancels, timerVars, got, crashed>>

Register ==
  /\ On("register")
  /\ Suspend(Top.req, Top.todo[1])
  /\ stack' = Below
  /\ UNCHANGED <<linkVars, tokens, timerVars, got, mishap, crashed>>

(* wait_for_connection: a connection that is down is an error at once.      *)
SubmitUnconnected ==
  /\ On("submit") /\ link # "up"
  /\ IF link = "dialing" THEN stack' = Append(Below, Frame("wait", Top.req)) /\ UNCHANGED req
     ELSE stack' = Below /\ Ends(Top.req, "failed")
  /\ UNCHANGED <<linkVars, waiting, tokens, cancels, timerVars, got, mishap, crashed>>

WaitEnds ==
  /\ On("wait")
  /\ \/ link = "up" /\ stack' = Append(Below, Frame("submit", Top.req)) /\ UNCHANGED req
     \/ link # "up" /\ stack' = Below /\ Ends(Top.req, "failed")
  /\ UNCHANGED <<linkVars, waiting, tokens, cancels, timerVars, got, mishap, crashed>>

(* handle.resume(): the coroutine takes its completed entry.  A cancelled   *)
(* entry, or a cancelled token, ends the request; otherwise the retry       *)
(* policy accepts the response or has the request sent again.               *)
Resume ==
  /\ On("resume")
  /\ LET r == Top.req
         i == req[r].id
         mine == i \in DOMAIN waiting /\ waiting[i].complete
     IN IF req[r].pc # "suspended"
        THEN crashed' = TRUE /\ UNCHANGED <<waiting, req, stack, mishap>>
        ELSE /\ UNCHANGED crashed
             /\ waiting' = IF mine THEN Without(waiting, i) ELSE waiting
             /\ \/ /\ Ends(r, IF (mine /\ waiting[i].cancelled) \/ r \in tokens THEN "cancelled"
                              ELSE IF mine \/ protocol = "h1" THEN "done" ELSE "failed")
                   /\ stack' = Below /\ UNCHANGED mishap
                \/ /\ (mine /\ ~waiting[i].cancelled) \/ protocol = "h1"
                   /\ r \notin tokens /\ req[r].attempt < MaxAttempts
                   /\ req' = [req EXCEPT ![r].pc = "running", ![r].attempt = @ + 1]
                   /\ stack' = Append(Below, Frame("submit", r))
                   /\ mishap' = (mishap \/ (Below # <<>> /\ Last(Below).kind = "disconnect"))
  /\ UNCHANGED <<linkVars, tokens, cancels, timerVars, got>>

-----------------------------------------------------------------------------
(* An entry whose response is there; the single slot of HTTP/1.1 is free.   *)
Completed(i) == IF protocol = "h1" THEN NoEntries ELSE [waiting EXCEPT ![i].complete = TRUE]
(* The server's answer to a stream: h2_on_stream_close_cb, the HTTP/3       *)
(* response callback, try_parse_http1_response.                             *)
Answer(i) ==
  /\ LoopRuns /\ link = "up" /\ i \in DOMAIN open
  /\ open' = Without(open, i)
  /\ IF i \in DOMAIN waiting
     THEN /\ got' = [got EXCEPT ![waiting[i].req] = open[i]]
          /\ waiting' = Completed(i)
          /\ stack' = Append(stack, Frame("resume", waiting[i].req))
     ELSE UNCHANGED <<got, waiting, stack>>
  /\ UNCHANGED <<protocol, link, conn, nextId, req, tokens, cancels, timerVars, mishap, crashed>>

(* Another thread cancels the token; the callback of a registration posts.  *)
Cancel(r) ==
  /\ ~crashed /\ r \notin tokens /\ req[r].pc \notin Ended
  /\ tokens' = tokens \cup {r}
  /\ cancels' = IF req[r].pc = "suspended" THEN Append(cancels, req[r].id) ELSE cancels
  /\ UNCHANGED <<linkVars, waiting, req, stack, timerVars, got, mishap, crashed>>

(* The posted callback: on_disconnect for HTTP/1.1; cancel_h2_stream and    *)
(* cancel_h3_stream complete the entry and resume its coroutine.  Sending   *)
(* the RST_STREAM has nghttp2 close the stream, so h2_on_stream_close_cb    *)
(* resumes the coroutine before cancel_h2_stream itself does.               *)
RunPosted ==
  /\ LoopRuns /\ cancels # <<>>
  /\ cancels' = Tail(cancels)
  /\ LET i == Head(cancels)
     IN \/ /\ protocol = "h1"
           /\ Disconnect(stack)
           /\ UNCHANGED <<open, mishap>>
        \/ /\ protocol # "h1" /\ i \in DOMAIN waiting
           /\ waiting' = [waiting EXCEPT ![i].complete = TRUE, ![i].cancelled = TRUE]
           /\ open' = Without(open, i)
           /\ stack' = stack \o (IF protocol = "h2" THEN <<Frame("afterRst", waiting[i].req)>> ELSE <<>>)
                             \o <<Frame("resume", waiting[i].req)>>
           /\ mishap' = (mishap \/ protocol = "h2")
        \/ /\ protocol # "h1" /\ i \notin DOMAIN waiting
           /\ UNCHANGED <<open, waiting, stack, mishap>>
  /\ UNCHANGED <<protocol, link, conn, nextId, req, tokens, timerVars, got, crashed>>

(* The rest of cancel_h2_stream: it resumes the handle of the entry it      *)
(* found before the write.                                                  *)
AfterRst ==
  /\ On("afterRst")
  /\ stack' = Append(Below, Frame("resume", Top.req))
  /\ UNCHANGED <<linkVars, waiting, req, tokens, cancels, timerVars, got, mishap, crashed>>

(* sync_execute: past request_timeout_ms it runs on_disconnect, throws, and *)
(* the task is destroyed.                                                   *)
SyncTimeout(r) ==
  /\ LoopRuns /\ req[r].pc = "suspended"
  /\ Disconnect(Append(stack, Frame("abandon", r)))
  /\ mishap' = (mishap \/ ~Tcp)
  /\ UNCHANGED <<linkVars, req, tokens, cancels, timerVars, got, crashed>>

Abandon ==
  /\ On("abandon")
  /\ stack' = Below
  /\ Ends(Top.req, "abandoned")
  /\ UNCHANGED <<linkVars, waiting, tokens, cancels, timerVars, got, mishap, crashed>>

Next ==
  \/ \E r \in Requests : Start(r) \/ Cancel(r) \/ SyncTimeout(r)
  \/ \E i \in DOMAIN open : Answer(i)
  \/ ConnectionLost \/ HandshakeDone \/ ReconnectTimer \/ RunPosted
  \/ Submit \/ SubmitWriteFails \/ SubmitUnconnected \/ Register \/ WaitEnds
  \/ Resume \/ ResumeNextLost \/ Teardown \/ AfterRst \/ Abandon

Spec == Init /\ [][Next]_vars

-----------------------------------------------------------------------------
TypeOK ==
  /\ link \in {"dialing", "up", "none", "closed"} /\ conn \in 1..MaxConns /\ nextId \in Nat
  /\ \A i \in DOMAIN waiting : waiting[i] \in [req : Requests, complete : BOOLEAN, cancelled : BOOLEAN]
  /\ \A i \in DOMAIN open : open[i] \in Requests
  /\ \A r \in Requests : req[r].pc \in {"idle", "running", "suspended"} \cup Ended
  /\ timers \in Nat /\ reconnectPending \in BOOLEAN /\ reconnects \in 0..MaxReconnects

(* "... rather than leaving a suspended task": once the loop is back at its *)
(* poll, a request that is suspended waits in the entry of its stream on    *)
(* the connection that is up, so its answer or the end of that connection   *)
(* will resume it.                                                          *)
NoTaskLeftSuspended ==
  (stack = <<>> /\ ~crashed) =>
    \A r \in Requests : req[r].pc = "suspended" =>
      /\ link = "up" /\ req[r].conn = conn
      /\ req[r].id \in DOMAIN waiting /\ waiting[req[r].id].req = r

(* The cases in which the code does leave one behind, or resumes one twice: *)
(* the write of a submit fails; a retry is submitted from within            *)
(* on_disconnect; a synchronous timeout on HTTP/3, which keeps its          *)
(* connection until the timer replaces it; a cancellation on HTTP/2.        *)
Mishap == mishap

(* Otherwise no coroutine is resumed that is not suspended, and none is     *)
(* left behind: answers, the loss of the connection, reconnects,            *)
(* cancellations and requests that wait for the handshake in a nested run   *)
(* of the loop do not get in each other's way.                              *)
TasksResumedOnce == ~Mishap => ~crashed /\ NoTaskLeftSuspended

(* The answer a request returns is the answer to that request, although     *)
(* stream ids start again with every connection.                            *)
AnswersMatch == \A r \in Requests : got[r] \in {None, r}

(* At most one reconnect timer is armed, and a client without a connection  *)
(* has one until its attempts are used up.                                  *)
ReconnectArmed ==
  /\ timers <= 1
  /\ ~Mishap /\ stack = <<>> /\ link \in {"none", "closed"} => timers = 1 \/ reconnects >= MaxReconnects
=============================================================================
