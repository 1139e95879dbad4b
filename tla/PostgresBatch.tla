----------------------------- MODULE PostgresBatch -----------------------------
(***************************************************************************)
(* PostgresConnection::execute_batch (db/drivers/postgres): one statement  *)
(* for several parameter sets through libpq's pipeline mode, on a pooled   *)
(* connection that the next lessee uses with execute().                    *)
(*                                                                         *)
(* libpq and the server are external: a pipeline up to its sync is one     *)
(* implicit transaction, the first error aborts the rest of it, and        *)
(* PQgetResult yields a result per command and one for the sync.  When the *)
(* connection is lost it yields one error, then null for ever without      *)
(* being busy; or it is busy, and poll reports the hang-up.  A statement   *)
(* in pipeline mode is refused before the socket is touched.               *)
(***************************************************************************)
EXTENDS Integers, Sequences, FiniteSets

CONSTANTS MaxSets,    \* parameter sets of a batch
          MaxBatches  \* bound of the model: batches over a run

VARIABLES conn,       \* PGconn: alive (socket), ok (PQstatus), pipeline, nonblocking
          pc,         \* where execute_batch is
          size, sent, \* parameter sets; those PQsendQueryPrepared took
          queue,      \* results libpq will yield
          rows,       \* affected_rows.size()
          failed, sawSync,
          table,      \* parameter sets of this batch that the server committed
          batches,    \* history: batches begun
          refused,    \* history: a statement was refused by pipeline mode
          hungUp      \* history: poll has ended the draining of a batch

vars == <<conn, pc, size, sent, queue, rows, failed, sawSync, table, batches, refused, hungUp>>

Fresh == [alive |-> TRUE, ok |-> TRUE, pipeline |-> FALSE, nonblocking |-> FALSE]

Init ==
  /\ conn = Fresh /\ pc = "pooled" /\ size = 0 /\ sent = 0 /\ queue = <<>> /\ rows = 0
  /\ failed = FALSE /\ sawSync = FALSE /\ table = {} /\ batches = 0 /\ refused = FALSE /\ hungUp = FALSE

At(l) == pc = l
Goto(l) == pc' = l
(* I/O that finds the socket dead marks the connection bad.                *)
Broken == [conn EXCEPT !.ok = FALSE]
batch == <<size, batches, refused, hungUp>>

-----------------------------------------------------------------------------
(* get_connection: a connection that is not CONNECTION_OK is replaced.     *)
Leased == IF conn.ok THEN conn ELSE Fresh

(* execute_batch of an empty list returns at once.  Otherwise the prepare, *)
(* entering the pipeline and the switch to non-blocking, each of which may *)
(* fail; after the last the pipeline is left again.                        *)
Start(n) ==
  /\ At("pooled") /\ batches < MaxBatches
  /\ batches' = batches + 1 /\ size' = n /\ sent' = 0 /\ rows' = 0 /\ table' = {} /\ queue' = <<>>
  /\ failed' = FALSE /\ sawSync' = FALSE
  /\ conn' = Leased /\ Goto(IF n = 0 THEN "returned" ELSE "prepare")
  /\ UNCHANGED <<refused, hungUp>>
Prepare ==
  /\ At("prepare")
  /\ \/ ~conn.pipeline /\ conn.alive /\ UNCHANGED <<conn, refused>> /\ pc' \in {"enter", "thrown"}
     \/ ~conn.pipeline /\ ~conn.alive /\ conn' = Broken /\ UNCHANGED refused /\ Goto("thrown")
     \/ conn.pipeline /\ refused' = TRUE /\ UNCHANGED conn /\ Goto("thrown")
  /\ UNCHANGED <<size, sent, queue, rows, failed, sawSync, table, batches, hungUp>>
Enter ==
  /\ At("enter")
  /\ \/ conn' = [conn EXCEPT !.pipeline = TRUE, !.nonblocking = TRUE] /\ Goto("send")
     \/ UNCHANGED conn /\ Goto("thrown")
  /\ UNCHANGED <<sent, queue, rows, failed, sawSync, table, batch>>

(* PQsendQueryPrepared per set, up to one that fails, then PQpipelineSync, *)
(* in any case.  On the sync the server runs what it was sent: bad is the  *)
(* first set it refuses.                                                   *)
Send ==
  /\ At("send") /\ sent < size /\ ~failed
  /\ \/ sent' = sent + 1 /\ UNCHANGED failed
     \/ failed' = TRUE /\ UNCHANGED sent
  /\ UNCHANGED <<conn, pc, queue, rows, sawSync, table, batch>>
Results(bad) == [i \in 1 .. sent + 1 |->
  IF i = sent + 1 THEN "sync" ELSE IF bad = 0 \/ i < bad THEN "ok" ELSE IF i = bad THEN "error" ELSE "aborted"]
Sync ==
  /\ At("send") /\ (sent = size \/ failed)
  /\ \/ conn.alive /\ \E bad \in 0 .. sent :
          /\ queue' = Results(bad) /\ table' = IF bad = 0 THEN 1 .. sent ELSE {}
          /\ UNCHANGED <<failed, conn>>
     \/ ~conn.alive /\ failed' = TRUE /\ conn' = Broken /\ UNCHANGED <<queue, table>>
     \/ ~conn.alive /\ queue' = <<"lost">> /\ UNCHANGED <<failed, conn, table>>
  /\ Goto(IF failed' THEN "drain" ELSE "flush")
  /\ UNCHANGED <<sent, rows, sawSync, batch>>

(* The connection may be lost at any time; results that did not come do    *)
(* not come any more, and it is open whether the server got to its commit. *)
Lose ==
  /\ pc \in {"pooled", "send", "flush", "drain"} /\ conn.alive
  /\ conn' = [conn EXCEPT !.alive = FALSE]
  /\ queue' = IF queue = <<>> THEN <<>> ELSE <<"lost">>
  /\ \/ UNCHANGED table
     \/ table' = {} /\ rows = 0
  /\ UNCHANGED <<pc, sent, rows, failed, sawSync, batch>>

(* PQflush until all is out; it fails, or poll does, which marks nothing.  *)
Flush ==
  /\ At("flush") /\ Goto("drain")
  /\ IF conn.alive THEN UNCHANGED <<failed, conn>> ELSE failed' = TRUE /\ conn' \in {conn, Broken}
  /\ UNCHANGED <<sent, queue, rows, sawSync, table, batch>>

(* Mutant: draining stops at the first failure.                            *)
DrainingUntilFailure == ~sawSync /\ ~failed
Draining == ~sawSync
(* consume_result.                                                         *)
Consume ==
  /\ At("drain") /\ Draining /\ queue # <<>>
  /\ queue' = Tail(queue)
  /\ rows' = IF Head(queue) = "ok" THEN rows + 1 ELSE rows
  /\ sawSync' = (Head(queue) = "sync")
  /\ failed' = (failed \/ Head(queue) \notin {"ok", "sync"})
  /\ conn' = IF Head(queue) = "lost" THEN Broken ELSE conn
  /\ UNCHANGED <<pc, sent, table, batch>>
(* Null and busy: poll, which fails when the peer hung up.  Nothing marks  *)
(* the connection bad.                                                     *)
HungUp ==
  /\ At("drain") /\ Draining /\ queue = <<"lost">>
  /\ failed' = TRUE /\ hungUp' = TRUE /\ Goto("exit")
  /\ UNCHANGED <<conn, size, sent, queue, rows, sawSync, table, batches, refused>>
Drained ==
  /\ At("drain") /\ ~Draining /\ Goto("exit")
  /\ UNCHANGED <<conn, sent, queue, rows, failed, sawSync, table, batch>>

(* PQexitPipelineMode, only after the sync, and it refuses while results   *)
(* are left; then blocking mode, and the outcome.                          *)
Exit ==
  LET left == sawSync /\ queue = <<>>
  IN /\ At("exit")
     /\ conn' = [conn EXCEPT !.pipeline = ~left, !.nonblocking = FALSE]
     /\ Goto(IF left /\ ~failed /\ rows = size THEN "returned" ELSE "thrown")
     /\ UNCHANGED <<sent, queue, rows, failed, sawSync, table, batch>>

(* The lease ends; the next lessee executes a statement.                   *)
Release ==
  /\ pc \in {"returned", "thrown"} /\ Goto("execute") /\ conn' = Leased
  /\ UNCHANGED <<sent, queue, rows, failed, sawSync, table, batch>>
Execute ==
  /\ At("execute") /\ Goto("pooled")
  /\ conn' = IF conn.alive \/ conn.pipeline THEN conn ELSE Broken
  /\ refused' = (refused \/ conn.pipeline)
  /\ UNCHANGED <<size, sent, queue, rows, failed, sawSync, table, batches, hungUp>>

Next ==
  \/ \E n \in 0 .. MaxSets : Start(n)
  \/ Prepare \/ Enter \/ Send \/ Sync \/ Lose \/ Flush \/ Consume \/ HungUp \/ Drained \/ Exit
  \/ Release \/ Execute
Spec == Init /\ [][Next]_vars

-----------------------------------------------------------------------------
(* A batch returns only when the server committed every parameter set, one *)
(* result for each.  When it throws after the sync, the server committed   *)
(* none, or, if a send failed, the sets that were sent before it: the sync *)
(* that ends the pipeline commits them.  A connection that still works     *)
(* goes back to the pool out of pipeline mode, blocking, and no later      *)
(* statement is refused for being in one, unless poll reported a hang-up   *)
(* while results were read: that connection stays CONNECTION_OK, in        *)
(* pipeline mode and in the pool.                                          *)
BatchSound ==
  /\ At("returned") => rows = size /\ table = 1 .. size
  /\ At("thrown") /\ sawSync => table = {} \/ (sent < size /\ table = 1 .. sent)
  /\ pc \in {"returned", "thrown", "execute", "pooled"} /\ conn.alive =>
       ~conn.pipeline /\ ~conn.nonblocking
  /\ refused => hungUp
=============================================================================
