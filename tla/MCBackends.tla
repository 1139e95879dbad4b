------------------------------ MODULE MCBackends ------------------------------
(* What an application calls: the connection pool (three threads, two      *)
(* slots, one spare identity for replacements), the transaction manager    *)
(* (one thread, one data source), schema migrations (two processes, three  *)
(* releases of the application) and the REST client (two requests over each*)
(* protocol).  A behaviour moves one of them, chosen at the start.         *)
EXTENDS ConnectionPool, TLC

CONSTANTS Parts, ClientProtocols, ClientAttempts

VARIABLES part, stack, active, storage, tx, raised, crashed,
          ledger, changes, mpc, release, applied, at, starts,
          protocol, link, conn, nextId, waiting, exchanges, req, tokens, cancels, calls, timers,
          reconnectPending, reconnects, got, mishap, failed

migrationVars == <<ledger, changes, mpc, release, applied, at, starts>>
clientVars == <<protocol, link, conn, nextId, waiting, exchanges, req, tokens, cancels, calls,
                timers, reconnectPending, reconnects, got, mishap, failed>>
txVars == <<stack, active, storage, tx, raised, crashed>>

(* The default rules, one with noRollbackFor and one with rollbackFor.     *)
Rules == {[noRollbackFor |-> {}, rollbackFor |-> {}],
          [noRollbackFor |-> {"e1"}, rollbackFor |-> {}],
          [noRollbackFor |-> {}, rollbackFor |-> {"e1"}]}
Tx == INSTANCE TransactionManager WITH DataSources <- {"main"}, Options <- Rules,
        Errors <- {"e1"}, MaxDepth <- 3, MaxTx <- 3

(* The second release adds a migration; the third has edited it, the fourth*)
(* describes it in other words.  The first may find the ledger of an early *)
(* build, which had no checksums.                                          *)
Script(d, c) == [description |-> d, checksum |-> c]
First == 1 :> Script("create", "a")
Declared == {First, First @@ 2 :> Script("add", "b"), First @@ 2 :> Script("add", "c"),
             First @@ 2 :> Script("extend", "b")}
Early == 1 :> [description |-> "create", checksum |-> "legacy", success |-> TRUE]
MG == INSTANCE Migration WITH Runners <- {"p1", "p2"}, Releases <- Declared,
        Ledgers <- {<<>>, Early}, MaxStarts <- 3, pc <- mpc

RC == INSTANCE RestClient WITH Requests <- {"r1", "r2"}, Protocols <- ClientProtocols,
        MaxAttempts <- ClientAttempts, MaxReconnects <- 2, MaxConns <- 2,
        open <- exchanges, stack <- calls, crashed <- failed

MCInit ==
  /\ part \in Parts /\ Init /\ Tx!Init /\ MG!Init /\ RC!Init
  /\ part # "client" => protocol = "h3"
  /\ \A r \in DOMAIN release : release[r] = First
  /\ part \notin {"migration", "migrations"} => ledger = <<>>
  /\ part # "pool" => idle = CHOOSE s \in [1..PoolSize -> Conns] : Distinct(s)
MCNext ==
  \/ part = "pool" /\ Next /\ UNCHANGED <<part, txVars, migrationVars, clientVars>>
  \/ part = "tx" /\ Tx!Next /\ UNCHANGED <<part, vars, migrationVars, clientVars>>
  \/ part \in {"migration", "migrations"} /\ MG!Next /\ (part = "migration" => MG!OneAtATime)
     /\ UNCHANGED <<part, vars, txVars, clientVars>>
  \/ part = "client" /\ RC!Next /\ UNCHANGED <<part, vars, txVars, migrationVars>>
MCSpec ==
  /\ MCInit /\ [][MCNext]_<<part, vars, txVars, migrationVars, clientVars>>
  /\ \A c \in Clients : WF_vars(part = "pool" /\ Evaluate(c)) /\ WF_vars(part = "pool" /\ Expire(c))

(* Transactions follow the nesting of scopes: repositories join that of the*)
(* innermost scope, the open ones are those of the running new scopes, and *)
(* a joined scope runs in an open one.  Whatever crashes, the migration    *)
(* ledger says what has been committed, and a migration is applied once,   *)
(* when processes migrate one at a time; also when they do so at once, a   *)
(* row with success is a committed change and a process that has finished  *)
(* finds what it declares.                                                 *)
ScopesAndLedger ==
  /\ Tx!TypeOK /\ Tx!AmbientIsInnermost /\ Tx!OpenIffRunning /\ Tx!JoinedIsOpen
  /\ MG!TypeOK /\ (part = "migration" => MG!LedgerTruthful) /\ MG!SuccessHonest /\ MG!DoneIsDeclared
(* A joined scope's failure does not pass unnoticed: an exception leaves   *)
(* the outer scope, and the transaction is rolled back unless the outer    *)
(* scope's rules do not roll back for that exception.                      *)
FailureNotCommitted == [][Tx!OuterRollsBack]_txVars
(* The client's header: a timeout closes the connection and reconnects     *)
(* "rather than leaving a suspended task".                                 *)
NoTaskLeftSuspended == RC!NoTaskLeftSuspended
==============================================================================
