-------------------------- MODULE TransactionManager --------------------------
(***************************************************************************)
(* TransactionManager::execute on one thread: nested scopes with the six   *)
(* propagations, the thread's vector of active transactions, and the       *)
(* exceptions that leave the callbacks.  Threads share only the connection *)
(* pool (ConnectionPool).                                                  *)
(*                                                                         *)
(* execute_existing keeps a reference to an element of the vector while    *)
(* its callback runs.  The vector is modelled with its storage: growing    *)
(* past the capacity moves the elements, and using an old reference then   *)
(* dereferences a moved-from shared_ptr (the thread crashes).              *)
(***************************************************************************)
EXTENDS Naturals, Sequences

CONSTANTS DataSources,  \* managers, one per data source
          Options,      \* rollback rules: [noRollbackFor, rollbackFor] of sets of exceptions
          Errors,       \* exceptions of the application
          MaxDepth,     \* bound of the model: nesting of scopes
          MaxTx         \* bound of the model: transactions begun

VARIABLES stack,     \* the running scopes, outermost first
          active,    \* active_transactions_
          storage,   \* of active_transactions_: capacity, and how often it moved
          tx,        \* transactions begun: state, rollback_only, and whether a joined scope failed
          raised,    \* the exception in flight, or "none"
          crashed    \* a dangling reference was used

vars == <<stack, active, storage, tx, raised, crashed>>

Propagations == {"Required", "RequiresNew", "Supports", "NotSupported", "Mandatory", "Never"}
Raisable == Errors \cup {"foreign", "timeout", "unexpected", "logic", "database"}
Entry == [ds : DataSources, id : 1..MaxTx]
Scope == [ds : DataSources, kind : {"new", "join", "plain"}, rules : Options, id : 0..MaxTx,
          at : Nat, moved : Nat, parked : Seq(Entry)]

TypeOK ==
  /\ stack \in Seq(Scope) /\ Len(stack) <= MaxDepth
  /\ active \in Seq(Entry)
  /\ storage \in [capacity : Nat, moves : Nat] /\ Len(active) <= storage.capacity
  /\ tx \in Seq([state : {"open", "committed", "rolledback"}, rollbackOnly : BOOLEAN, failed : BOOLEAN])
  /\ raised \in Raisable \cup {"none"}
  /\ crashed \in BOOLEAN

Init ==
  /\ stack = <<>> /\ active = <<>>
  /\ storage = [capacity |-> 0, moves |-> 0]
  /\ tx = <<>> /\ raised = "none" /\ crashed = FALSE

-----------------------------------------------------------------------------
(* The youngest element of a sequence that belongs to ds; 0 if none does.  *)
Newest(s, ds) ==
  CHOOSE i \in 0..Len(s) : /\ i = 0 \/ s[i].ds = ds
                           /\ \A j \in (i + 1)..Len(s) : s[j].ds # ds

Front(s) == SubSeq(s, 1, Len(s) - 1)
Top == stack[Len(stack)]

(* should_rollback; what is no std::exception ("foreign") always does.     *)
ShouldRollback(rules, e) ==
  \/ e = "foreign"
  \/ e \notin rules.noRollbackFor /\ (rules.rollbackFor = {} \/ e \in rules.rollbackFor)

(* push_back of the guard, and pop_back in its destructor.                 *)
Grow(n) ==
  IF n <= storage.capacity THEN storage
  ELSE [capacity |-> IF storage.capacity = 0 THEN 1 ELSE 2 * storage.capacity,
        moves |-> storage.moves + 1]
GuardPush(e) == active' = Append(active, e) /\ storage' = Grow(Len(active) + 1)
GuardPop == active' = Front(active)

(* SuspendedTransactions takes the entries of ds out and puts them back at *)
(* the end.                                                                *)
Own(s, ds) == SelectSeq(s, LAMBDA e : e.ds = ds)
Others(s, ds) == SelectSeq(s, LAMBDA e : e.ds # ds)

Finish(id, state) == tx' = [tx EXCEPT ![id].state = state]

-----------------------------------------------------------------------------
(* execute: the dispatch on the propagation.                               *)

Enter(scope) == stack' = Append(stack, scope)

NewScope(ds, rules) ==
  /\ Len(tx) < MaxTx
  /\ tx' = Append(tx, [state |-> "open", rollbackOnly |-> FALSE, failed |-> FALSE])
  /\ GuardPush([ds |-> ds, id |-> Len(tx) + 1])
  /\ Enter([ds |-> ds, kind |-> "new", rules |-> rules, id |-> Len(tx) + 1,
            at |-> 0, moved |-> 0, parked |-> <<>>])
  /\ UNCHANGED raised

JoinScope(ds, rules) ==
  LET i == Newest(active, ds) IN
  /\ Enter([ds |-> ds, kind |-> "join", rules |-> rules, id |-> active[i].id,
            at |-> i, moved |-> storage.moves, parked |-> <<>>])
  /\ UNCHANGED <<active, storage, tx, raised>>

PlainScope(ds, rules, parked) ==
  /\ Enter([ds |-> ds, kind |-> "plain", rules |-> rules, id |-> 0,
            at |-> 0, moved |-> 0, parked |-> parked])
  /\ UNCHANGED <<storage, tx, raised>>

Refuse == raised' = "logic" /\ UNCHANGED <<stack, active, storage, tx>>

Execute(ds, propagation, rules) ==
  LET present == Newest(active, ds) # 0 IN
  /\ raised = "none" /\ ~crashed /\ Len(stack) < MaxDepth
  /\ CASE propagation = "Required"     -> IF present THEN JoinScope(ds, rules) ELSE NewScope(ds, rules)
       [] propagation = "RequiresNew"  -> NewScope(ds, rules)
       [] propagation = "Supports"     -> IF present THEN JoinScope(ds, rules)
                                          ELSE PlainScope(ds, rules, <<>>) /\ UNCHANGED active
       [] propagation = "NotSupported" -> /\ PlainScope(ds, rules, Own(active, ds))
                                          /\ active' = Others(active, ds)
       [] propagation = "Mandatory"    -> IF present THEN JoinScope(ds, rules) ELSE Refuse
       [] propagation = "Never"        -> IF present THEN Refuse
                                          ELSE PlainScope(ds, rules, <<>>) /\ UNCHANGED active
  /\ UNCHANGED crashed

(* No connection, or BEGIN fails: nothing was entered.  A NotSupported has *)
(* suspended and restored in between.                                      *)
ExecuteFails(ds) ==
  /\ raised = "none" /\ ~crashed /\ Len(stack) < MaxDepth
  /\ raised' = "database"
  /\ active' \in {active, Others(active, ds) \o Own(active, ds)}
  /\ UNCHANGED <<stack, storage, tx, crashed>>

-----------------------------------------------------------------------------
(* How the callback of the innermost scope ends.                           *)

Throw(e) ==
  /\ raised = "none" /\ ~crashed /\ stack # <<>>
  /\ raised' = e
  /\ UNCHANGED <<stack, active, storage, tx, crashed>>

(* Application code around a scope catches what leaves it.                 *)
Catch ==
  /\ raised # "none" /\ ~crashed
  /\ raised' = "none"
  /\ UNCHANGED <<stack, active, storage, tx, crashed>>

Pop == stack' = Front(stack)

(* commit() or rollback() after a normal return has thrown inside the try  *)
(* block: the rules decide on that exception too, so a second attempt is   *)
(* made, which may succeed; if it does not, ~Transaction rolls back.       *)
SecondAttempt ==
  /\ raised' = "database"
  /\ \/ Finish(Top.id, "rolledback")
     \/ ~ShouldRollback(Top.rules, "database") /\ Finish(Top.id, "committed")

CommitBlindly == Finish(Top.id, "committed") /\ UNCHANGED raised
Commit ==
  \/ IF tx[Top.id].rollbackOnly
     THEN Finish(Top.id, "rolledback") /\ raised' = "unexpected"
     ELSE Finish(Top.id, "committed") /\ UNCHANGED raised
  \/ SecondAttempt

Return ==
  /\ raised = "none" /\ ~crashed /\ stack # <<>>
  /\ Pop
  /\ CASE Top.kind = "new"   -> Commit /\ GuardPop
       [] Top.kind = "join"  -> UNCHANGED <<active, tx, raised>>
       [] Top.kind = "plain" -> active' = active \o Top.parked /\ UNCHANGED <<tx, raised>>
  /\ UNCHANGED <<storage, crashed>>

(* An exception leaves the scope.  "unexpected" passes a new scope without *)
(* a look at the rules and is rolled back by ~Transaction.  For another the*)
(* rules alone decide, rollback_only is not consulted.  If rollback() or   *)
(* commit() throws in the handler, its exception takes the place of the    *)
(* first and ~Transaction rolls back.                                      *)
UnwindNew ==
  /\ \/ /\ Finish(Top.id, IF raised = "unexpected" \/ ShouldRollback(Top.rules, raised)
                          THEN "rolledback" ELSE "committed")
        /\ UNCHANGED raised
     \/ raised # "unexpected" /\ Finish(Top.id, "rolledback") /\ raised' = "database"
  /\ GuardPop /\ UNCHANGED crashed

Marked(i, own) ==
  [[tx EXCEPT ![own].failed = TRUE] EXCEPT ![active[i].id].rollbackOnly = TRUE]

UnwindJoin ==
  /\ UNCHANGED active
  /\ IF ~ShouldRollback(Top.rules, raised) THEN UNCHANGED <<tx, crashed>>
     ELSE IF Top.moved # storage.moves THEN crashed' = TRUE /\ UNCHANGED tx
     ELSE tx' = Marked(Top.at, Top.id) /\ UNCHANGED crashed

UnwindPlainForgetting == UNCHANGED <<active, tx, crashed>>
UnwindPlain == active' = active \o Top.parked /\ UNCHANGED <<tx, crashed>>

Unwind ==
  /\ raised # "none" /\ ~crashed /\ stack # <<>>
  /\ Pop
  /\ CASE Top.kind = "new"   -> UnwindNew
       [] Top.kind = "join"  -> UnwindJoin /\ UNCHANGED raised
       [] Top.kind = "plain" -> UnwindPlain /\ UNCHANGED raised
  /\ UNCHANGED storage

Next ==
  \/ \E ds \in DataSources :
       \/ \E p \in Propagations, rules \in Options : Execute(ds, p, rules)
       \/ ExecuteFails(ds)
  \/ \E e \in Errors \cup {"foreign", "timeout"} : Throw(e)
  \/ Catch \/ Return \/ Unwind

Spec == Init /\ [][Next]_vars

-----------------------------------------------------------------------------
(* The transaction a scope of ds should see: that of the innermost scope   *)
(* of ds, none if that scope runs without a transaction.                   *)
Expected(ds) == LET i == Newest(stack, ds) IN IF i = 0 THEN 0 ELSE stack[i].id
Ambient(ds) == LET i == Newest(active, ds) IN IF i = 0 THEN 0 ELSE active[i].id

(* "Repositories join the ambient transaction": what                       *)
(* current_connection_for(ds) answers is the transaction of the innermost  *)
(* scope of ds, through every nesting, suspension and unwinding.           *)
AmbientIsInnermost == crashed \/ \A ds \in DataSources : Ambient(ds) = Expected(ds)

(* The transactions that are open are exactly those of the running new     *)
(* scopes; each pins a connection until it ends.                           *)
OpenIffRunning ==
  \A id \in 1..Len(tx) :
    (tx[id].state = "open") <=> (\E i \in 1..Len(stack) : stack[i].kind = "new" /\ stack[i].id = id)

(* A joined scope runs in an open transaction, never in one that has ended.*)
JoinedIsOpen ==
  \A i \in 1..Len(stack) : stack[i].kind = "join" => tx[stack[i].id].state = "open"

(* When a joined scope has failed with an exception its rules roll back    *)
(* for, the outer scope never ends as if nothing had happened: an exception*)
(* leaves it, UnexpectedRollbackException if its callback had returned and *)
(* rollback() worked.  The transaction is rolled back, unless the outer    *)
(* scope's own rules do not roll back for the exception that leaves it: the*)
(* handlers of execute_new then commit a transaction that is rollback-only.*)
OuterRollsBack ==
  \A id \in 1..Len(tx) :
    tx[id].failed /\ tx[id].state = "open" /\ tx'[id].state # "open" =>
      /\ raised' # "none"
      /\ tx'[id].state = "rolledback" \/ ~ShouldRollback(Top.rules, raised')
      /\ raised = "none" => raised' \in {"unexpected", "database"}

=============================================================================
