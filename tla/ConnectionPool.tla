---------------------------- MODULE ConnectionPool ----------------------------
(***************************************************************************)
(* The connection pools of the PostgreSQL and SQLite data sources: a queue *)
(* of idle connections under one mutex, a condition variable with a        *)
(* deadline, and leases whose deleter returns the connection.  A critical  *)
(* section is one step; opening a replacement for a broken connection      *)
(* happens inside it.  A client may hold leases while it asks for another  *)
(* (a nested RequiresNew).                                                 *)
(***************************************************************************)
EXTENDS Naturals, Sequences, FiniteSets

CONSTANTS Clients,   \* threads that use the data source
          Conns,     \* physical connections; a finished one may come back
          PoolSize,  \* pool_size_
          MaxHeld,   \* bound of the model: leases of one client at a time
          Driver     \* "postgresql" or "sqlite"

ASSUME PoolAssumption ==
  /\ IsFiniteSet(Clients) /\ IsFiniteSet(Conns)
  /\ PoolSize \in Nat \ {0} /\ PoolSize <= Cardinality(Conns)
  /\ MaxHeld \in Nat

VARIABLES idle,    \* PoolState::connections
          open,    \* connections that are not finished
          broken,  \* connections whose status is no longer CONNECTION_OK
          held,    \* leases of each client
          closed,  \* PoolState::closed
          pc       \* each client: "out", or in get_connection as below

vars == <<idle, open, broken, held, closed, pc>>

(* "awake" and "expired" are about to evaluate the predicate of wait_for,  *)
(* the latter for the last time; "asleep" waits on the condition variable. *)
States == {"out", "awake", "asleep", "expired"}

Elems(s) == {s[i] : i \in 1..Len(s)}
Idle == Elems(idle)
InState(S) == {c \in Clients : pc[c] \in S}

TypeOK ==
  /\ idle \in Seq(Conns) /\ Idle \subseteq open
  /\ open \subseteq Conns /\ broken \subseteq open
  /\ held \in [Clients -> SUBSET open]
  /\ closed \in BOOLEAN
  /\ pc \in [Clients -> States]

Distinct(s) == \A i, j \in 1..Len(s) : s[i] = s[j] => i = j

Init ==
  /\ idle \in [1..PoolSize -> Conns] /\ Distinct(idle)
  /\ open = Idle /\ broken = {}
  /\ held = [c \in Clients |-> {}]
  /\ closed = FALSE
  /\ pc = [c \in Clients |-> "out"]

-----------------------------------------------------------------------------
(* get_connection                                                          *)

Call(c) ==
  /\ pc[c] = "out" /\ Cardinality(held[c]) < MaxHeld
  /\ pc' = [pc EXCEPT ![c] = "awake"]
  /\ UNCHANGED <<idle, open, broken, held, closed>>

Leaves(c) == pc' = [pc EXCEPT ![c] = "out"]

Finish(k) == open' = open \ {k} /\ broken' = broken \ {k}

PeekFront == UNCHANGED idle
PopFront == idle' = Tail(idle)

Grant(c, k) == held' = [held EXCEPT ![c] = @ \cup {k}] /\ Leaves(c)

(* The front of the queue works, or the driver does not look.              *)
LeaseFront(c) ==
  /\ Head(idle) \notin broken \/ Driver = "sqlite"
  /\ Grant(c, Head(idle))
  /\ UNCHANGED <<open, broken>>

(* A broken front is finished and replaced.                                *)
LeaseReplacement(c) ==
  /\ Head(idle) \in broken /\ Driver = "postgresql"
  /\ \E k \in (Conns \ open) \cup {Head(idle)} :
       /\ open' = (open \ {Head(idle)}) \cup {k}
       /\ Grant(c, k)
  /\ broken' = broken \ {Head(idle)}

(* The replacement fails: the slot is gone and the exception leaves        *)
(* get_connection after a notify_all.                                      *)
LeaseFails(c) ==
  /\ Head(idle) \in broken /\ Driver = "postgresql"
  /\ Finish(Head(idle))
  /\ pc' = [x \in Clients |-> IF x = c THEN "out"
                              ELSE IF pc[x] = "asleep" THEN "awake" ELSE pc[x]]
  /\ UNCHANGED held

Lease(c) ==
  /\ pc[c] \in {"awake", "expired"} /\ ~closed /\ idle # <<>>
  /\ PopFront
  /\ LeaseFront(c) \/ LeaseReplacement(c) \/ LeaseFails(c)
  /\ UNCHANGED closed

Refuse(c) ==
  /\ pc[c] \in {"awake", "expired"} /\ closed
  /\ Leaves(c)
  /\ UNCHANGED <<idle, open, broken, held, closed>>

Sleep(c) ==
  /\ pc[c] = "awake" /\ ~closed /\ idle = <<>>
  /\ pc' = [pc EXCEPT ![c] = "asleep"]
  /\ UNCHANGED <<idle, open, broken, held, closed>>

(* The deadline is a point in time, whatever woke the thread before.       *)
ExpireNever(c) == pc[c] = "expired" /\ UNCHANGED vars
Expire(c) ==
  /\ pc[c] \in {"awake", "asleep"}
  /\ pc' = [pc EXCEPT ![c] = "expired"]
  /\ UNCHANGED <<idle, open, broken, held, closed>>

TimeOut(c) ==
  /\ pc[c] = "expired" /\ ~closed /\ idle = <<>>
  /\ Leaves(c)
  /\ UNCHANGED <<idle, open, broken, held, closed>>

-----------------------------------------------------------------------------
(* The deleter of a lease.                                                 *)

NotifyNone == UNCHANGED pc
NotifyOne ==
  IF InState({"asleep"}) = {} THEN UNCHANGED pc
  ELSE \E w \in InState({"asleep"}) : pc' = [pc EXCEPT ![w] = "awake"]

Queues == ~closed

Release(c, k) ==
  /\ pc[c] = "out" /\ k \in held[c]
  /\ held' = [held EXCEPT ![c] = @ \ {k}]
  /\ IF Queues THEN /\ idle' = Append(idle, k) /\ NotifyOne
                    /\ UNCHANGED <<open, broken>>
               ELSE /\ Finish(k)
                    /\ UNCHANGED <<idle, pc>>
  /\ UNCHANGED closed

EmptyQueue == idle' = <<>>

Close ==
  /\ ~closed /\ closed' = TRUE
  /\ EmptyQueue
  /\ open' = open \ Idle /\ broken' = broken \ Idle
  /\ pc' = [x \in Clients |-> IF pc[x] = "asleep" THEN "awake" ELSE pc[x]]
  /\ UNCHANGED held

(* The server drops a connection.                                          *)
Break(k) ==
  /\ k \in open \ broken
  /\ broken' = broken \cup {k}
  /\ UNCHANGED <<idle, open, held, closed, pc>>

Evaluate(c) == Lease(c) \/ Refuse(c) \/ Sleep(c) \/ TimeOut(c)

Next ==
  \/ \E c \in Clients : Call(c) \/ Evaluate(c) \/ Expire(c)
  \/ \E c \in Clients, k \in Conns : Release(c, k)
  \/ \E k \in Conns : Break(k)
  \/ Close

(* A thread in get_connection runs when it has the mutex, and the deadline *)
(* of its wait passes.  Nobody has to return a lease.                      *)
Fairness == \A c \in Clients : WF_vars(Evaluate(c)) /\ WF_vars(Expire(c))

Spec == Init /\ [][Next]_vars /\ Fairness

-----------------------------------------------------------------------------
(* One owner per connection: it waits once in the queue or belongs to one  *)
(* lease.  No two threads use the same PGconn.                             *)
SoleOwner ==
  /\ Distinct(idle)
  /\ \A c \in Clients : held[c] \cap Idle = {}
  /\ \A c, d \in Clients : c # d => held[c] \cap held[d] = {}

(* Every connection that is not finished is idle or leased, and there are  *)
(* never more than pool_size_: nothing leaks through a broken connection,  *)
(* a failed replacement or a close with leases outstanding.                *)
NothingLeaked ==
  /\ open = Idle \cup UNION {held[c] : c \in Clients}
  /\ Cardinality(open) <= PoolSize

(* "safely close returned leases after datasource shutdown": a closed pool *)
(* keeps no connection, whoever returns one and when.                      *)
ClosedIsEmpty == closed => idle = <<>>

(* Every connection has one owner, and none is lost or kept after close(). *)
ConnectionsAccounted == SoleOwner /\ NothingLeaked /\ ClosedIsEmpty

(* notify_one is enough: whenever a thread sleeps, for every idle          *)
(* connection some other thread is awake that will look at the queue; and  *)
(* nobody sleeps in a closed pool.                                         *)
NoLostWakeup ==
  InState({"asleep"}) # {} =>
    ~closed /\ Len(idle) <= Cardinality(InState({"awake", "expired"}))

(* "bound acquisition time": get_connection always ends, even when every   *)
(* thread holds a lease and waits for another.                             *)
AcquireEnds == \A c \in Clients : (pc[c] # "out") ~> (pc[c] = "out")

(* "Put remaining connections back and propagate": a failed replacement    *)
(* costs the caller an exception and the pool nothing.                     *)
SlotsKept == ~closed => Cardinality(open) = PoolSize
=============================================================================
