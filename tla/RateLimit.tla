------------------------------ MODULE RateLimit ------------------------------
(***************************************************************************)
(* InMemoryRateLimitStore and the middleware in front of it.  acquire runs *)
(* under the store's mutex, but reads the clock before it takes it: the    *)
(* time it works with may be older than that of the call before.  Times    *)
(* are integers; tokens are counted in fractions of 1/Window, so that the  *)
(* refill of Limit tokens per Window is exact.                             *)
(***************************************************************************)
EXTENDS Naturals, Sequences, FiniteSets

CONSTANTS Keys,        \* what the key resolver may return
          Watched,     \* the key whose history is kept; keys are interchangeable
          Algorithms,  \* the policy uses one of them
          Limit, Window, Burst,  \* RateLimitPolicy (Burst: burst_capacity)
          MaxKeys, IdleTtls,     \* InMemoryRateLimitStore::Config: max_keys, values of idle_ttl
          Second,      \* units of time in a second
          Skew,        \* how old a clock reading can be when it is used
          Start,       \* the clock when the store is created, counted from its epoch
          MaxTime      \* bound of the model: the clock stops here

VARIABLES algorithm,  \* policy.algorithm
          idleTtl,    \* config_.idle_ttl
          now,        \* steady_clock
          entries,    \* entries_: a function on the keys that have an entry
          passed,     \* history: when requests of the watched key were allowed, and a 0
                      \* where its entry was pruned
          promise     \* history: when its last rejection told the client to retry, or 0

vars == <<algorithm, idleTtl, now, entries, passed, promise>>

Floor(a, b) == IF a >= b THEN a - b ELSE 0
Larger(a, b) == IF a >= b THEN a ELSE b
Smaller(a, b) == IF a <= b THEN a ELSE b
CeilDiv(a, b) == (a + b - 1) \div b

(* ceil_seconds, as a time.                                                *)
WholeSeconds(d) == Second * CeilDiv(d, Second)

-----------------------------------------------------------------------------
(* The algorithms: what a request at time t does to the state of its key.  *)

Interval == Window \div Limit
Tolerance == Interval * (Burst - 1)

(* A new entry holds a default TokenBucketState; the other algorithms      *)
(* replace it by a state of their own at the first request.                *)
Blank(t) ==
  CASE algorithm = "token"   -> [tokens |-> 0, at |-> 0]
    [] algorithm = "fixed"   -> [start |-> t, used |-> 0]
    [] algorithm = "sliding" -> [requests |-> <<>>]
    [] algorithm = "gcra"    -> [tat |-> t]

Refilled(b, t) ==
  IF t > b.at
  THEN [tokens |-> Smaller(Burst * Window, b.tokens + (t - b.at) * Limit), at |-> t]
  ELSE b

Reject(s, wait) == [allowed |-> FALSE, state |-> s, remaining |-> 0, wait |-> wait]
Allow(s, remaining) == [allowed |-> TRUE, state |-> s, remaining |-> remaining, wait |-> 0]

TokenBucket(b, t) ==
  LET r == Refilled(b, t)
      s == [r EXCEPT !.tokens = @ - Window]
  IN  IF r.tokens < Window THEN Reject(r, CeilDiv(Window - r.tokens, Limit))
      ELSE Allow(s, s.tokens \div Window)

FixedWindow(b, t) ==
  LET r == IF t >= b.start /\ t - b.start >= Window THEN [start |-> t, used |-> 0] ELSE b
  IN  IF r.used >= Limit THEN Reject(r, (Window + r.start) - t)
      ELSE Allow([r EXCEPT !.used = @ + 1], Limit - (r.used + 1))

Expired(r, t) == t >= r /\ t - r >= Window

(* pop_front while the front is out of the window.                         *)
Drop(q, t) ==
  LET live == {i \in 1..Len(q) : ~Expired(q[i], t)}
  IN  IF live = {} THEN <<>>
      ELSE SubSeq(q, CHOOSE i \in live : \A j \in live : i <= j, Len(q))

SlidingWindow(b, t) ==
  LET q == Drop(b.requests, t)
  IN  IF Len(q) >= Limit THEN Reject([requests |-> q], (Head(q) + Window) - t)
      ELSE Allow([requests |-> Append(q, t)], Limit - (Len(q) + 1))

(* allowed_at = theoretical_arrival - tolerance.                           *)
Gcra(b, t) ==
  LET tat == Larger(b.tat, t) + Interval
      used == CeilDiv(Floor(tat, t), Interval)
  IN  IF t + Tolerance < b.tat THEN Reject(b, b.tat - (t + Tolerance))
      ELSE Allow([tat |-> tat], Floor(Burst, used))

Decide(b, t) ==
  CASE algorithm = "token"   -> TokenBucket(b, t)
    [] algorithm = "fixed"   -> FixedWindow(b, t)
    [] algorithm = "sliding" -> SlidingWindow(b, t)
    [] algorithm = "gcra"    -> Gcra(b, t)

-----------------------------------------------------------------------------
(* The store                                                               *)

Entry(state, t) == [state |-> state, updated |-> t]

KeptRecent(t) == {k \in DOMAIN entries : t <= entries[k].updated}
Kept(t) ==
  {k \in DOMAIN entries : ~(t >= entries[k].updated /\ t - entries[k].updated >= idleTtl)}

Full == Cardinality(DOMAIN entries) >= MaxKeys

(* The keys that stay when k asks at time t.                               *)
Pruned(k, t) == IF k \notin DOMAIN entries /\ Full THEN Kept(t) ELSE DOMAIN entries
NoRoom(k, t) == k \notin DOMAIN entries /\ Cardinality(Pruned(k, t)) >= MaxKeys

(* What becomes of the history when k is answered and the keys of keep stay. *)
Record(k, keep, allowed, retry) ==
  /\ passed' = IF k = Watched /\ allowed THEN Append(passed, now)
               ELSE IF Watched \in DOMAIN entries \ keep THEN Append(passed, 0) ELSE passed
  /\ promise' = IF k # Watched THEN promise ELSE IF allowed THEN 0 ELSE retry

(* A key that finds no room is told to come back in a second.              *)
Acquire(k, t) ==
  LET keep == Pruned(k, t)
      d == Decide(IF k \in DOMAIN entries THEN entries[k].state ELSE Blank(t), t)
  IN  IF NoRoom(k, t)
      THEN /\ entries' = [x \in keep |-> entries[x]]
           /\ Record(k, keep, FALSE, t + Second)
      ELSE /\ entries' = [x \in keep \cup {k} |->
                            IF x = k THEN Entry(d.state, t) ELSE entries[x]]
           /\ Record(k, keep, d.allowed, t + WholeSeconds(d.wait))

(* The middleware: the key is resolved, the clock read, acquire called.    *)
Handle(k) ==
  /\ \E t \in Floor(now, Skew)..now : t >= Start /\ Acquire(k, t)
  /\ UNCHANGED <<algorithm, idleTtl, now>>

Tick ==
  /\ now < MaxTime /\ now' = now + 1
  /\ UNCHANGED <<algorithm, idleTtl, entries, passed, promise>>

Init ==
  /\ algorithm \in Algorithms /\ idleTtl \in IdleTtls
  /\ now = Start /\ entries = [k \in {} |-> 0]
  /\ passed = <<>> /\ promise = 0

Next == Tick \/ \E k \in Keys : Handle(k)

Spec == Init /\ [][Next]_vars

-----------------------------------------------------------------------------
(* Properties                                                              *)

State ==
  CASE algorithm = "token"   -> [tokens : 0..(Burst * Window), at : 0..MaxTime]
    [] algorithm = "fixed"   -> [start : 0..MaxTime, used : 0..Limit]
    [] algorithm = "sliding" -> [requests : UNION {[1..n -> 0..MaxTime] : n \in 0..Limit}]
    [] algorithm = "gcra"    -> [tat : 0..(MaxTime + Burst * Interval)]

TypeOK ==
  /\ algorithm \in Algorithms /\ idleTtl \in IdleTtls /\ now \in Start..MaxTime
  /\ DOMAIN entries \subseteq Keys /\ Cardinality(DOMAIN entries) <= MaxKeys
  /\ \A k \in DOMAIN entries : entries[k].state \in State /\ entries[k].updated \in 0..now
  /\ \A i \in 1..Len(passed) : passed[i] \in 0..now
  /\ promise \in Nat

(* Requests the policy lets pass in an interval of the given length.       *)
Quota(length) ==
  CASE algorithm = "token"   -> Burst + ((length + Skew) * Limit) \div Window
    [] algorithm = "fixed"   -> Limit * ((length + Skew) \div Window + 2)
    [] algorithm = "sliding" -> Limit * ((length + Skew) \div Window + 1)
    [] algorithm = "gcra"    -> Burst + (length + Skew) \div Interval

(* The time in which an entry that nobody uses becomes as good as new.     *)
Refill == IF algorithm \in {"token", "gcra"} THEN Burst * Interval ELSE Window

(* No interval of time, wherever it begins, sees more requests of one key  *)
(* pass than the policy allows, with clock readings used out of order.  If *)
(* idle_ttl is at least the time in which a quota is restored, that holds  *)
(* with entries pruned and created again; if it is shorter, prune_idle     *)
(* forgets a quota in use and it holds for the life of one entry.          *)
RateBound ==
  \A i, j \in 1..Len(passed) :
    LET here == {m \in i..j : passed[m] # 0}
    IN  {i, j} \subseteq here /\ (here = i..j \/ idleTtl >= Refill + Skew) =>
          Cardinality(here) <= Quota(passed[j] - passed[i])

(* A client that waits for the Retry-After it was given, while nobody else *)
(* uses its key, is let through: by its entry, or by a new one if the table*)
(* was full and now has room.  That there is room again nobody promises.   *)
RetryHonest ==
  promise > 0 =>
    \A t \in promise..(promise + Window) :
      ~NoRoom(Watched, t) =>
        Decide(IF Watched \in DOMAIN entries THEN entries[Watched].state ELSE Blank(t), t).allowed

(* RateLimit-Remaining is the number of further requests that pass at the  *)
(* same moment.                                                            *)
Run(b, t) ==
  LET after[n \in 0..(Limit + Burst + 1)] ==
        IF n = 0 THEN Decide(b, t)
        ELSE IF after[n - 1].allowed THEN Decide(after[n - 1].state, t) ELSE after[n - 1]
  IN  Cardinality({n \in 1..(Limit + Burst + 1) : after[n].allowed})
RemainingHonest ==
  \A k \in DOMAIN entries : \A t \in Floor(now, Skew)..now :
    Decide(entries[k].state, t).allowed =>
      Decide(entries[k].state, t).remaining = Run(entries[k].state, t)

(* The first request of a key that has room in the store is allowed: every *)
(* policy permits at least one request.  A token bucket is the exception   *)
(* within an interval of the clock's epoch, from where a new one fills.    *)
FirstAllowed ==
  \A k \in Keys :
    /\ ~NoRoom(k, now) /\ k \notin DOMAIN entries
    /\ algorithm = "token" => now >= Interval
    => Decide(Blank(now), now).allowed

=============================================================================
