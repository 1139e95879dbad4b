--------------------------- MODULE ConcurrencyLimit ---------------------------
(***************************************************************************)
(* ConcurrencyLimitMiddleware: a bound on the requests that are inside the *)
(* rest of the pipeline at the same time, per key.                         *)
(*                                                                         *)
(* A request is handled by one shard thread.  handle() resolves the key,   *)
(* takes a permit under mutex_ (one atomic step), runs next() without the  *)
(* mutex, and gives the permit back in ~Permit when the scope is left, by  *)
(* a return or by an exception that unwinds the pipeline.                  *)
(***************************************************************************)
EXTENDS Integers, FiniteSets, Functions

CONSTANTS Requests,       \* requests being handled (shard threads)
          Keys,           \* keys the resolver can produce, "anonymous" included
          Anonymous,      \* the key that replaces an empty one
          MaxConcurrent,  \* config_.max_concurrent
          MaxKeys,        \* config_.max_keys
          NoKey           \* owner_ == nullptr: no permit is held

(* The constructor throws unless both limits are positive.                 *)
ASSUME LimitsPositive == MaxConcurrent \in Nat \ {0} /\ MaxKeys \in Nat \ {0}
ASSUME KeysAssumption == Anonymous \in Keys /\ NoKey \notin Keys
ASSUME RequestsFinite == IsFiniteSet(Requests)

VARIABLES active,  \* active_: the map from a key to its count
          permit,  \* the key of the Permit held by the frame of handle()
          pc       \* where the request is

vars == <<active, permit, pc>>

(* What the resolver may return besides a key (HandleLongKey is the case   *)
(* of a string longer than max_key_length).                                *)
EmptyKey == "empty"

Status == {"idle", "running", "bypass", "rejected", "badKey"}

TypeOK ==
  /\ DOMAIN active \subseteq Keys
  /\ active \in [DOMAIN active -> Nat \ {0}]
  /\ permit \in [Requests -> Keys \cup {NoKey}]
  /\ pc \in [Requests -> Status]

Init ==
  /\ active = [k \in {} |-> 0]
  /\ permit = [r \in Requests |-> NoKey]
  /\ pc = [r \in Requests |-> "idle"]

ResolveKey(raw) == IF raw = EmptyKey THEN Anonymous ELSE raw

(* Whether try_acquire(key) returns a permit.                              *)
CanAcquireAtLimit(k) ==
  IF k \in DOMAIN active THEN active[k] <= MaxConcurrent
                         ELSE Cardinality(DOMAIN active) < MaxKeys

CanAcquire(k) ==
  IF k \in DOMAIN active THEN active[k] < MaxConcurrent
                         ELSE Cardinality(DOMAIN active) < MaxKeys

(* The map after a successful try_acquire(key).                            *)
Incremented(k) ==
  [j \in DOMAIN active \cup {k} |->
      IF j # k THEN active[j] ELSE IF k \in DOMAIN active THEN active[k] + 1 ELSE 1]

(* The map after release(key): an entry never stays at zero.               *)
DecrementedDroppingAll(k) ==
  IF k \notin DOMAIN active THEN active ELSE Restrict(active, DOMAIN active \ {k})

Decremented(k) ==
  IF k \notin DOMAIN active THEN active
  ELSE IF active[k] <= 1 THEN Restrict(active, DOMAIN active \ {k})
  ELSE [active EXCEPT ![k] = @ - 1]

(* path_allowed: next() runs without a permit.                             *)
HandleAllowed(r) ==
  /\ pc[r] = "idle"
  /\ pc' = [pc EXCEPT ![r] = "bypass"]
  /\ UNCHANGED <<active, permit>>

(* key.size() > max_key_length: 400, nothing is acquired.                  *)
HandleLongKey(r) ==
  /\ pc[r] = "idle"
  /\ pc' = [pc EXCEPT ![r] = "badKey"]
  /\ UNCHANGED <<active, permit>>

(* try_acquire succeeds and next() is entered.                             *)
HandleAcquire(r, raw) ==
  LET k == ResolveKey(raw) IN
  /\ pc[r] = "idle"
  /\ CanAcquire(k)
  /\ active' = Incremented(k)
  /\ permit' = [permit EXCEPT ![r] = k]
  /\ pc' = [pc EXCEPT ![r] = "running"]

(* try_acquire returns an empty Permit: rejected_status.                   *)
HandleReject(r, raw) ==
  /\ pc[r] = "idle"
  /\ ~CanAcquire(ResolveKey(raw))
  /\ pc' = [pc EXCEPT ![r] = "rejected"]
  /\ UNCHANGED <<active, permit>>

(* next() returns or throws; either way ~Permit runs release().            *)
LeavePipelineNoRelease(r) ==
  /\ pc[r] = "running"
  /\ permit' = [permit EXCEPT ![r] = NoKey]
  /\ pc' = [pc EXCEPT ![r] = "idle"]
  /\ UNCHANGED active

LeavePipeline(r) ==
  /\ pc[r] = "running"
  /\ active' = Decremented(permit[r])
  /\ permit' = [permit EXCEPT ![r] = NoKey]
  /\ pc' = [pc EXCEPT ![r] = "idle"]

(* The other outcomes: the response is written, the thread is free again.  *)
Finish(r) ==
  /\ pc[r] \in {"bypass", "rejected", "badKey"}
  /\ pc' = [pc EXCEPT ![r] = "idle"]
  /\ UNCHANGED <<active, permit>>

Next ==
  \E r \in Requests :
    \/ HandleAllowed(r)
    \/ HandleLongKey(r)
    \/ \E raw \in Keys \cup {EmptyKey} : HandleAcquire(r, raw) \/ HandleReject(r, raw)
    \/ LeavePipeline(r)
    \/ Finish(r)

(* A handler returns or throws sooner or later; nothing obliges a request  *)
(* to arrive.                                                              *)
Fairness == \A r \in Requests : WF_vars(LeavePipeline(r)) /\ WF_vars(Finish(r))

Spec == Init /\ [][Next]_vars /\ Fairness

-----------------------------------------------------------------------------
Holders(k) == {r \in Requests : permit[r] = k}

(* The count stored for a key is exactly the number of frames that hold a  *)
(* permit for it, and a key is in the map only while somebody holds it: no *)
(* permit is leaked or given back twice, whichever way next() is left.     *)
CountsMatchPermits ==
  /\ DOMAIN active = {k \in Keys : Holders(k) # {}}
  /\ \A k \in DOMAIN active : active[k] = Cardinality(Holders(k))

(* Never more than max_concurrent requests with one key are downstream.    *)
ConcurrencyBounded == \A k \in Keys : Cardinality(Holders(k)) <= MaxConcurrent

(* The map never has more than max_keys entries.                           *)
KeysBounded == Cardinality(DOMAIN active) <= MaxKeys

(* A key that is refused service is not refused for ever: whenever the     *)
(* limit is reached for a key, a permit of it is free again later.         *)
LimitClears ==
  \A k \in Keys : (k \in DOMAIN active /\ ~CanAcquire(k)) ~> CanAcquire(k)
=============================================================================
