------------------------ MODULE ConcurrencyLimitProofs ------------------------
(***************************************************************************)
(* Proofs about ConcurrencyLimit, for every set of requests and keys and   *)
(* every value of the two limits.                                          *)
(*                                                                         *)
(* The inductive invariant is the conjunction of the invariants that the   *)
(* runs check, with PermitIffRunning and the finiteness of the map added   *)
(* (LeavePipeline and the cardinalities need them).                        *)
(***************************************************************************)
EXTENDS ConcurrencyLimit, FiniteSetTheorems, TLAPS

(* A request is inside the rest of the pipeline under a key exactly while  *)
(* it holds that key's permit ("A permit is held from this middleware      *)
(* until all later middleware and the route handler return").              *)
PermitIffRunning == \A r \in Requests : (permit[r] # NoKey) <=> (pc[r] = "running")

MapFinite == IsFiniteSet(DOMAIN active)

IInv == TypeOK /\ CountsMatchPermits /\ PermitIffRunning /\ ConcurrencyBounded
          /\ MapFinite /\ KeysBounded

(* The holders of a key are a finite set.                                  *)
LEMMA HoldersFinite ==
  ASSUME NEW k PROVE IsFiniteSet(Holders(k)) /\ Cardinality(Holders(k)) \in Nat
<1>1. Holders(k) \subseteq Requests
  BY DEF Holders
<1>2. IsFiniteSet(Holders(k))
  BY <1>1, RequestsFinite, FS_Subset
<1> QED
  BY <1>2, FS_CardinalityType

(* A key with holders has a positive number of them.                       *)
LEMMA HoldersEmpty ==
  ASSUME NEW k PROVE (Cardinality(Holders(k)) = 0) <=> (Holders(k) = {})
BY HoldersFinite, FS_EmptySet

(* Taking a permit adds one holder to its key and touches no other key.    *)
LEMMA AcquireHolders ==
  ASSUME TypeOK, NEW r \in Requests, NEW k \in Keys, permit[r] = NoKey,
         permit' = [permit EXCEPT ![r] = k]
  PROVE  /\ Cardinality(Holders(k)') = Cardinality(Holders(k)) + 1
         /\ r \in Holders(k)'
         /\ \A j \in Keys \ {k} : Holders(j)' = Holders(j)
<1>1. r \notin Holders(k)
  BY KeysAssumption DEF Holders
<1>2. Holders(k)' = Holders(k) \cup {r}
  BY DEF Holders, TypeOK
<1>3. \A j \in Keys \ {k} : Holders(j)' = Holders(j)
  BY KeysAssumption DEF Holders, TypeOK
<1>4. Cardinality(Holders(k) \cup {r}) = Cardinality(Holders(k)) + 1
  BY <1>1, HoldersFinite, FS_AddElement, ZenonT(40)
<1> QED
  BY <1>2, <1>3, <1>4

(* Giving a permit back removes one holder from its key, and no other.     *)
LEMMA ReleaseHolders ==
  ASSUME TypeOK, NEW r \in Requests, permit[r] \in Keys,
         permit' = [permit EXCEPT ![r] = NoKey]
  PROVE  /\ r \in Holders(permit[r])
         /\ \A j \in Keys : Holders(j)' = IF j = permit[r] THEN Holders(j) \ {r} ELSE Holders(j)
         /\ Cardinality(Holders(permit[r]) \ {r}) = Cardinality(Holders(permit[r])) - 1
<1>1. r \in Holders(permit[r])
  BY DEF Holders
<1>2. \A j \in Keys : Holders(j)' = IF j = permit[r] THEN Holders(j) \ {r} ELSE Holders(j)
  BY KeysAssumption DEF Holders, TypeOK
<1>3. Cardinality(Holders(permit[r]) \ {r}) = Cardinality(Holders(permit[r])) - 1
  BY <1>1, HoldersFinite, FS_RemoveElement, ZenonT(40)
<1> QED
  BY <1>1, <1>2, <1>3

LEMMA InitIInv == Init => IInv
<1> SUFFICES ASSUME Init PROVE IInv
  OBVIOUS
<1>1. DOMAIN active = {}
  BY DEF Init
<1>2. IsFiniteSet({}) /\ Cardinality({}) = 0
  BY FS_EmptySet
<1>3. \A k \in Keys : Holders(k) = {}
  BY KeysAssumption DEF Init, Holders
<1>4. TypeOK
  BY DEF Init, TypeOK, Status
<1>5. ConcurrencyBounded
  BY <1>2, <1>3, LimitsPositive DEF ConcurrencyBounded
<1>6. CountsMatchPermits
  BY <1>1, <1>3 DEF CountsMatchPermits
<1>7. PermitIffRunning
  BY DEF Init, PermitIffRunning
<1>8. MapFinite /\ KeysBounded
  BY <1>1, <1>2, LimitsPositive DEF MapFinite, KeysBounded
<1> QED
  BY <1>4, <1>5, <1>6, <1>7, <1>8 DEF IInv

LEMMA AcquireIInv ==
  ASSUME IInv, NEW r \in Requests, NEW raw \in Keys \cup {EmptyKey}, HandleAcquire(r, raw)
  PROVE  IInv'
<1> DEFINE k == ResolveKey(raw)
<1>0. k \in Keys
  BY KeysAssumption DEF ResolveKey
<1> HIDE DEF k
<1>1. /\ pc[r] = "idle" /\ CanAcquire(k) /\ active' = Incremented(k)
      /\ permit' = [permit EXCEPT ![r] = k] /\ pc' = [pc EXCEPT ![r] = "running"]
  BY DEF HandleAcquire, k
<1>2. permit[r] = NoKey
  BY <1>1 DEF IInv, PermitIffRunning
<1>3. /\ Cardinality(Holders(k)') = Cardinality(Holders(k)) + 1
      /\ r \in Holders(k)'
      /\ \A j \in Keys \ {k} : Holders(j)' = Holders(j)
  BY <1>0, <1>1, <1>2, AcquireHolders, ZenonT(40) DEF IInv
<1>4. DOMAIN active' = DOMAIN active \cup {k}
  BY <1>1 DEF Incremented
<1>5. active'[k] = Cardinality(Holders(k)) + 1
  <2>1. CASE k \in DOMAIN active
    BY <1>1, <2>1 DEF Incremented, IInv, CountsMatchPermits
  <2>2. CASE k \notin DOMAIN active
    <3>1. Holders(k) = {}
      BY <1>0, <2>2 DEF IInv, CountsMatchPermits
    <3>2. Cardinality(Holders(k)) = 0
      BY <3>1, HoldersEmpty
    <3> QED
      BY <1>1, <2>2, <3>2 DEF Incremented
  <2> QED
    BY <2>1, <2>2
<1>6. \A j \in DOMAIN active \ {k} : active'[j] = active[j]
  BY <1>1 DEF Incremented
<1>7. Cardinality(Holders(k)) + 1 <= MaxConcurrent
  <2>1. CASE k \in DOMAIN active
    BY <1>1, <2>1, HoldersFinite, LimitsPositive DEF CanAcquire, IInv, CountsMatchPermits
  <2>2. CASE k \notin DOMAIN active
    <3>1. Holders(k) = {}
      BY <1>0, <2>2 DEF IInv, CountsMatchPermits
    <3> QED
      BY <3>1, HoldersEmpty, LimitsPositive
  <2> QED
    BY <2>1, <2>2
<1>8. TypeOK'
  <2>1. active' \in [DOMAIN active' -> Nat \ {0}]
    <3>1. active' = [j \in DOMAIN active' |-> active'[j]]
      BY <1>1, <1>4 DEF Incremented
    <3>2. active'[k] \in Nat \ {0}
      BY <1>5, HoldersFinite
    <3>3. \A j \in DOMAIN active' : active'[j] \in Nat \ {0}
      BY <1>4, <1>6, <3>2 DEF IInv, TypeOK
    <3> QED
      BY <3>1, <3>3
  <2>2. permit' \in [Requests -> Keys \cup {NoKey}] /\ pc' \in [Requests -> Status]
    BY <1>0, <1>1 DEF IInv, TypeOK, Status
  <2> QED
    BY <1>0, <1>4, <2>1, <2>2 DEF IInv, TypeOK
<1>9. CountsMatchPermits'
  BY <1>0, <1>3, <1>4, <1>5, <1>6 DEF IInv, CountsMatchPermits
<1>10. PermitIffRunning'
  BY <1>0, <1>1, KeysAssumption DEF IInv, TypeOK, PermitIffRunning
<1>11. ConcurrencyBounded'
  BY <1>3, <1>7 DEF IInv, ConcurrencyBounded
<1>12. MapFinite' /\ KeysBounded'
  <2>1. MapFinite' /\ Cardinality(DOMAIN active') =
          IF k \in DOMAIN active THEN Cardinality(DOMAIN active) ELSE Cardinality(DOMAIN active) + 1
    BY <1>4, FS_AddElement DEF IInv, MapFinite
  <2>2. Cardinality(DOMAIN active) \in Nat
    BY FS_CardinalityType DEF IInv, MapFinite
  <2> QED
    BY <1>1, <2>1, <2>2, LimitsPositive DEF CanAcquire, IInv, KeysBounded
<1> QED
  BY <1>8, <1>9, <1>10, <1>11, <1>12 DEF IInv

LEMMA LeaveIInv ==
  ASSUME IInv, NEW r \in Requests, LeavePipeline(r)
  PROVE  IInv'
<1> DEFINE k == permit[r]
<1>1. /\ pc[r] = "running" /\ active' = Decremented(k)
      /\ permit' = [permit EXCEPT ![r] = NoKey] /\ pc' = [pc EXCEPT ![r] = "idle"]
  BY DEF LeavePipeline
<1>2. k \in Keys
  BY <1>1 DEF IInv, TypeOK, PermitIffRunning
<1>3. /\ r \in Holders(k)
      /\ \A j \in Keys : Holders(j)' = IF j = k THEN Holders(j) \ {r} ELSE Holders(j)
      /\ Cardinality(Holders(k) \ {r}) = Cardinality(Holders(k)) - 1
  BY <1>1, <1>2, ReleaseHolders, ZenonT(40) DEF IInv
<1> HIDE DEF k
<1>4. k \in DOMAIN active /\ active[k] = Cardinality(Holders(k)) /\ active[k] \in Nat \ {0}
  BY <1>2, <1>3 DEF IInv, CountsMatchPermits, TypeOK
<1>5. (Holders(k) \ {r} = {}) <=> (active[k] = 1)
  <2>1. IsFiniteSet(Holders(k) \ {r})
    BY HoldersFinite, FS_RemoveElement
  <2>2. (Cardinality(Holders(k) \ {r}) = 0) <=> (Holders(k) \ {r} = {})
    BY <2>1, FS_EmptySet
  <2> QED
    BY <1>3, <1>4, <2>2
<1>6. DOMAIN active' = IF active[k] = 1 THEN DOMAIN active \ {k} ELSE DOMAIN active
  BY <1>1, <1>4 DEF Decremented, Restrict
<1>7. \A j \in DOMAIN active' : active'[j] = IF j = k THEN active[j] - 1 ELSE active[j]
  BY <1>1, <1>4, <1>6 DEF Decremented, Restrict, IInv, TypeOK
<1>8. active' = [j \in DOMAIN active' |-> active'[j]]
  <2>1. CASE active[k] = 1
    BY <1>1, <1>4, <2>1 DEF Decremented, Restrict
  <2>2. CASE active[k] # 1
    BY <1>1, <1>4, <2>2 DEF Decremented, IInv, TypeOK
  <2> QED
    BY <2>1, <2>2
<1>9. TypeOK'
  <2>1. \A j \in DOMAIN active' : active'[j] \in Nat \ {0}
    BY <1>4, <1>6, <1>7 DEF IInv, TypeOK
  <2> QED
    BY <1>1, <1>6, <1>8, <2>1 DEF IInv, TypeOK, Status
<1>10. CountsMatchPermits'
  <2>1. DOMAIN active' = {j \in Keys : Holders(j)' # {}}
    BY <1>2, <1>3, <1>4, <1>5, <1>6 DEF IInv, CountsMatchPermits
  <2>2. \A j \in DOMAIN active' : active'[j] = Cardinality(Holders(j)')
    BY <1>2, <1>3, <1>4, <1>6, <1>7, <2>1, ZenonT(40) DEF IInv, CountsMatchPermits
  <2> QED
    BY <2>1, <2>2 DEF CountsMatchPermits
<1>11. PermitIffRunning'
  BY <1>1 DEF IInv, TypeOK, PermitIffRunning
<1>12. ConcurrencyBounded'
  BY <1>3, <1>4, LimitsPositive DEF IInv, ConcurrencyBounded
<1>13. MapFinite' /\ KeysBounded'
  <2>1. IsFiniteSet(DOMAIN active \ {k}) /\ Cardinality(DOMAIN active \ {k}) = Cardinality(DOMAIN active) - 1
    BY <1>4, FS_RemoveElement DEF IInv, MapFinite
  <2>2. Cardinality(DOMAIN active) \in Nat
    BY FS_CardinalityType DEF IInv, MapFinite
  <2> QED
    BY <1>6, <2>1, <2>2, LimitsPositive DEF IInv, MapFinite, KeysBounded
<1> QED
  BY <1>9, <1>10, <1>11, <1>12, <1>13 DEF IInv

(* The steps that neither take nor give back a permit.                     *)
LEMMA OtherIInv ==
  ASSUME IInv, NEW r \in Requests, NEW s \in Status \ {"running"},
         pc[r] # "running", pc' = [pc EXCEPT ![r] = s], UNCHANGED <<active, permit>>
  PROVE  IInv'
<1>1. \A k \in Keys : Holders(k)' = Holders(k)
  BY DEF Holders
<1>2. TypeOK' /\ MapFinite' /\ KeysBounded'
  BY DEF IInv, TypeOK, MapFinite, KeysBounded
<1>3. CountsMatchPermits' /\ ConcurrencyBounded'
  BY <1>1 DEF IInv, CountsMatchPermits, ConcurrencyBounded
<1>4. PermitIffRunning'
  BY DEF IInv, TypeOK, PermitIffRunning
<1> QED
  BY <1>2, <1>3, <1>4 DEF IInv

LEMMA NextIInv == IInv /\ [Next]_vars => IInv'
<1> SUFFICES ASSUME IInv, [Next]_vars PROVE IInv'
  OBVIOUS
<1>1. CASE UNCHANGED vars
  <2>1. UNCHANGED <<active, permit, pc>> /\ \A k : Holders(k)' = Holders(k)
    BY <1>1 DEF vars, Holders
  <2> QED
    BY <2>1 DEF IInv, TypeOK, CountsMatchPermits, PermitIffRunning, ConcurrencyBounded, MapFinite, KeysBounded
<1>2. ASSUME NEW r \in Requests, NEW raw \in Keys \cup {EmptyKey}, HandleAcquire(r, raw) PROVE IInv'
  BY <1>2, AcquireIInv
<1>3. ASSUME NEW r \in Requests, LeavePipeline(r) PROVE IInv'
  BY <1>3, LeaveIInv
<1>4. ASSUME NEW r \in Requests, NEW raw, HandleAllowed(r) \/ HandleLongKey(r) \/ HandleReject(r, raw) PROVE IInv'
  BY <1>4, OtherIInv DEF HandleAllowed, HandleLongKey, HandleReject, Status
<1>5. ASSUME NEW r \in Requests, Finish(r) PROVE IInv'
  BY <1>5, OtherIInv, ZenonT(40) DEF Finish, Status
<1> QED
  BY <1>1, <1>2, <1>3, <1>4, <1>5 DEF Next

(* Every count equals the number of permits held, for any number of        *)
(* requests and keys: ~Permit gives back exactly what try_acquire took.    *)
THEOREM PermitAccounting == Spec => []CountsMatchPermits
<1>1. IInv => CountsMatchPermits
  BY DEF IInv
<1> QED
  BY <1>1, InitIInv, NextIInv, PTL DEF Spec

(* At most max_concurrent requests of a key are downstream, and at most    *)
(* max_keys keys are tracked, for every value of both limits.              *)
THEOREM LimitsRespected == Spec => [](ConcurrencyBounded /\ KeysBounded)
<1>1. IInv => ConcurrencyBounded /\ KeysBounded
  BY DEF IInv
<1> QED
  BY <1>1, InitIInv, NextIInv, PTL DEF Spec

(* The types hold (no entry of the map ever stays at zero), and a request  *)
(* is downstream exactly while it holds a permit.                          *)
THEOREM PermitHeldDownstream == Spec => [](TypeOK /\ PermitIffRunning)
<1>1. IInv => TypeOK /\ PermitIffRunning
  BY DEF IInv
<1> QED
  BY <1>1, InitIInv, NextIInv, PTL DEF Spec
=============================================================================
