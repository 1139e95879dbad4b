------------------------- MODULE ConnectionPoolProofs -------------------------
(***************************************************************************)
(* Proofs about ConnectionPool for any number of threads, connections and  *)
(* slots.  The invariants are inductive together: SoleOwner gives the sets *)
(* of NothingLeaked, which bounds the connections; NoLostWakeup counts     *)
(* idle connections against threads that are awake.                        *)
(***************************************************************************)
EXTENDS ConnectionPool, FiniteSetTheorems, TLAPS

Awake == InState({"awake", "expired"})
Asleep == InState({"asleep"})
Leased == UNION {held[c] : c \in Clients}

Ownership == TypeOK /\ SoleOwner /\ NothingLeaked
IInv == Ownership /\ ClosedIsEmpty /\ NoLostWakeup

-----------------------------------------------------------------------------
(* Queues without repetition.                                              *)

LEMMA TailElems ==
  ASSUME NEW s \in Seq(Conns), s # <<>>, Distinct(s)
  PROVE  /\ Tail(s) \in Seq(Conns) /\ Distinct(Tail(s)) /\ Len(Tail(s)) = Len(s) - 1
         /\ Head(s) \in Elems(s) /\ Head(s) \in Conns
         /\ Elems(Tail(s)) = Elems(s) \ {Head(s)}
<1>1. /\ Tail(s) \in Seq(Conns) /\ Len(s) \in Nat \ {0} /\ Len(Tail(s)) = Len(s) - 1
      /\ Head(s) = s[1] /\ 1 \in 1..Len(s)
  OBVIOUS
<1>2. \A i \in 1..Len(Tail(s)) : Tail(s)[i] = s[i + 1] /\ i + 1 \in 1..Len(s)
  BY <1>1
<1>3. Distinct(Tail(s))
  <2> SUFFICES ASSUME NEW i \in 1..Len(Tail(s)), NEW j \in 1..Len(Tail(s)), Tail(s)[i] = Tail(s)[j]
               PROVE  i = j
    BY DEF Distinct
  <2>1. i + 1 = j + 1
    BY <1>2 DEF Distinct
  <2> QED
    BY <2>1
<1>4. Head(s) \in Elems(s) /\ Head(s) \in Conns
  BY <1>1 DEF Elems
<1>5. ASSUME NEW x \in Elems(Tail(s)) PROVE x \in Elems(s) \ {Head(s)}
  <2>1. PICK i \in 1..Len(Tail(s)) : x = Tail(s)[i]
    BY DEF Elems
  <2>2. x = s[i + 1] /\ i + 1 \in 1..Len(s) /\ i + 1 # 1
    BY <1>2, <2>1
  <2> QED
    BY <1>1, <2>2 DEF Elems, Distinct
<1>6. ASSUME NEW x \in Elems(s) \ {Head(s)} PROVE x \in Elems(Tail(s))
  <2>1. PICK i \in 1..Len(s) : x = s[i]
    BY DEF Elems
  <2>2. i # 1
    BY <1>1, <2>1
  <2>3. i - 1 \in 1..Len(Tail(s)) /\ (i - 1) + 1 = i
    BY <1>1, <2>2
  <2>4. x = Tail(s)[i - 1]
    BY <1>2, <2>1, <2>3
  <2> QED
    BY <2>3, <2>4 DEF Elems
<1> QED
  BY <1>1, <1>3, <1>4, <1>5, <1>6

LEMMA AppendElems ==
  ASSUME NEW s \in Seq(Conns), NEW k \in Conns, Distinct(s), k \notin Elems(s)
  PROVE  /\ Append(s, k) \in Seq(Conns) /\ Distinct(Append(s, k)) /\ Len(Append(s, k)) = Len(s) + 1
         /\ Elems(Append(s, k)) = Elems(s) \cup {k}
<1> DEFINE t == Append(s, k)
<1>1. /\ t \in Seq(Conns) /\ Len(s) \in Nat /\ Len(t) = Len(s) + 1
      /\ t[Len(s) + 1] = k /\ \A i \in 1..Len(s) : t[i] = s[i]
  OBVIOUS
<1>2. \A i \in 1..Len(t) : i \in 1..Len(s) \/ i = Len(s) + 1
  BY <1>1
<1>3. Len(s) + 1 \in 1..Len(t) /\ \A i \in 1..Len(s) : i \in 1..Len(t)
  BY <1>1
<1> HIDE DEF t
<1>4. Distinct(t)
  BY <1>1, <1>2 DEF Distinct, Elems
<1>5. Elems(t) = Elems(s) \cup {k}
  BY <1>1, <1>2, <1>3 DEF Elems
<1> QED
  BY <1>1, <1>4, <1>5 DEF t

-----------------------------------------------------------------------------
(* Leases.                                                                 *)

LEMMA GrantHeld ==
  ASSUME held \in [Clients -> SUBSET Conns], NEW c \in Clients, NEW k,
         held' = [held EXCEPT ![c] = @ \cup {k}]
  PROVE  /\ Leased' = Leased \cup {k}
         /\ \A d \in Clients : held'[d] = IF d = c THEN held[d] \cup {k} ELSE held[d]
BY DEF Leased

LEMMA ReturnHeld ==
  ASSUME held \in [Clients -> SUBSET Conns], NEW c \in Clients, NEW k \in held[c],
         \A a, b \in Clients : a # b => held[a] \cap held[b] = {},
         held' = [held EXCEPT ![c] = @ \ {k}]
  PROVE  /\ Leased' = Leased \ {k}
         /\ \A d \in Clients : held'[d] = held[d] \ {k}
<1>1. \A d \in Clients : held'[d] = held[d] \ {k}
  OBVIOUS
<1> QED
  BY <1>1 DEF Leased

-----------------------------------------------------------------------------
(* Counting the threads that are awake.                                    *)

LEMMA AwakeFinite == ASSUME TypeOK PROVE IsFiniteSet(Awake) /\ Cardinality(Awake) \in Nat
<1>1. Awake \subseteq Clients
  BY DEF Awake, InState
<1> QED
  BY <1>1, PoolAssumption, FS_Subset, FS_CardinalityType

LEMMA AwakeMore ==
  ASSUME TypeOK, NEW c \in Clients, Awake' = Awake \cup {c}
  PROVE  /\ Cardinality(Awake') \in Nat
         /\ Cardinality(Awake') = IF c \in Awake THEN Cardinality(Awake) ELSE Cardinality(Awake) + 1
BY AwakeFinite, FS_AddElement, FS_CardinalityType

LEMMA AwakeLess ==
  ASSUME TypeOK, NEW c \in Awake, Awake' = Awake \ {c}
  PROVE  Cardinality(Awake') = Cardinality(Awake) - 1
BY AwakeFinite, FS_RemoveElement, FS_CardinalityType

-----------------------------------------------------------------------------
LEMMA InitIInv == Init => IInv
<1> SUFFICES ASSUME Init PROVE IInv
  OBVIOUS
<1> USE PoolAssumption
<1>1. idle \in [1..PoolSize -> Conns] /\ Distinct(idle) /\ open = Elems(idle)
      /\ held = [c \in Clients |-> {}] /\ pc = [c \in Clients |-> "out"]
  BY DEF Init, Idle
<1>2. idle \in Seq(Conns) /\ Len(idle) = PoolSize
  BY <1>1
<1>3. Elems(idle) \subseteq Conns
  BY <1>1, <1>2 DEF Elems
<1>4. TypeOK
  BY <1>1, <1>2, <1>3, ZenonT(40) DEF Init, TypeOK, States, Idle
<1>5. SoleOwner
  BY <1>1 DEF SoleOwner
<1>6. Cardinality(open) <= PoolSize
  <2>1. idle \in Surjection(1..PoolSize, Elems(idle))
    BY <1>1, <1>2 DEF Surjection, Elems
  <2>2. IsFiniteSet(1..PoolSize) /\ Cardinality(1..PoolSize) = PoolSize
    BY FS_Interval
  <2> QED
    BY <1>1, <2>1, <2>2, FS_Surjection
<1>7. NothingLeaked
  BY <1>1, <1>6 DEF NothingLeaked, Idle
<1>8. ClosedIsEmpty /\ NoLostWakeup
  BY <1>1 DEF Init, ClosedIsEmpty, NoLostWakeup, InState
<1> QED
  BY <1>4, <1>5, <1>7, <1>8 DEF IInv, Ownership

(* Steps that only move threads.                                           *)
LEMMA QuietOwnership ==
  ASSUME Ownership, UNCHANGED <<idle, open, held>>, broken' \subseteq open,
         closed' \in BOOLEAN, pc' \in [Clients -> States]
  PROVE  Ownership'
<1>1. Idle' = Idle
  BY DEF Idle, Elems
<1>2. TypeOK'
  BY <1>1 DEF Ownership, TypeOK
<1>3. SoleOwner'
  BY <1>1 DEF Ownership, SoleOwner, Distinct
<1>4. NothingLeaked'
  BY <1>1 DEF Ownership, NothingLeaked
<1> QED
  BY <1>2, <1>3, <1>4 DEF Ownership

LEMMA ThreadIInv ==
  ASSUME IInv, NEW c \in Clients, Call(c) \/ Refuse(c) \/ Sleep(c) \/ Expire(c) \/ TimeOut(c)
  PROVE  IInv'
<1>1. /\ UNCHANGED <<idle, open, broken, held, closed>>
      /\ TypeOK /\ pc \in [Clients -> States] /\ Len(idle) \in Nat
  BY DEF Call, Refuse, Sleep, Expire, TimeOut, IInv, Ownership, TypeOK
<1>2. pc' \in [Clients -> States]
  BY <1>1 DEF Call, Refuse, Sleep, Expire, TimeOut, Leaves, States
<1>3. Ownership' /\ ClosedIsEmpty'
  BY <1>1, <1>2, QuietOwnership DEF IInv, ClosedIsEmpty, Ownership, TypeOK
<1>4. TypeOK'
  BY <1>3 DEF Ownership
<1>5. Cardinality(Awake) \in Nat /\ Cardinality(Awake') \in Nat
  <2>1. Awake' \subseteq Clients
    BY DEF Awake, InState
  <2>2. IsFiniteSet(Awake')
    BY <2>1, FS_Subset, PoolAssumption
  <2> QED
    BY <1>1, <2>2, AwakeFinite, FS_CardinalityType
<1>6. CASE Call(c) \/ Expire(c)
  <2>1. Awake' = Awake \cup {c} /\ Asleep' \subseteq Asleep
    BY <1>1, <1>6 DEF Call, Expire, Awake, Asleep, InState
  <2>2. Cardinality(Awake) <= Cardinality(Awake')
    <3>1. Cardinality(Awake') = IF c \in Awake THEN Cardinality(Awake) ELSE Cardinality(Awake) + 1
      BY <1>1, <2>1, AwakeMore, ZenonT(40)
    <3> QED
      BY <1>5, <3>1
  <2>3. Asleep' # {} => ~closed' /\ Len(idle') <= Cardinality(Awake')
    BY <1>1, <1>5, <2>1, <2>2 DEF IInv, NoLostWakeup, Awake, Asleep
  <2> QED
    BY <1>3, <2>3 DEF IInv, NoLostWakeup, Awake, Asleep
<1>7. CASE Refuse(c)
  <2>1. Asleep' = {}
    <3>1. Asleep = {}
      BY <1>7 DEF Refuse, IInv, NoLostWakeup, Asleep
    <3> QED
      BY <1>1, <1>7, <3>1 DEF Refuse, Leaves, Asleep, InState
  <2> QED
    BY <1>3, <2>1 DEF IInv, NoLostWakeup, Asleep
<1>8. CASE Sleep(c) \/ TimeOut(c)
  <2>1. ~closed' /\ Len(idle') = 0
    BY <1>1, <1>8 DEF Sleep, TimeOut
  <2>2. Len(idle') <= Cardinality(Awake')
    BY <1>5, <2>1
  <2> QED
    BY <1>3, <2>1, <2>2 DEF IInv, NoLostWakeup, Awake
<1> QED
  BY <1>6, <1>7, <1>8

(* Taking the front of the queue.                                          *)
LEMMA FrontFacts ==
  ASSUME IInv, idle # <<>>
  PROVE  /\ Tail(idle) \in Seq(Conns) /\ Distinct(Tail(idle)) /\ Len(Tail(idle)) = Len(idle) - 1
         /\ Head(idle) \in Idle /\ Head(idle) \in open /\ Head(idle) \in Conns
         /\ Elems(Tail(idle)) = Idle \ {Head(idle)}
         /\ Head(idle) \notin Leased
<1>1. idle \in Seq(Conns) /\ Distinct(idle) /\ Idle \subseteq open
  BY DEF IInv, Ownership, TypeOK, SoleOwner
<1>2. /\ Tail(idle) \in Seq(Conns) /\ Distinct(Tail(idle)) /\ Len(Tail(idle)) = Len(idle) - 1
      /\ Head(idle) \in Elems(idle) /\ Head(idle) \in Conns
      /\ Elems(Tail(idle)) = Elems(idle) \ {Head(idle)}
  BY <1>1, TailElems
<1>3. Head(idle) \notin Leased
  BY <1>2 DEF Leased, IInv, Ownership, SoleOwner, Idle
<1> QED
  BY <1>1, <1>2, <1>3 DEF Idle

LEMMA OpenFinite == ASSUME TypeOK PROVE IsFiniteSet(open) /\ Cardinality(open) \in Nat
BY PoolAssumption, FS_Subset, FS_CardinalityType DEF TypeOK

LEMMA LeaseIInv == ASSUME IInv, NEW c \in Clients, Lease(c) PROVE IInv'
<1> DEFINE h == Head(idle)
<1>1. /\ pc[c] \in {"awake", "expired"} /\ ~closed /\ ~closed' /\ idle # <<>> /\ idle' = Tail(idle)
      /\ TypeOK /\ closed' \in BOOLEAN
  BY DEF Lease, PopFront, IInv, Ownership, TypeOK
<1>2. /\ idle' \in Seq(Conns) /\ Distinct(idle') /\ Len(idle') = Len(idle) - 1 /\ Len(idle) \in Nat
      /\ h \in Idle /\ h \in open /\ h \in Conns /\ Idle' = Idle \ {h} /\ h \notin Leased
  BY <1>1, FrontFacts DEF Idle, TypeOK
<1>3. /\ open = Idle \cup Leased /\ Cardinality(open) <= PoolSize /\ PoolSize \in Nat
      /\ IsFiniteSet(open) /\ Cardinality(open) \in Nat
      /\ held \in [Clients -> SUBSET Conns] /\ pc \in [Clients -> States] /\ open \subseteq Conns
      /\ broken \subseteq open
      /\ \A d \in Clients : held[d] \cap Idle = {} /\ held[d] \subseteq Leased
      /\ \A a, b \in Clients : a # b => held[a] \cap held[b] = {}
  BY <1>1, OpenFinite, PoolAssumption DEF IInv, Ownership, NothingLeaked, Leased, TypeOK, SoleOwner
<1> HIDE DEF h
<1>4. ASSUME NEW k \in Conns, k = h \/ k \notin open, Grant(c, k),
             open' = (open \ {h}) \cup {k}, broken' \subseteq open'
      PROVE  IInv'
  <2>1. /\ held' = [held EXCEPT ![c] = @ \cup {k}] /\ pc' = [pc EXCEPT ![c] = "out"]
    BY <1>4 DEF Grant, Leaves
  <2>2. /\ Leased' = Leased \cup {k}
        /\ \A d \in Clients : held'[d] = IF d = c THEN held[d] \cup {k} ELSE held[d]
    BY <1>3, <2>1, GrantHeld, ZenonT(40)
  <2>3. k \notin Leased /\ k \notin Idle'
    BY <1>2, <1>3, <1>4
  <2>4. open' = Idle' \cup Leased'
    BY <1>2, <1>3, <1>4, <2>2
  <2>5. Cardinality(open') = Cardinality(open)
    <3>1. IsFiniteSet(open \ {h}) /\ Cardinality(open \ {h}) = Cardinality(open) - 1
      BY <1>2, <1>3, FS_RemoveElement, ZenonT(40)
    <3>2. k \notin open \ {h}
      BY <1>4
    <3>3. Cardinality((open \ {h}) \cup {k}) = Cardinality(open \ {h}) + 1
      BY <3>1, <3>2, FS_AddElement
    <3> QED
      BY <1>3, <1>4, <3>1, <3>3
  <2>6. held' \in [Clients -> SUBSET open'] /\ open' \subseteq Conns
    <3>1. \A d \in Clients : held'[d] \subseteq open'
      BY <1>3, <2>2, <2>4, ZenonT(40)
    <3>2. held' = [d \in Clients |-> held'[d]]
      BY <1>3, <2>1, ZenonT(40)
    <3>3. open' \subseteq Conns
      BY <1>3, <1>4
    <3> QED
      BY <3>1, <3>2, <3>3
  <2>7. pc' \in [Clients -> States]
    BY <1>3, <2>1 DEF States
  <2>8. TypeOK'
    BY <1>1, <1>2, <1>4, <2>4, <2>6, <2>7 DEF TypeOK
  <2>9. SoleOwner'
    <3>1. ASSUME NEW d \in Clients PROVE held'[d] \cap Idle' = {}
      <4>1. held'[d] \subseteq held[d] \cup {k}
        BY <2>2, ZenonT(40)
      <4>2. Idle' \subseteq Idle /\ k \notin Idle' /\ held[d] \cap Idle = {}
        BY <1>2, <1>3, <2>3
      <4> QED
        BY <4>1, <4>2
    <3>2. ASSUME NEW a \in Clients, NEW b \in Clients, a # b PROVE held'[a] \cap held'[b] = {}
      <4>1. held[a] \cap held[b] = {} /\ k \notin held[a] /\ k \notin held[b]
        BY <1>3, <2>3, <3>2
      <4>2. held'[a] \subseteq held[a] \cup {k} /\ held'[b] \subseteq held[b] \cup {k}
            /\ (held'[a] = held[a] \/ held'[b] = held[b])
        BY <2>2, <3>2, ZenonT(40)
      <4> QED
        BY <4>1, <4>2
    <3> QED
      BY <1>2, <3>1, <3>2 DEF SoleOwner
  <2>10. NothingLeaked'
    BY <1>3, <2>4, <2>5 DEF NothingLeaked, Leased
  <2>11. NoLostWakeup'
    <3>1. c \in Awake /\ Awake' = Awake \ {c} /\ Asleep' = Asleep
      BY <1>1, <1>3, <2>1 DEF Awake, Asleep, InState
    <3>2. Cardinality(Awake') = Cardinality(Awake) - 1 /\ Cardinality(Awake) \in Nat
      BY <1>1, <3>1, AwakeLess, AwakeFinite, ZenonT(40)
    <3>3. Asleep # {} => Len(idle) <= Cardinality(Awake)
      BY DEF IInv, NoLostWakeup, Awake, Asleep
    <3>4. Asleep' # {} => Len(idle') <= Cardinality(Awake')
      BY <1>2, <3>1, <3>2, <3>3
    <3> QED
      BY <1>1, <3>4 DEF NoLostWakeup, Awake, Asleep
  <2> QED
    BY <1>1, <2>8, <2>9, <2>10, <2>11 DEF IInv, Ownership, ClosedIsEmpty
<1>5. CASE LeaseFront(c)
  <2>1. Grant(c, h) /\ open' = (open \ {h}) \cup {h} /\ broken' \subseteq open'
    BY <1>2, <1>3, <1>5 DEF LeaseFront, h
  <2> QED
    BY <1>2, <1>4, <2>1
<1>6. CASE LeaseReplacement(c)
  <2>1. PICK k \in (Conns \ open) \cup {h} : open' = (open \ {h}) \cup {k} /\ Grant(c, k)
    BY <1>6 DEF LeaseReplacement, h
  <2>2. broken' \subseteq open'
    BY <1>3, <1>6, <2>1 DEF LeaseReplacement, h
  <2>3. k \in Conns /\ (k = h \/ k \notin open)
    BY <1>2
  <2> QED
    BY <1>4, <2>1, <2>2, <2>3
<1>7. CASE LeaseFails(c)
  <2>1. /\ open' = open \ {h} /\ broken' = broken \ {h} /\ held' = held
        /\ pc' = [x \in Clients |-> IF x = c THEN "out"
                                    ELSE IF pc[x] = "asleep" THEN "awake" ELSE pc[x]]
    BY <1>7 DEF LeaseFails, Finish, h
  <2>2. Leased' = Leased /\ open' = Idle' \cup Leased'
    BY <1>2, <1>3, <2>1 DEF Leased
  <2>3. Cardinality(open') <= PoolSize
    <3>1. Cardinality(open \ {h}) = Cardinality(open) - 1
      BY <1>2, <1>3, FS_RemoveElement, ZenonT(40)
    <3> QED
      BY <1>3, <2>1, <3>1
  <2>4. held' \in [Clients -> SUBSET open'] /\ pc' \in [Clients -> States]
    <3>1. \A d \in Clients : held'[d] \subseteq open'
      BY <1>3, <2>1, <2>2
    <3> QED
      BY <1>3, <2>1, <3>1 DEF States
  <2>5. TypeOK'
    BY <1>1, <1>2, <1>3, <2>1, <2>2, <2>4 DEF TypeOK
  <2>6. SoleOwner' /\ NothingLeaked'
    BY <1>2, <1>3, <2>1, <2>2, <2>3 DEF SoleOwner, NothingLeaked, Leased
  <2>7. Asleep' = {}
    BY <2>1 DEF Asleep, InState
  <2> QED
    BY <1>1, <2>5, <2>6, <2>7 DEF IInv, Ownership, ClosedIsEmpty, NoLostWakeup, Asleep
<1> QED
  BY <1>5, <1>6, <1>7 DEF Lease

LEMMA ReleaseIInv == ASSUME IInv, NEW c \in Clients, NEW k \in Conns, Release(c, k) PROVE IInv'
<1>1. /\ k \in held[c] /\ held' = [held EXCEPT ![c] = @ \ {k}] /\ closed' = closed /\ TypeOK
      /\ closed' \in BOOLEAN
  BY DEF Release, IInv, Ownership, TypeOK
<1>2. /\ open = Idle \cup Leased /\ Cardinality(open) <= PoolSize /\ PoolSize \in Nat
      /\ IsFiniteSet(open) /\ Cardinality(open) \in Nat /\ idle \in Seq(Conns) /\ Distinct(idle)
      /\ held \in [Clients -> SUBSET Conns] /\ pc \in [Clients -> States] /\ open \subseteq Conns
      /\ broken \subseteq open
      /\ \A d \in Clients : held[d] \cap Idle = {} /\ held[d] \subseteq Leased
      /\ \A a, b \in Clients : a # b => held[a] \cap held[b] = {}
  BY <1>1, OpenFinite, PoolAssumption DEF IInv, Ownership, NothingLeaked, Leased, TypeOK, SoleOwner
<1>3. /\ Leased' = Leased \ {k} /\ k \in Leased /\ k \notin Idle /\ k \in open
      /\ \A d \in Clients : held'[d] = held[d] \ {k}
  BY <1>1, <1>2, ReturnHeld, ZenonT(40)
<1>4. held' = [d \in Clients |-> held'[d]]
  BY <1>1, <1>2, ZenonT(40)
<1>5. CASE closed
  <2>1. /\ open' = open \ {k} /\ broken' = broken \ {k} /\ idle' = idle /\ pc' = pc
    BY <1>5 DEF Release, Queues, Finish
  <2>2. Idle' = Idle
    BY <2>1 DEF Idle, Elems
  <2>3. open' = Idle' \cup Leased'
    BY <1>2, <1>3, <2>1, <2>2
  <2>4. Cardinality(open') <= PoolSize
    <3>1. Cardinality(open \ {k}) = Cardinality(open) - 1
      <4>1. IsFiniteSet(open) /\ k \in open
        BY <1>2, <1>3
      <4> QED
        BY <4>1, FS_RemoveElement, ZenonT(40)
    <3> QED
      BY <1>2, <2>1, <3>1
  <2>5. held' \in [Clients -> SUBSET open']
    BY <1>2, <1>3, <1>4, <2>1
  <2>6. TypeOK'
    BY <1>1, <1>2, <2>1, <2>3, <2>5 DEF TypeOK
  <2>7. SoleOwner' /\ NothingLeaked'
    <3>1. Distinct(idle')
      BY <1>2, <2>1
    <3>2. \A d \in Clients : held'[d] \cap Idle' = {}
      BY <1>2, <1>3, <2>2
    <3>3. \A a, b \in Clients : a # b => held'[a] \cap held'[b] = {}
      BY <1>2, <1>3
    <3> QED
      BY <2>3, <2>4, <3>1, <3>2, <3>3 DEF SoleOwner, NothingLeaked, Leased
  <2>8. ClosedIsEmpty' /\ NoLostWakeup'
    BY <1>1, <1>5, <2>1 DEF IInv, ClosedIsEmpty, NoLostWakeup, InState
  <2> QED
    BY <2>6, <2>7, <2>8 DEF IInv, Ownership
<1>6. CASE ~closed
  <2>1. idle' = Append(idle, k) /\ NotifyOne /\ open' = open /\ broken' = broken
    BY <1>6 DEF Release, Queues
  <2>2. /\ idle' \in Seq(Conns) /\ Distinct(idle') /\ Len(idle') = Len(idle) + 1 /\ Len(idle) \in Nat
        /\ Idle' = Idle \cup {k}
    <3>1. k \in Conns /\ k \notin Elems(idle) /\ idle \in Seq(Conns) /\ Distinct(idle)
      BY <1>2, <1>3 DEF Idle
    <3> QED
      BY <2>1, <3>1, AppendElems DEF Idle
  <2>3. open' = Idle' \cup Leased'
    BY <1>2, <1>3, <2>1, <2>2
  <2>4. held' \in [Clients -> SUBSET open']
    BY <1>2, <1>3, <1>4, <2>1
  <2>5. pc' \in [Clients -> States]
    BY <1>2, <2>1 DEF NotifyOne, States, InState
  <2>6. TypeOK'
    BY <1>1, <1>2, <2>1, <2>2, <2>3, <2>4, <2>5 DEF TypeOK
  <2>7. SoleOwner' /\ NothingLeaked'
    <3>1. \A d \in Clients : held'[d] \cap Idle' = {}
      BY <1>2, <1>3, <2>2
    <3>2. \A a, b \in Clients : a # b => held'[a] \cap held'[b] = {}
      BY <1>2, <1>3
    <3> QED
      BY <1>2, <2>1, <2>2, <2>3, <3>1, <3>2 DEF SoleOwner, NothingLeaked, Leased
  <2>8. NoLostWakeup'
    <3>1. CASE Asleep = {}
      <4>1. Asleep' = {}
        BY <2>1, <3>1 DEF NotifyOne, Asleep, InState
      <4> QED
        BY <4>1 DEF NoLostWakeup, Asleep
    <3>2. CASE Asleep # {}
      <4>1. PICK w \in Asleep : pc' = [pc EXCEPT ![w] = "awake"]
        BY <2>1, <3>2 DEF NotifyOne, Asleep
      <4>2. w \in Clients /\ w \notin Awake /\ Awake' = Awake \cup {w}
        BY <1>2, <4>1 DEF Awake, Asleep, InState
      <4>3. Cardinality(Awake') = Cardinality(Awake) + 1 /\ Cardinality(Awake) \in Nat
        BY <1>1, <4>2, AwakeMore, AwakeFinite, ZenonT(40)
      <4>4. Len(idle) <= Cardinality(Awake)
        BY <3>2 DEF IInv, NoLostWakeup, Awake, Asleep
      <4>5. Len(idle') <= Cardinality(Awake')
        BY <2>2, <4>3, <4>4
      <4> QED
        BY <1>1, <1>6, <4>5 DEF NoLostWakeup, Awake
    <3> QED
      BY <3>1, <3>2
  <2> QED
    BY <1>1, <1>6, <2>6, <2>7, <2>8 DEF IInv, Ownership, ClosedIsEmpty
<1> QED
  BY <1>5, <1>6

LEMMA CloseIInv == ASSUME IInv, Close PROVE IInv'
<1>1. /\ idle' = <<>> /\ open' = open \ Idle /\ broken' = broken \ Idle /\ held' = held
      /\ pc' = [x \in Clients |-> IF pc[x] = "asleep" THEN "awake" ELSE pc[x]]
      /\ closed' = TRUE
  BY DEF Close, EmptyQueue
<1>2. /\ open = Idle \cup Leased /\ Cardinality(open) <= PoolSize /\ PoolSize \in Nat
      /\ IsFiniteSet(open) /\ Cardinality(open) \in Nat
      /\ held \in [Clients -> SUBSET Conns] /\ pc \in [Clients -> States] /\ open \subseteq Conns
      /\ broken \subseteq open
      /\ \A d \in Clients : held[d] \cap Idle = {} /\ held[d] \subseteq Leased
      /\ \A a, b \in Clients : a # b => held[a] \cap held[b] = {}
  BY OpenFinite, PoolAssumption DEF IInv, Ownership, NothingLeaked, Leased, TypeOK, SoleOwner
<1>3. Idle' = {} /\ Distinct(idle') /\ idle' \in Seq(Conns)
  BY <1>1 DEF Idle, Elems, Distinct
<1>4. Leased' = Leased /\ open' = Leased /\ open' = Idle' \cup Leased'
  BY <1>1, <1>2, <1>3 DEF Leased
<1>5. Cardinality(open') <= PoolSize
  <2>1. open' \subseteq open
    BY <1>1
  <2>2. Cardinality(open') <= Cardinality(open) /\ Cardinality(open') \in Nat
    BY <1>2, <2>1, FS_Subset, FS_CardinalityType
  <2> QED
    BY <1>2, <2>2
<1>6. held' \in [Clients -> SUBSET open'] /\ pc' \in [Clients -> States]
  BY <1>1, <1>2, <1>4 DEF States
<1>7. closed' \in BOOLEAN
  BY <1>1
<1>8. TypeOK'
  BY <1>1, <1>2, <1>3, <1>6, <1>7 DEF TypeOK
<1>9. SoleOwner' /\ NothingLeaked'
  BY <1>1, <1>2, <1>3, <1>4, <1>5 DEF SoleOwner, NothingLeaked, Leased
<1>10. ClosedIsEmpty' /\ NoLostWakeup'
  BY <1>1 DEF ClosedIsEmpty, NoLostWakeup, InState
<1> QED
  BY <1>8, <1>9, <1>10 DEF IInv, Ownership

LEMMA BreakIInv == ASSUME IInv, NEW k \in Conns, Break(k) PROVE IInv'
<1>1. /\ UNCHANGED <<idle, open, held, closed, pc>> /\ broken' \subseteq open
      /\ closed' \in BOOLEAN /\ pc' \in [Clients -> States]
  BY DEF Break, IInv, Ownership, TypeOK
<1>2. Ownership'
  BY <1>1, QuietOwnership DEF IInv
<1> QED
  BY <1>1, <1>2 DEF IInv, ClosedIsEmpty, NoLostWakeup, InState

LEMMA NextIInv == IInv /\ [Next]_vars => IInv'
<1> SUFFICES ASSUME IInv, [Next]_vars PROVE IInv'
  OBVIOUS
<1>1. CASE UNCHANGED vars
  <2>1. /\ UNCHANGED <<idle, open, held, closed, pc>> /\ broken' \subseteq open
        /\ closed' \in BOOLEAN /\ pc' \in [Clients -> States]
    BY <1>1 DEF vars, IInv, Ownership, TypeOK
  <2>2. Ownership'
    BY <2>1, QuietOwnership DEF IInv
  <2> QED
    BY <2>1, <2>2 DEF IInv, ClosedIsEmpty, NoLostWakeup, InState
<1> QED
  BY <1>1, ThreadIInv, LeaseIInv, ReleaseIInv, CloseIInv, BreakIInv DEF Next, Evaluate

LEMMA Invariance == Spec => []IInv
BY InitIInv, NextIInv, PTL DEF Spec

(* get_connection, the lease deleter and close(): no two threads ever use  *)
(* one connection, none leaks, no more than pool_size_ exist, and none is  *)
(* queued after the close.                                                 *)
THEOREM PoolOwnership == Spec => [](TypeOK /\ ConnectionsAccounted)
<1>1. IInv => TypeOK /\ ConnectionsAccounted
  BY DEF IInv, Ownership, ConnectionsAccounted
<1> QED
  BY <1>1, Invariance, PTL

(* The deleter's notify_one suffices: no thread sleeps beside an idle      *)
(* connection that nobody is awake to take, and none in a closed pool.     *)
THEOREM WakeupsSuffice == Spec => []NoLostWakeup
<1>1. IInv => NoLostWakeup
  BY DEF IInv
<1> QED
  BY <1>1, Invariance, PTL
=============================================================================
