------------------------------- MODULE Container -------------------------------
(***************************************************************************)
(* RootContainer: build() looks for cycles (detect_cycles), orders the     *)
(* beans (build_topo_order), constructs the eager ones and initialises     *)
(* them (post_construct); afterwards threads resolve beans, and the lazy   *)
(* ones are constructed on first use under the recursive lazy_mutex_.      *)
(* shutdown() destroys what the container owns.                            *)
(*                                                                         *)
(* The registrations (deps, lazy) are any; maps are walked in any order.   *)
(* A factory resolves the declared dependencies of its bean, one by one.   *)
(* Factories and post_construct callbacks may throw.  resolve() looks into *)
(* instances_ without the mutex: while another thread inserts, which is a  *)
(* data race, it may find a bean or not.                                   *)
(***************************************************************************)
EXTENDS Integers, FiniteSets, Sequences, SequencesExt, Relation

CONSTANTS Beans, Threads, MaxCalls   \* bound: resolve() calls of the threads together

VARIABLES deps, lazy,     \* registrations_: dep_type_ids, is_lazy
          phase,          \* "dfs", "topo", "build", "post", "built", "refused", "failed", "down"
          color, path,    \* detect_cycles
          degree, queue,  \* build_topo_order
          order,          \* topo_order_; during "build", what is left of it
          instances, entries, owned,  \* instances_, lifecycle_, owned_instances_
          started,        \* history: beans whose post_construct has returned
          stack,          \* per thread: the beans it is constructing or looking up
          holder,         \* owner of lazy_mutex_, or "none"
          made,           \* history: constructed instances of each bean
          calls

graphVars == <<color, path, degree, queue, order>>
beanVars == <<instances, entries, owned, started, made>>
vars == <<deps, lazy, phase, graphVars, beanVars, stack, holder, calls>>

Main == "main"
Callers == Threads \cup {Main}

Init ==
  /\ deps \in [Beans -> SUBSET Beans] /\ lazy = {}
  /\ phase = "dfs"
  /\ color = [b \in Beans |-> "white"] /\ path = <<>>
  /\ degree = [b \in Beans |-> 0] /\ queue = <<>> /\ order = <<>>
  /\ instances = {} /\ entries = <<>> /\ owned = <<>> /\ started = {}
  /\ stack = [t \in Callers |-> <<>>] /\ holder = "none"
  /\ made = [b \in Beans |-> 0] /\ calls = 0

-----------------------------------------------------------------------------
(* detect_cycles: path holds the gray beans with their unvisited deps.     *)

Visit(b) == /\ color' = [color EXCEPT ![b] = "gray"]
            /\ path' = Append(path, [bean |-> b, todo |-> deps[b]])

DfsRoot ==
  /\ phase = "dfs" /\ path = <<>>
  /\ \E b \in Beans : color[b] = "white" /\ Visit(b)
  /\ UNCHANGED <<deps, lazy, phase, degree, queue, order, beanVars, stack, holder, calls>>

OnPath(d) == color[d] = "gray"

DfsDependency ==
  /\ phase = "dfs" /\ path # <<>>
  /\ \E d \in Last(path).todo :
       LET rest == [path EXCEPT ![Len(path)].todo = @ \ {d}]
       IN \/ OnPath(d) /\ phase' = "refused" /\ UNCHANGED <<color, path>>
          \/ ~OnPath(d) /\ color[d] = "white" /\ UNCHANGED phase
             /\ color' = [color EXCEPT ![d] = "gray"]
             /\ path' = Append(rest, [bean |-> d, todo |-> deps[d]])
          \/ ~OnPath(d) /\ color[d] # "white" /\ path' = rest /\ UNCHANGED <<phase, color>>
  /\ UNCHANGED <<deps, lazy, degree, queue, order, beanVars, stack, holder, calls>>

DfsLeave ==
  /\ phase = "dfs" /\ path # <<>> /\ Last(path).todo = {}
  /\ color' = [color EXCEPT ![Last(path).bean] = "black"]
  /\ path' = Front(path)
  /\ UNCHANGED <<deps, lazy, phase, degree, queue, order, beanVars, stack, holder, calls>>

(* build_topo_order: the degrees, then the queue.  Which of the beans are  *)
(* lazy matters from here on and is chosen here.                           *)
Permutation(s, set) == ToSet(s) = set /\ Len(s) = Cardinality(set)
Orders(set) == {s \in UNION {[1..n -> set] : n \in 0..Cardinality(set)} : Permutation(s, set)}

TopoStart ==
  /\ phase = "dfs" /\ path = <<>> /\ \A b \in Beans : color[b] = "black"
  /\ phase' = "topo"
  /\ degree' = [b \in Beans |-> Cardinality(deps[b])]
  /\ queue' \in Orders({b \in Beans : deps[b] = {}})
  /\ lazy' \in SUBSET Beans
  /\ UNCHANGED <<deps, color, path, order, beanVars, stack, holder, calls>>

TopoPop ==
  /\ phase = "topo" /\ queue # <<>>
  /\ LET b == Head(queue)
         dependents == {d \in Beans : b \in deps[d]}
     IN /\ order' = Append(order, b)
        /\ degree' = [d \in Beans |-> IF d \in dependents THEN degree[d] - 1 ELSE degree[d]]
        /\ \E ready \in Orders({d \in dependents : degree'[d] = 0}) : queue' = Tail(queue) \o ready
  /\ UNCHANGED <<deps, lazy, phase, color, path, beanVars, stack, holder, calls>>

TopoDone ==
  /\ phase = "topo" /\ queue = <<>>
  /\ phase' = "build"
  /\ UNCHANGED <<deps, lazy, graphVars, beanVars, stack, holder, calls>>

-----------------------------------------------------------------------------
(* Construction.  A frame is a bean with the deps its factory has still to *)
(* resolve and a step: "find" and "lock" (resolve), "deps" (factory),      *)
(* "insert" (instances_), "post".                                          *)

Frame(b, at) == [bean |-> b, todo |-> IF at = "deps" THEN deps[b] ELSE {}, at |-> at]
Top(t) == Last(stack[t])
Moved(t, at) == [stack EXCEPT ![t] = Append(Front(@), Frame(Top(t).bean, at))]
Returned(t) == [stack EXCEPT ![t] = Front(@)]

(* The mutex is recursive: it is held as long as a lazy frame is under     *)
(* construction.                                                           *)
Locked(t, frames) == \E i \in DOMAIN frames : frames[i].at \in {"deps", "insert", "post"} /\ frames[i].bean \in lazy
SetStack(t, s) ==
  /\ stack' = s
  /\ holder' = IF Locked(t, s[t]) THEN t ELSE IF holder = t THEN "none" ELSE holder

(* An exception leaves the whole call.                                     *)
Throw(t) ==
  /\ SetStack(t, [stack EXCEPT ![t] = <<>>])
  /\ phase' = IF t = Main THEN "failed" ELSE phase

(* build(): the next bean; a lazy one is skipped.                          *)
BuildNext ==
  /\ phase = "build" /\ stack[Main] = <<>> /\ order # <<>>
  /\ order' = Tail(order)
  /\ SetStack(Main, IF Head(order) \in lazy THEN stack
                    ELSE [stack EXCEPT ![Main] = <<Frame(Head(order), "deps")>>])
  /\ UNCHANGED <<deps, lazy, phase, color, path, degree, queue, beanVars, calls>>

Call(t, b) ==
  /\ phase = "built" /\ stack[t] = <<>> /\ calls < MaxCalls
  /\ calls' = calls + 1
  /\ SetStack(t, [stack EXCEPT ![t] = <<Frame(b, "find")>>])
  /\ UNCHANGED <<deps, lazy, phase, graphVars, beanVars>>

(* resolve<T>() without the mutex.                                         *)
Inserting(t) == \E u \in Callers \ {t} : stack[u] # <<>> /\ Top(u).at = "insert"
Find(t) ==
  /\ stack[t] # <<>> /\ Top(t).at = "find"
  /\ \/ Top(t).bean \in instances /\ SetStack(t, Returned(t)) /\ UNCHANGED phase
     \/ /\ Top(t).bean \notin instances \/ Inserting(t)
        /\ IF Top(t).bean \in lazy THEN SetStack(t, Moved(t, "lock")) /\ UNCHANGED phase ELSE Throw(t)
  /\ UNCHANGED <<deps, lazy, graphVars, beanVars, calls>>

(* resolve_lazy_singleton: the mutex and the second look.                  *)
LockedNoLook(t) == FALSE
LockedLookAgain(t) == Top(t).bean \in instances
LockLazy(t) ==
  /\ stack[t] # <<>> /\ Top(t).at = "lock" /\ holder \in {"none", t}
  /\ SetStack(t, IF LockedLookAgain(t) THEN Returned(t) ELSE Moved(t, "deps"))
  /\ UNCHANGED <<deps, lazy, phase, graphVars, beanVars, calls>>

(* The factory: resolves a dependency, returns the bean, or throws.        *)
Factory(t) ==
  /\ stack[t] # <<>> /\ Top(t).at = "deps"
  /\ \/ /\ \E d \in Top(t).todo :
             SetStack(t, [stack EXCEPT ![t] = Append([@ EXCEPT ![Len(@)].todo = @ \ {d}], Frame(d, "find"))])
        /\ UNCHANGED <<phase, made>>
     \/ /\ Top(t).todo = {}
        /\ SetStack(t, Moved(t, "insert"))
        /\ made' = [made EXCEPT ![Top(t).bean] = @ + 1]
        /\ UNCHANGED phase
     \/ Throw(t) /\ UNCHANGED made
  /\ UNCHANGED <<deps, lazy, graphVars, instances, entries, owned, started, calls>>

(* instances_[tid] = raw.  build() also records the bean for its lifecycle *)
(* and for destruction.                                                    *)
Insert(t) ==
  /\ stack[t] # <<>> /\ Top(t).at = "insert"
  /\ instances' = instances \cup {Top(t).bean}
  /\ IF Top(t).bean \in lazy
     THEN SetStack(t, Moved(t, "post")) /\ UNCHANGED <<entries, owned>>
     ELSE /\ SetStack(t, Returned(t))
          /\ entries' = Append(entries, Top(t).bean) /\ owned' = Append(owned, Top(t).bean)
  /\ UNCHANGED <<deps, lazy, phase, graphVars, started, made, calls>>

(* A lazy bean's post_construct, after which it is owned.                  *)
PostLazy(t) ==
  /\ stack[t] # <<>> /\ Top(t).at = "post"
  /\ \/ /\ started' = started \cup {Top(t).bean} /\ owned' = Append(owned, Top(t).bean)
        /\ SetStack(t, Returned(t)) /\ UNCHANGED phase
     \/ Throw(t) /\ UNCHANGED <<started, owned>>
  /\ UNCHANGED <<deps, lazy, graphVars, instances, entries, made, calls>>

(* invoke_post_constructs over the eager beans, in order of construction.  *)
BuildPost ==
  /\ phase = "build" /\ stack[Main] = <<>> /\ order = <<>>
  /\ phase' = "post"
  /\ UNCHANGED <<deps, lazy, graphVars, beanVars, stack, holder, calls>>

PostEager ==
  /\ phase = "post"
  /\ LET left == SelectSeq(entries, LAMBDA b : b \notin started)
     IN IF left = <<>> THEN phase' = "built" /\ UNCHANGED started
        ELSE \/ started' = started \cup {Head(left)} /\ UNCHANGED phase
             \/ phase' = "failed" /\ UNCHANGED started
  /\ UNCHANGED <<deps, lazy, graphVars, instances, entries, owned, made, stack, holder, calls>>

(* shutdown(), after the threads have ended: pre_destroy for the entries,  *)
(* then destruction of the owned beans, both last first.                   *)
Shutdown ==
  /\ phase = "built" /\ \A t \in Callers : stack[t] = <<>>
  /\ phase' = "down"
  /\ instances' = {} /\ owned' = <<>>
  /\ UNCHANGED <<deps, lazy, graphVars, entries, started, made, stack, holder, calls>>

Next ==
  \/ DfsRoot \/ DfsDependency \/ DfsLeave \/ TopoStart \/ TopoPop \/ TopoDone
  \/ BuildNext \/ BuildPost \/ PostEager \/ Shutdown
  \/ \E t \in Threads, b \in Beans : Call(t, b)
  \/ \E t \in Callers : Find(t) \/ LockLazy(t) \/ Factory(t) \/ Insert(t) \/ PostLazy(t)

Spec == Init /\ [][Next]_vars

-----------------------------------------------------------------------------
TypeOK ==
  /\ \A b \in Beans : color[b] \in {"white", "gray", "black"} /\ degree[b] \in 0..Cardinality(Beans)
  /\ holder \in Callers \cup {"none"} /\ instances \subseteq Beans

Needs == TransitiveClosure([e \in Beans \X Beans |-> e[2] \in deps[e[1]]], Beans)
Cyclic == \E b \in Beans : Needs[b, b]

(* build() refuses the registrations exactly when some bean needs itself,  *)
(* through any number of others.                                           *)
CyclesRefused == (phase = "refused" => Cyclic) /\ (phase = "topo" => ~Cyclic)

(* A bean has one instance, whoever resolves it first and however many     *)
(* threads race for it; a lazy one whose factory threw can be made later.  *)
OneInstance ==
  \A b \in Beans : made[b] <= 1 /\ (b \in instances => made[b] = 1)

(* The build never asks for a dependency that is not there: it fails only  *)
(* when a factory or a callback throws.                                    *)
DependenciesFirst ==
  /\ \A t \in Callers : stack[t] # <<>> /\ Top(t).at \in {"insert", "post"} => deps[Top(t).bean] \subseteq instances
  /\ phase = "built" => Beans \ lazy \subseteq instances /\ Beans \ lazy \subseteq started

(* Destruction runs backwards through owned_instances_: no bean is         *)
(* destroyed before one that was constructed with a reference to it.       *)
DestroyedAfterUsers ==
  \A i, j \in DOMAIN owned : i < j => owned[j] \notin deps[owned[i]]

(* What is findable is destroyed once: only a lazy bean whose              *)
(* post_construct has not returned, or has thrown, is without an owner.    *)
OwnedOnce ==
  \A b \in instances :
    Cardinality({i \in DOMAIN owned : owned[i] = b}) = IF b \in lazy \ started THEN 0 ELSE 1
================================================================================
