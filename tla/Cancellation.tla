----------------------------- MODULE Cancellation -----------------------------
(***************************************************************************)
(* async/cancellation.h: one CancellationSource shared by operations that  *)
(* register a callback (on_cancel) and drop it again (reset, also run by   *)
(* the destructor of the registration), and by threads that call cancel(). *)
(*                                                                         *)
(* cancel() is three steps: the exchange on the atomic flag, the swap of   *)
(* the callback map under the mutex, and the calls, made without the       *)
(* mutex.  on_cancel() tests the flag under the mutex and, when it is set, *)
(* calls back after the mutex has been released.                           *)
(***************************************************************************)
EXTENDS Naturals, FiniteSets, TLAPS

CONSTANTS Ops,         \* operations; each registers one callback
          Cancellers   \* threads that may call cancel()

VARIABLES cancelled,   \* State::cancelled
          callbacks,   \* State::callbacks, the operations whose callback is stored
          taken,       \* per canceller, the map it swapped out and has not finished
          opc,         \* where each operation is
          cpc,         \* where each canceller is
          runs,        \* how often each callback has started
          early        \* operations whose reset() returned before any cancel()

vars == <<cancelled, callbacks, taken, opc, cpc, runs, early>>

TypeOK ==
  /\ cancelled \in BOOLEAN
  /\ callbacks \subseteq Ops
  /\ taken \in [Cancellers -> SUBSET Ops]
  /\ opc \in [Ops -> {"idle", "invoke", "registered", "dead", "reset"}]
  /\ cpc \in [Cancellers -> {"idle", "swap", "run", "done"}]
  /\ runs \in [Ops -> Nat]
  /\ early \subseteq Ops
  /\ \A c \in Cancellers : taken[c] # {} => cpc[c] = "run"

Init ==
  /\ cancelled = FALSE
  /\ callbacks = {}
  /\ taken = [c \in Cancellers |-> {}]
  /\ opc = [o \in Ops |-> "idle"]
  /\ cpc = [c \in Cancellers |-> "idle"]
  /\ runs = [o \in Ops |-> 0]
  /\ early = {}

(* on_cancel under the mutex: store the callback, or notice that the token *)
(* is cancelled already; then the returned registration has id 0 ("dead"). *)
OnCancelUnchecked(o) ==
  /\ opc[o] = "idle"
  /\ opc' = [opc EXCEPT ![o] = "registered"]
  /\ callbacks' = callbacks \cup {o}
  /\ UNCHANGED <<cancelled, taken, cpc, runs, early>>

OnCancel(o) ==
  /\ opc[o] = "idle"
  /\ opc' = [opc EXCEPT ![o] = IF cancelled THEN "invoke" ELSE "registered"]
  /\ callbacks' = IF cancelled THEN callbacks ELSE callbacks \cup {o}
  /\ UNCHANGED <<cancelled, taken, cpc, runs, early>>

(* invoke_now: the call, outside the mutex.                                *)
InvokeNow(o) ==
  /\ opc[o] = "invoke"
  /\ opc' = [opc EXCEPT ![o] = "dead"]
  /\ runs' = [runs EXCEPT ![o] = @ + 1]
  /\ UNCHANGED <<cancelled, callbacks, taken, cpc, early>>

(* reset(): erase under the mutex; nothing to erase for id 0.              *)
Reset(o) ==
  /\ opc[o] \in {"registered", "dead"}
  /\ opc' = [opc EXCEPT ![o] = "reset"]
  /\ callbacks' = IF opc[o] = "registered" THEN callbacks \ {o} ELSE callbacks
  /\ early' = IF cancelled THEN early ELSE early \cup {o}
  /\ UNCHANGED <<cancelled, taken, cpc, runs>>

(* cancel(), the exchange: only the first caller goes on.                  *)
CancelExchange(c) ==
  /\ cpc[c] = "idle"
  /\ cancelled' = TRUE
  /\ cpc' = [cpc EXCEPT ![c] = IF cancelled THEN "done" ELSE "swap"]
  /\ UNCHANGED <<callbacks, taken, opc, runs, early>>

(* cancel(), the swap under the mutex.                                     *)
CancelSwap(c) ==
  /\ cpc[c] = "swap"
  /\ taken' = [taken EXCEPT ![c] = callbacks]
  /\ callbacks' = {}
  /\ cpc' = [cpc EXCEPT ![c] = "run"]
  /\ UNCHANGED <<cancelled, opc, runs, early>>

(* cancel(), one callback; the map is iterated in any order.               *)
CancelRunKeeping(c, o) ==
  /\ cpc[c] = "run" /\ o \in taken[c]
  /\ runs' = [runs EXCEPT ![o] = IF @ < 2 THEN @ + 1 ELSE @]
  /\ UNCHANGED <<cancelled, callbacks, taken, opc, cpc, early>>

CancelRun(c, o) ==
  /\ cpc[c] = "run" /\ o \in taken[c]
  /\ runs' = [runs EXCEPT ![o] = @ + 1]
  /\ taken' = [taken EXCEPT ![c] = @ \ {o}]
  /\ UNCHANGED <<cancelled, callbacks, opc, cpc, early>>

(* The loop is over when every callback of the swapped map has been called.*)
CancelReturn(c) ==
  /\ cpc[c] = "run" /\ taken[c] = {}
  /\ cpc' = [cpc EXCEPT ![c] = "done"]
  /\ UNCHANGED <<cancelled, callbacks, taken, opc, runs, early>>

Next ==
  \/ \E o \in Ops : OnCancel(o) \/ InvokeNow(o) \/ Reset(o)
  \/ \E c \in Cancellers :
       \/ CancelExchange(c) \/ CancelSwap(c) \/ CancelReturn(c)
       \/ \E o \in Ops : CancelRun(c, o)

(* A thread that is inside cancel() or on_cancel() is scheduled again.     *)
Fairness ==
  /\ \A o \in Ops : WF_vars(InvokeNow(o))
  /\ \A c \in Cancellers :
       /\ WF_vars(CancelSwap(c)) /\ WF_vars(CancelReturn(c))
       /\ \A o \in Ops : WF_vars(CancelRun(c, o))

Spec == Init /\ [][Next]_vars /\ Fairness

-----------------------------------------------------------------------------
(* "Arrange for `callback` to run once": with any number of threads in     *)
(* cancel(), and with a registration racing with them, a callback never    *)
(* starts twice.                                                           *)
RunsAtMostOnce == \A o \in Ops : runs[o] <= 1

(* A callback starts only when the token is cancelled, and never when its  *)
(* registration was reset before anybody called cancel().  (A reset that   *)
(* returns after the exchange may still be followed by the call: the       *)
(* canceller has swapped the map out and calls without the mutex.)         *)
RunsOnlyAfterCancel ==
  \A o \in Ops : runs[o] > 0 => cancelled /\ o \notin early

(* A callback that has been registered, was not reset and has not run is   *)
(* always in somebody's hands: still in the map, in the map a canceller    *)
(* swapped out, or about to be called by on_cancel itself.  Once the token *)
(* is cancelled, the map may hold one only while the winner of the         *)
(* exchange has yet to swap it.                                            *)
NoneForgotten ==
  /\ \A o \in Ops :
       opc[o] = "registered" /\ runs[o] = 0 =>
         o \in callbacks \/ \E c \in Cancellers : o \in taken[c]
  /\ cancelled /\ callbacks # {} => \E c \in Cancellers : cpc[c] = "swap"

(* A callback is called at most once, only after a cancel() that its reset *)
(* did not precede, and is never lost on the way to the canceller.         *)
CallbacksSound == RunsAtMostOnce /\ RunsOnlyAfterCancel /\ NoneForgotten

(* Every operation that holds a live registration when the token is        *)
(* cancelled is called back, unless it drops the registration first.       *)
CancelReachesEveryone ==
  \A o \in Ops :
    (cancelled /\ opc[o] \in {"registered", "invoke"}) ~> (runs[o] = 1 \/ opc[o] = "reset")

-----------------------------------------------------------------------------
(* The proof that CallbacksSound holds for any sets of operations and      *)
(* cancellers.  It is not inductive alone: that a callback runs at most    *)
(* once rests on there being a single winner of the exchange (Winner), on  *)
(* a callback being in at most one place (OnePlace), and on a callback     *)
(* that is still in some place not having run (Held).                      *)
Winner ==
  /\ \A c, d \in Cancellers :
       cpc[c] \in {"swap", "run"} /\ cpc[d] \in {"swap", "run"} => c = d
  /\ \A c \in Cancellers : cpc[c] # "idle" => cancelled
  /\ \A c \in Cancellers : taken[c] # {} => cpc[c] = "run"
  /\ \A c \in Cancellers : cpc[c] = "run" => callbacks = {}

OnePlace == \A c \in Cancellers : callbacks \cap taken[c] = {}

Held ==
  /\ \A o \in callbacks : runs[o] = 0 /\ opc[o] = "registered"
  /\ \A c \in Cancellers : \A o \in taken[c] : runs[o] = 0 /\ opc[o] \in {"registered", "reset"}
  /\ \A o \in Ops : opc[o] \in {"idle", "invoke"} => runs[o] = 0
  /\ \A o \in Ops : opc[o] \in {"invoke", "dead"} => cancelled
  /\ \A o \in early : opc[o] = "reset"
  /\ \A c \in Cancellers : early \cap taken[c] = {}

IInv == TypeOK /\ Winner /\ OnePlace /\ Held /\ RunsAtMostOnce /\ RunsOnlyAfterCancel /\ NoneForgotten

LEMMA InitIInv == Init => IInv
<1> SUFFICES ASSUME Init PROVE IInv
  OBVIOUS
<1>1. TypeOK
  BY ZenonT(40) DEF Init, TypeOK
<1>2. Winner /\ OnePlace /\ Held
  BY DEF Init, Winner, OnePlace, Held
<1>3. RunsAtMostOnce /\ RunsOnlyAfterCancel /\ NoneForgotten
  BY DEF Init, RunsAtMostOnce, RunsOnlyAfterCancel, NoneForgotten
<1> QED
  BY <1>1, <1>2, <1>3 DEF IInv

LEMMA NextIInv == IInv /\ [Next]_vars => IInv'
<1> SUFFICES ASSUME IInv, [Next]_vars PROVE IInv'
  OBVIOUS
<1> USE DEF IInv
<1>1. ASSUME NEW o \in Ops, OnCancel(o) PROVE IInv'
  <2>1. TypeOK' /\ Winner' /\ OnePlace' /\ Held'
    BY <1>1 DEF OnCancel, TypeOK, Winner, OnePlace, Held
  <2>2. RunsAtMostOnce' /\ RunsOnlyAfterCancel' /\ NoneForgotten'
    BY <1>1 DEF OnCancel, TypeOK, RunsAtMostOnce, RunsOnlyAfterCancel, NoneForgotten
  <2> QED
    BY <2>1, <2>2
<1>2. ASSUME NEW o \in Ops, InvokeNow(o) PROVE IInv'
  <2>1. TypeOK' /\ Winner' /\ OnePlace' /\ Held'
    BY <1>2 DEF InvokeNow, TypeOK, Winner, OnePlace, Held
  <2>2. RunsAtMostOnce' /\ RunsOnlyAfterCancel' /\ NoneForgotten'
    BY <1>2 DEF InvokeNow, TypeOK, RunsAtMostOnce, RunsOnlyAfterCancel, NoneForgotten, Held
  <2> QED
    BY <2>1, <2>2
<1>3. ASSUME NEW o \in Ops, Reset(o) PROVE IInv'
  <2>1. TypeOK' /\ Winner' /\ OnePlace' /\ Held'
    BY <1>3 DEF Reset, TypeOK, Winner, OnePlace, Held
  <2>2. RunsAtMostOnce' /\ RunsOnlyAfterCancel' /\ NoneForgotten'
    BY <1>3 DEF Reset, TypeOK, RunsAtMostOnce, RunsOnlyAfterCancel, NoneForgotten, Held
  <2> QED
    BY <2>1, <2>2
<1>4. ASSUME NEW c \in Cancellers, CancelExchange(c) PROVE IInv'
  <2>1. TypeOK' /\ Winner' /\ OnePlace' /\ Held'
    BY <1>4 DEF CancelExchange, TypeOK, Winner, OnePlace, Held
  <2>2. RunsAtMostOnce' /\ RunsOnlyAfterCancel' /\ NoneForgotten'
    BY <1>4 DEF CancelExchange, TypeOK, RunsAtMostOnce, RunsOnlyAfterCancel, NoneForgotten
  <2> QED
    BY <2>1, <2>2
<1>5. ASSUME NEW c \in Cancellers, CancelSwap(c) PROVE IInv'
  <2>1. TypeOK' /\ Winner' /\ OnePlace' /\ Held'
    BY <1>5 DEF CancelSwap, TypeOK, Winner, OnePlace, Held
  <2>2. RunsAtMostOnce' /\ RunsOnlyAfterCancel' /\ NoneForgotten'
    BY <1>5 DEF CancelSwap, TypeOK, Winner, RunsAtMostOnce, RunsOnlyAfterCancel, NoneForgotten
  <2> QED
    BY <2>1, <2>2
<1>6. ASSUME NEW c \in Cancellers, CancelReturn(c) PROVE IInv'
  <2>1. TypeOK' /\ Winner' /\ OnePlace' /\ Held'
    BY <1>6 DEF CancelReturn, TypeOK, Winner, OnePlace, Held
  <2>2. RunsAtMostOnce' /\ RunsOnlyAfterCancel' /\ NoneForgotten'
    BY <1>6 DEF CancelReturn, TypeOK, RunsAtMostOnce, RunsOnlyAfterCancel, NoneForgotten
  <2> QED
    BY <2>1, <2>2
<1>7. ASSUME NEW c \in Cancellers, NEW o \in Ops, CancelRun(c, o) PROVE IInv'
  <2>1. TypeOK' /\ Winner' /\ OnePlace' /\ Held'
    BY <1>7 DEF CancelRun, TypeOK, Winner, OnePlace, Held
  <2>2. RunsAtMostOnce' /\ RunsOnlyAfterCancel' /\ NoneForgotten'
    BY <1>7 DEF CancelRun, TypeOK, Winner, Held, RunsAtMostOnce, RunsOnlyAfterCancel, NoneForgotten
  <2> QED
    BY <2>1, <2>2
<1>8. CASE UNCHANGED vars
  BY <1>8 DEF vars, TypeOK, Winner, OnePlace, Held, RunsAtMostOnce, RunsOnlyAfterCancel, NoneForgotten
<1> QED
  BY <1>1, <1>2, <1>3, <1>4, <1>5, <1>6, <1>7, <1>8 DEF Next

(* on_cancel, reset() and cancel(): whatever the number of threads that    *)
(* cancel and of operations that register while they do, no callback       *)
(* starts twice or after a reset() that preceded the cancel(), and no      *)
(* registered one is lost between the map and the canceller.               *)
THEOREM CallbacksSafe == Spec => [](TypeOK /\ CallbacksSound)
<1>1. IInv => TypeOK /\ CallbacksSound
  BY DEF IInv, CallbacksSound
<1> QED
  BY <1>1, InitIInv, NextIInv, PTL DEF Spec
=============================================================================
