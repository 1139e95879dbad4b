---------------------------- MODULE BoundedChannel ----------------------------
(***************************************************************************)
(* What a bounded channel between many producers and one consumer promises *)
(* to both: items arrive in the order in which they were accepted, each    *)
(* once, at most Capacity are under way, a closed channel accepts nothing, *)
(* and a consumer that has stopped gets nothing more.  The consumer ends   *)
(* in order only once the channel is closed; it may be lost at any time.   *)
(***************************************************************************)
EXTENDS Integers, Sequences

CONSTANTS Items, Capacity

VARIABLES sent,      \* items accepted from the producers
          received,  \* items the consumer has got
          closed,    \* nothing more is accepted
          consumer   \* "reading", "ended" (in order) or "lost"

vars == <<sent, received, closed, consumer>>

Init ==
  /\ sent = <<>> /\ received = <<>>
  /\ closed = FALSE /\ consumer = "reading"

Put(x) ==
  /\ ~closed /\ Len(sent) - Len(received) < Capacity
  /\ sent' = Append(sent, x)
  /\ UNCHANGED <<received, closed, consumer>>

Get ==
  /\ consumer = "reading" /\ Len(received) < Len(sent)
  /\ received' = Append(received, sent[Len(received) + 1])
  /\ UNCHANGED <<sent, closed, consumer>>

Close == closed' = TRUE /\ UNCHANGED <<sent, received, consumer>>

End ==
  /\ consumer = "reading" /\ closed
  /\ consumer' = "ended"
  /\ UNCHANGED <<sent, received, closed>>

Lose == consumer' = "lost" /\ UNCHANGED <<sent, received, closed>>

Next == (\E x \in Items : Put(x)) \/ Get \/ Close \/ End \/ Lose

Spec == Init /\ [][Next]_vars
=============================================================================
