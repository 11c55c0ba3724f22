--------------------------- MODULE Subscriptions ---------------------------
(***************************************************************************)
(* What the dispatch list promises: a relation between events and the      *)
(* VIRT_DEVs subscribed to them, and interrupts that hand an event to each *)
(* subscribed VIRT_DEV exactly once.                                       *)
(***************************************************************************)
EXTENDS Naturals

CONSTANTS Vdevs, Events

VARIABLES
  subscribed,  \* [Events -> SUBSET Vdevs]
  calls        \* how often the last interrupt called back each VIRT_DEV

AbsInit ==
  /\ subscribed = [e \in Events |-> {}]
  /\ calls = [v \in Vdevs |-> 0]

AbsSubscribe(v, e) ==
  /\ subscribed' = [subscribed EXCEPT ![e] = @ \cup {v}]
  /\ UNCHANGED calls

AbsUnsubscribe(v, e) ==
  /\ subscribed' = [subscribed EXCEPT ![e] = @ \ {v}]
  /\ UNCHANGED calls

AbsClear(v) ==
  /\ subscribed' = [e \in Events |-> subscribed[e] \ {v}]
  /\ UNCHANGED calls

AbsDispatch(e) ==
  /\ calls' = [v \in Vdevs |-> IF v \in subscribed[e] THEN 1 ELSE 0]
  /\ UNCHANGED subscribed

AbsNext ==
  \/ \E v \in Vdevs, e \in Events : AbsSubscribe(v, e) \/ AbsUnsubscribe(v, e)
  \/ \E v \in Vdevs : AbsClear(v)
  \/ \E e \in Events : AbsDispatch(e)

AbsSpec == AbsInit /\ [][AbsNext]_<<subscribed, calls>>
=============================================================================
