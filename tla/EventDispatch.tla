--------------------------- MODULE EventDispatch ---------------------------
(***************************************************************************)
(* Subscriptions of one MNG_DEV: the dispatch list of event-list.c, the    *)
(* calls that change it (SUBSCRIBE ioctl, last close, VIRT_DEV             *)
(* destruction), the update of the hardware that follows each change, and  *)
(* the interrupts that walk the list.                                      *)
(*                                                                         *)
(* Callers hold the devref lock across both halves of a change; interrupts *)
(* hold only the spin lock, so they see the list between the halves.       *)
(***************************************************************************)
EXTENDS Naturals, FiniteSets

CONSTANTS
  Vdevs,              \* VIRT_DEVs of the MNG_DEV
  Events,             \* 0 .. EVENT_LIST_TYPE_MAX_EVENTS - 1
  MAX_SUBSCRIBERS,    \* EVENT_DISPATCH_LIST_MAX_SUBSCRIBERS
  NULL,
  MaxOpen,            \* bound: open files of one VIRT_DEV
  OpenWhileProbing,   \* may an application be faster than the probe's last step?
  DestroyWhileOpen    \* may the manager destroy a VIRT_DEV that is open?

ASSUME DispatchAssumption ==
  /\ MAX_SUBSCRIBERS \in Nat \ {0}
  /\ NULL \notin Vdevs
  /\ MaxOpen \in Nat
  /\ OpenWhileProbing \in BOOLEAN /\ DestroyWhileOpen \in BOOLEAN

Index == 0 .. MAX_SUBSCRIBERS - 1
Row == [Index -> Vdevs \cup {NULL}]

VARIABLES
  subs,           \* list->subs
  calls,          \* how often the last interrupt called back each VIRT_DEV
  hw_events,      \* events the hardware is set to deliver
  ref_lock,       \* holder of the devref lock: the VIRT_DEV acted on, or NULL
  pc,             \* progress of the holder's on_subscribe_change
  all_subscriptions,  \* its local copy
  usage_counter,  \* vdev_des->usage_counter, the number of open files, which may
                  \* be open on a descriptor that was freed
  exists,         \* VIRT_DEVs created and not destroyed
  device,         \* devref_ptr: is the hardware still there?
  probing         \* modac_mngdev_create has not yet made its last call

dispatchVars == <<subs, calls, hw_events, ref_lock, pc, all_subscriptions,
                  usage_counter, exists, device, probing>>

EDTypeOK ==
  /\ subs \in [Events -> Row]
  /\ calls \in [Vdevs -> Nat]
  /\ hw_events \subseteq Events
  /\ ref_lock \in Vdevs \cup {NULL}
  /\ pc \in {"idle", "changed", "copied"}
  /\ all_subscriptions \subseteq Events
  /\ usage_counter \in [Vdevs -> 0 .. MaxOpen]
  /\ exists \subseteq Vdevs
  /\ device \in BOOLEAN /\ probing \in BOOLEAN

EDInit ==
  /\ subs = [e \in Events |-> [i \in Index |-> NULL]]
  /\ calls = [v \in Vdevs |-> 0]
  /\ hw_events = {}
  /\ ref_lock = NULL /\ pc = "idle" /\ all_subscriptions = {}
  /\ usage_counter = [v \in Vdevs |-> 0]
  /\ exists = {}
  /\ device = TRUE /\ probing = TRUE

-----------------------------------------------------------------------------
(* event-list.c                                                            *)

\* The walk along a row gets as far as i.
Reaches(row, i) == \A j \in Index : j < i => row[j] # NULL

\* event_dispatch_list_add: the first free place, unless the subscriber is met
\* before it.
WithSubscriber(row, s) ==
  [i \in Index |->
     IF /\ row[i] = NULL
        /\ \A j \in Index : j < i => row[j] # NULL /\ row[j] # s
     THEN s ELSE row[i]]

\* -ENOMEM: neither a free place nor the subscriber was met.
RowFull(row, s) == \A i \in Index : row[i] # NULL /\ row[i] # s

\* Variant with a fault: the place is cleared, the rest does not move up.
WithoutSubscriberHole(row, s) ==
  [i \in Index |-> IF row[i] = s /\ Reaches(row, i) THEN NULL ELSE row[i]]

\* event_dispatch_list_remove: from the subscriber's place on, all move by one.
WithoutSubscriber(row, s) ==
  [i \in Index |->
     IF \E j \in Index : j <= i /\ row[j] = s /\ Reaches(row, j)
     THEN IF i + 1 \in Index THEN row[i + 1] ELSE NULL
     ELSE row[i]]

\* event_dispatch_list_remove_all.
WithoutSubscriberAnywhere(list, s) ==
  [e \in Events |-> WithoutSubscriber(list[e], s)]

\* event_dispatch_list_add_subscribed_events: only the first place is looked at.
SubscribedEvents(list) == {e \in Events : list[e][0] # NULL}

\* Variant with a fault: the walk ends after the first call.
CalledBackFirst(row) == {i \in Index : i = 0 /\ row[i] # NULL}

\* event_dispatch_list_for_all_subscribers: the places called back.
CalledBack(row) == {i \in Index : row[i] # NULL /\ Reaches(row, i)}

-----------------------------------------------------------------------------
(* Changes, under the devref lock.  A file works on its descriptor whether *)
(* or not DESTROY has freed it, and finds there what it last held.         *)

Lock(v) == ref_lock = NULL /\ ref_lock' = v
Frame == UNCHANGED <<calls, hw_events, all_subscriptions, device, probing>>

\* modac_c_vdev_subscribe: the list part.
Subscribe(v, e) ==
  /\ device /\ usage_counter[v] > 0
  /\ ~RowFull(subs[e], v)
  /\ Lock(v)
  /\ subs' = [subs EXCEPT ![e] = WithSubscriber(@, v)]
  /\ pc' = "changed"
  /\ UNCHANGED <<usage_counter, exists>> /\ Frame

\* The list is full: the ioctl returns -ENOMEM before the hardware is touched.
SubscribeRefused(v, e) ==
  /\ device /\ usage_counter[v] > 0 /\ ref_lock = NULL
  /\ RowFull(subs[e], v)
  /\ UNCHANGED dispatchVars

\* So do an event out of range and an unknown action: they change nothing, as
\* for a VIRT_DEV that is not on the list.
Unsubscribe(v, e) ==
  /\ device /\ usage_counter[v] > 0
  /\ Lock(v)
  /\ subs' = [subs EXCEPT ![e] = WithoutSubscriber(@, v)]
  /\ pc' = "changed"
  /\ UNCHANGED <<usage_counter, exists>> /\ Frame

Clear(v) ==
  /\ device /\ usage_counter[v] > 0
  /\ Lock(v)
  /\ subs' = WithoutSubscriberAnywhere(subs, v)
  /\ pc' = "changed"
  /\ UNCHANGED <<usage_counter, exists>> /\ Frame

\* Variant with a fault: the counter of a closed VIRT_DEV is decremented.
CloseUnbalanced(v) ==
  /\ usage_counter[v] > 0 \/ v \in exists
  /\ ref_lock = NULL
  /\ usage_counter' = [usage_counter EXCEPT ![v] = @ - 1]
  /\ UNCHANGED <<subs, ref_lock, pc, exists>> /\ Frame

\* modac_c_vdev_on_close, not the last.
Close(v) ==
  /\ usage_counter[v] > 1
  /\ ref_lock = NULL
  /\ usage_counter' = [usage_counter EXCEPT ![v] = @ - 1]
  /\ UNCHANGED <<subs, ref_lock, pc, exists>> /\ Frame

\* Variant with a fault: on_subscribe_change is not called.
LastCloseQuietly(v) ==
  /\ usage_counter[v] = 1
  /\ ref_lock = NULL
  /\ usage_counter' = [usage_counter EXCEPT ![v] = 0]
  /\ subs' = WithoutSubscriberAnywhere(subs, v)
  /\ UNCHANGED <<ref_lock, pc, exists>> /\ Frame

\* The last close takes the VIRT_DEV off the list, with or without the hardware.
LastClose(v) ==
  /\ usage_counter[v] = 1
  /\ Lock(v)
  /\ usage_counter' = [usage_counter EXCEPT ![v] = 0]
  /\ subs' = WithoutSubscriberAnywhere(subs, v)
  /\ pc' = "changed"
  /\ UNCHANGED exists /\ Frame

\* list_destroy_vdev, from the DESTROY ioctl, which does not look at usage_counter
\* and closes no file, or from mngdev_destroy_now once the device is gone and
\* everything is closed.
Destroy(v) ==
  /\ device \/ \A w \in Vdevs : usage_counter[w] = 0
  /\ DestroyWhileOpen \/ usage_counter[v] = 0
  /\ v \in exists
  /\ Lock(v)
  /\ subs' = WithoutSubscriberAnywhere(subs, v)
  /\ pc' = "changed"
  /\ exists' = exists \ {v}
  /\ UNCHANGED usage_counter /\ Frame

\* The CREATE ioctl: a new descriptor, not open, not subscribed.  Bound: it is not
\* one that was freed and on which a file is open still.
Create(v) ==
  /\ device /\ v \notin exists /\ ref_lock = NULL
  /\ usage_counter[v] = 0
  /\ probing => OpenWhileProbing
  /\ exists' = exists \cup {v}
  /\ UNCHANGED <<subs, ref_lock, pc, usage_counter>> /\ Frame

\* modac_c_vdev_on_open.
Open(v) ==
  /\ device /\ v \in exists /\ ref_lock = NULL
  /\ usage_counter[v] < MaxOpen
  /\ usage_counter' = [usage_counter EXCEPT ![v] = @ + 1]
  /\ UNCHANGED <<subs, ref_lock, pc, exists>> /\ Frame

-----------------------------------------------------------------------------
(* on_subscribe_change, still under the devref lock.                       *)

\* The copy, made under the spin lock.
CopySubscriptions ==
  /\ pc = "changed"
  /\ pc' = "copied"
  /\ all_subscriptions' = SubscribedEvents(subs)
  /\ UNCHANGED <<subs, calls, hw_events, ref_lock, usage_counter, exists, device,
                 probing>>

\* hw_support->on_subscribe_change if the device is still living; unlock.
UpdateHardware ==
  /\ pc = "copied"
  /\ pc' = "idle"
  /\ ref_lock' = NULL
  /\ all_subscriptions' = {}
  /\ hw_events' = IF device THEN all_subscriptions ELSE hw_events
  /\ UNCHANGED <<subs, calls, usage_counter, exists, device, probing>>

\* The last call of modac_mngdev_create: the device, already published, is set
\* to deliver nothing.  No lock is held.
FinishProbe ==
  /\ probing
  /\ probing' = FALSE
  /\ hw_events' = {}
  /\ UNCHANGED <<subs, calls, ref_lock, pc, all_subscriptions, usage_counter,
                 exists, device>>

\* modac_mngdev_destroy: devref_invalidate under the devref lock.
Unplug ==
  /\ device /\ ~probing /\ ref_lock = NULL
  /\ device' = FALSE
  /\ UNCHANGED <<subs, calls, hw_events, ref_lock, pc, all_subscriptions,
                 usage_counter, exists, probing>>

\* modac_mngdev_process_event, under the spin lock: any event the hardware
\* raises, at any moment.
Dispatch(e) ==
  /\ device
  /\ calls' = [v \in Vdevs |->
                 Cardinality({i \in CalledBack(subs[e]) : subs[e][i] = v})]
  /\ UNCHANGED <<subs, hw_events, ref_lock, pc, all_subscriptions, usage_counter,
                 exists, device, probing>>

EDNext ==
  \/ \E v \in Vdevs, e \in Events :
       Subscribe(v, e) \/ SubscribeRefused(v, e) \/ Unsubscribe(v, e)
  \/ \E v \in Vdevs :
       \/ Clear(v) \/ Close(v) \/ LastClose(v)
       \/ Destroy(v) \/ Create(v) \/ Open(v)
  \/ CopySubscriptions \/ UpdateHardware \/ FinishProbe \/ Unplug
  \/ \E e \in Events : Dispatch(e)

EDSpec == EDInit /\ [][EDNext]_dispatchVars

-----------------------------------------------------------------------------
(* Properties.                                                             *)

\* A row has no gap and names nobody twice.
RowIsSet(row) ==
  \A i, j \in Index :
    i < j /\ row[j] # NULL => row[i] # NULL /\ row[i] # row[j]

\* Rows stay so after any history of subscribing and removing: the walks of
\* event-list.c stop at the first NULL and look at the first place only, and
\* would otherwise miss or repeat a subscriber.
RowsAreSets == \A e \in Events : RowIsSet(subs[e])

\* Nobody is on the list who is closed or destroyed: no interrupt calls back a
\* descriptor that list_destroy_vdev has freed.  It holds only while no VIRT_DEV is
\* destroyed that is open (DestroyWhileOpen): its file could subscribe again.
OnlyOpenSubscribed ==
  \A e \in Events : \A i \in Index :
    subs[e][i] # NULL => subs[e][i] \in exists /\ usage_counter[subs[e][i]] > 0

\* mng-dev.c calls the hardware "every time the subscriptions change"
\* (hw-support.h:76): between changes the hardware delivers exactly the events
\* somebody is subscribed to.
HardwareFollowsList ==
  device /\ ref_lock = NULL => hw_events = SubscribedEvents(subs)

\* A row as the set it stands for.
Members(row) == {row[i] : i \in Index} \ {NULL}

\* The list implements the relation: whatever an interrupt finds between the two
\* halves of a change, every subscribed VIRT_DEV is called exactly once.
Subscribed == [e \in Events |-> Members(subs[e])]
Abstract == INSTANCE Subscriptions WITH subscribed <- Subscribed
ImplementsSubscriptions == Abstract!AbsSpec
=============================================================================
