------------------------------ MODULE VdevRead ------------------------------
(***************************************************************************)
(* Reading the events of one VIRT_DEV: the interrupt side                  *)
(* (modac_vdev_put_cb, modac_vdev_notify) against any number of threads in *)
(* vdev_read and vdev_poll.  The module adds to PacketQueue the set of     *)
(* notified events, the wait queue and the control of the readers.         *)
(*                                                                         *)
(* The MNG_DEV spin lock protects notified_events.  The writer holds it    *)
(* for the whole of a put (modac_mngdev_process_event), so it is free      *)
(* exactly when wpc is "idle"; the readers' critical sections under it are *)
(* single steps.  The direct-access lock that vdev_read and vdev_poll also *)
(* take matters only for hot-unplug and is the subject of HotUnplug.       *)
(***************************************************************************)
EXTENDS PacketQueue, FiniteSets

CONSTANTS
  NotifyEvents,   \* events that only notify (EUT_NOTIFY_ONLY), numbered
  BufLens         \* bound: the buffer lengths, in bytes, that reads pass

ASSUME ReadAssumption ==
  /\ NotifyEvents \subseteq Nat
  /\ IsFiniteSet(NotifyEvents)
  /\ BufLens \subseteq Nat

\* sizeof(u16) + CBUF_EVENT_ENTRY_DATA_LENGTH: room for any event.
FullEvent == 2 + CBUF_EVENT_ENTRY_DATA_LENGTH

VARIABLES
  notified_events,  \* vdev->notified_events
  wait_queue,       \* threads on vdev->wait_queue_events
  upc,              \* where each thread is in vdev_read or vdev_poll
  call,             \* which of the two, and whether O_NONBLOCK
  buf_still_free,   \* local of vdev_read
  got               \* count_read > 0

Calls == {"read", "read_nonblock", "poll"}
ReaderPc == {"user", "notified", "cb",
             "prepare", "check_cb", "check_notified", "sleep"}

readVars == <<notified_events, wait_queue, upc, call, buf_still_free, got>>
vdVars == <<pqVars, readVars>>

VDTypeOK ==
  /\ PQTypeOK
  /\ notified_events \subseteq NotifyEvents
  /\ wait_queue \subseteq Readers
  /\ upc \in [Readers -> ReaderPc]
  /\ call \in [Readers -> Calls]
  /\ buf_still_free \in [Readers -> Nat]
  /\ got \in [Readers -> BOOLEAN]

VDInit ==
  /\ PQInit
  /\ notified_events = {}
  /\ wait_queue = {}
  /\ upc = [r \in Readers |-> "user"]
  /\ call = [r \in Readers |-> "read"]
  /\ buf_still_free = [r \in Readers |-> 0]
  /\ got = [r \in Readers |-> FALSE]

Goto(r, pc) == upc' = [upc EXCEPT ![r] = pc]

\* Back to the application; the locals of the call are gone.
Return(r) ==
  /\ Goto(r, "user")
  /\ call' = [call EXCEPT ![r] = "read"]
  /\ buf_still_free' = [buf_still_free EXCEPT ![r] = 0]
  /\ got' = [got EXCEPT ![r] = FALSE]

-----------------------------------------------------------------------------
(* Interrupt context, under the MNG_DEV spin lock.                         *)

\* modac_vdev_put_cb up to the wake-up.
PutEvent ==
  /\ PutTooLong \/ PutStore \/ PutCommit \/ \E l \in Lengths : PutBegin(l)
  /\ UNCHANGED readVars

\* Variant with a fault: the put ends without a wake-up.
PutWithoutWakeUp == PutWake /\ UNCHANGED readVars

\* wake_up_interruptible at the end of modac_cb_put.
PutWakeUp ==
  /\ PutWake
  /\ wait_queue' = {}
  /\ UNCHANGED <<notified_events, upc, call, buf_still_free, got>>

\* modac_vdev_notify.
Notify(event) ==
  /\ wpc = "idle"
  /\ notified_events' = notified_events \cup {event}
  /\ wait_queue' = {}
  /\ UNCHANGED <<pqVars, upc, call, buf_still_free, got>>

-----------------------------------------------------------------------------
(* vdev_read and vdev_poll.                                                *)

\* The application calls read; a buffer too small for one event is refused.
ReadCall(r) ==
  /\ upc[r] = "user"
  /\ \E len \in BufLens, c \in {"read", "read_nonblock"} :
       /\ len >= FullEvent
       /\ Goto(r, "notified")
       /\ call' = [call EXCEPT ![r] = c]
       /\ buf_still_free' = [buf_still_free EXCEPT ![r] = len]
       /\ got' = [got EXCEPT ![r] = FALSE]
  /\ UNCHANGED <<pqVars, notified_events, wait_queue>>

\* The application calls poll: vdev_poll first joins the wait queue.
PollCall(r) ==
  /\ upc[r] = "user"
  /\ Goto(r, "prepare")
  /\ call' = [call EXCEPT ![r] = "poll"]
  /\ UNCHANGED <<pqVars, notified_events, wait_queue, buf_still_free, got>>

\* Variant with a fault: the loop goes on without room for another event.
CopyToUserUnchecked(r, n) ==
  \/ /\ buf_still_free' = [buf_still_free EXCEPT ![r] = @ - n]
     /\ got' = [got EXCEPT ![r] = TRUE]
     /\ Goto(r, "notified")
     /\ UNCHANGED call
  \/ Return(r)

\* copy_to_user of n bytes and the loop condition.  Or copy_to_user fails, the
\* call returns -EFAULT, and the event is gone.
CopyToUser(r, n) ==
  \/ /\ buf_still_free[r] - n >= FullEvent
     /\ buf_still_free' = [buf_still_free EXCEPT ![r] = @ - n]
     /\ got' = [got EXCEPT ![r] = TRUE]
     /\ Goto(r, "notified")
     /\ UNCHANGED call
  \/ Return(r)

\* read_get, first half: the lowest notified event, if there is one.
ReadNotified(r) ==
  /\ upc[r] = "notified"
  /\ wpc = "idle"
  /\ \E event \in notified_events :
       /\ \A e \in notified_events : event <= e
       /\ notified_events' = notified_events \ {event}
  /\ CopyToUser(r, 2)
  /\ UNCHANGED <<pqVars, wait_queue>>

NothingNotified(r) ==
  /\ upc[r] = "notified"
  /\ wpc = "idle"
  /\ notified_events = {}
  /\ Goto(r, "cb")
  /\ UNCHANGED <<pqVars, notified_events, wait_queue, call, buf_still_free, got>>

\* read_get, second half: modac_cb_get.
ReadCb(r) ==
  /\ upc[r] = "cb"
  /\ GetBegin(r) \/ GetCopy(r) \/ GetAdvance(r)
  /\ UNCHANGED readVars

ReadCbDone(r) ==
  /\ upc[r] = "cb"
  /\ GetReturn(r)
  /\ CopyToUser(r, 2 + buf[rtail[r]].length)
  /\ UNCHANGED <<notified_events, wait_queue>>

\* No event at all: return what there is, or -EAGAIN, or go to sleep.
ReadCbEmpty(r) ==
  /\ upc[r] = "cb"
  /\ GetEmpty(r)
  /\ IF got[r] \/ call[r] = "read_nonblock"
     THEN Return(r)
     ELSE Goto(r, "prepare") /\ UNCHANGED <<call, buf_still_free, got>>
  /\ UNCHANGED <<notified_events, wait_queue>>

-----------------------------------------------------------------------------
(* Sleeping: wait_event_interruptible with the condition read_has_data, or  *)
(* the poll loop around poll_wait and read_has_data.                       *)

\* prepare_to_wait_event, or poll_wait.
Prepare(r) ==
  /\ upc[r] = "prepare"
  /\ wait_queue' = wait_queue \cup {r}
  /\ Goto(r, "check_cb")
  /\ UNCHANGED <<pqVars, notified_events, call, buf_still_free, got>>

\* The condition holds: finish_wait, and vdev_read loops; poll returns.
HasData(r) ==
  /\ wait_queue' = wait_queue \ {r}
  /\ IF call[r] = "poll"
     THEN Return(r)
     ELSE Goto(r, "notified") /\ UNCHANGED <<call, buf_still_free, got>>

NoData(r, next) ==
  /\ Goto(r, next)
  /\ UNCHANGED <<wait_queue, call, buf_still_free, got>>

\* Variant with a fault: the wait condition leaves out the queue.
CheckCbSkipped(r) ==
  /\ upc[r] = "check_cb"
  /\ NoData(r, "check_notified")
  /\ UNCHANGED <<pqVars, notified_events>>

\* read_has_data, first half: modac_cb_available under cb_reader_lock.
CheckCb(r) ==
  /\ upc[r] = "check_cb"
  /\ cb_reader_lock = NoReader
  /\ \/ CIRC_CNT(head, tail) > 0 /\ HasData(r)
     \/ CIRC_CNT(head, tail) = 0 /\ NoData(r, "check_notified")
  /\ UNCHANGED <<pqVars, notified_events>>

\* read_has_data, second half: notified_events under the spin lock.
CheckNotified(r) ==
  /\ upc[r] = "check_notified"
  /\ wpc = "idle"
  /\ \/ notified_events # {} /\ HasData(r)
     \/ notified_events = {} /\ NoData(r, "sleep")
  /\ UNCHANGED <<pqVars, notified_events>>

\* Woken (a wake-up takes the thread off the queue): look again.
WokenUp(r) ==
  /\ upc[r] = "sleep"
  /\ r \notin wait_queue
  /\ Goto(r, "prepare")
  /\ UNCHANGED <<pqVars, notified_events, wait_queue, call, buf_still_free, got>>

\* A signal ends the sleep (-ERESTARTSYS), or the poll times out.
Interrupted(r) ==
  /\ upc[r] = "sleep"
  /\ wait_queue' = wait_queue \ {r}
  /\ Return(r)
  /\ UNCHANGED <<pqVars, notified_events>>

Interrupt == PutEvent \/ PutWakeUp \/ \E e \in NotifyEvents : Notify(e)

\* What a thread does once it is inside the driver.
Inside(r) ==
  \/ ReadNotified(r) \/ NothingNotified(r)
  \/ ReadCb(r) \/ ReadCbDone(r) \/ ReadCbEmpty(r)
  \/ Prepare(r) \/ CheckCb(r) \/ CheckNotified(r) \/ WokenUp(r)

Reader(r) == ReadCall(r) \/ PollCall(r) \/ Inside(r) \/ Interrupted(r)

VDNext == Interrupt \/ \E r \in Readers : Reader(r)

\* An interrupt handler runs to its end; a runnable thread runs; and the
\* applications keep reading.
VDFairness ==
  /\ WF_vdVars(PutStore /\ UNCHANGED readVars)
  /\ WF_vdVars(PutCommit /\ UNCHANGED readVars)
  /\ WF_vdVars(PutWakeUp)
  /\ \A r \in Readers : WF_vdVars(Inside(r)) /\ SF_vdVars(ReadCall(r))

VDSpec == VDInit /\ [][VDNext]_vdVars
VDFairSpec == VDSpec /\ VDFairness

-----------------------------------------------------------------------------
(* Properties.                                                             *)

\* No wake-up is lost: a thread that sleeps without having been woken sleeps
\* rightly, or the put that brought an event is about to wake it.
NoLostWakeup ==
  \A r \in Readers :
    upc[r] = "sleep" /\ r \in wait_queue =>
      /\ notified_events = {}
      /\ CIRC_CNT(head, tail) = 0 \/ wpc = "wake"

\* Every published entry is taken by a reader in the end, if notifications do
\* not keep coming for ever: vdev_read prefers them to the queue.
EveryEventTaken ==
  <>[](notified_events = {}) =>
    \A i \in 1 .. MaxPuts : Len(published) >= i ~> Len(received) >= i

=============================================================================
