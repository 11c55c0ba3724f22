---------------------------- MODULE PacketQueue ----------------------------
(***************************************************************************)
(* The per-VIRT_DEV event queue of packet-queue.c.                         *)
(*                                                                         *)
(* One writer (interrupt context; modac_mngdev_process_event serialises    *)
(* all writers with the MNG_DEV spin lock) runs modac_cb_put.  Any number  *)
(* of readers run modac_cb_get, one at a time, under cb_reader_lock        *)
(* (virt-dev.c, read_get).  Writer and reader share no lock: they meet     *)
(* only through head, tail and the slots, so each of their accesses to     *)
(* shared memory is a step of its own.                                     *)
(*                                                                         *)
(* The wake-up at the end of modac_cb_put acts on the wait queue of the    *)
(* VIRT_DEV, which module VdevRead adds to this one.                       *)
(***************************************************************************)
EXTENDS Integers, Sequences

CONSTANTS
  CBUF_EVENT_COUNT,             \* slots of the ring
  CBUF_EVENT_ENTRY_DATA_LENGTH, \* longest payload of an entry
  Readers,                      \* threads reading the VIRT_DEV
  NoReader,                     \* cb_reader_lock is free
  MaxPuts                       \* bound: how many events the hardware raises

ASSUME QueueAssumption ==
  /\ CBUF_EVENT_COUNT \in Nat /\ CBUF_EVENT_COUNT >= 2
  /\ CBUF_EVENT_ENTRY_DATA_LENGTH \in Nat
  /\ NoReader \notin Readers
  /\ MaxPuts \in Nat

Slots == 0 .. CBUF_EVENT_COUNT - 1

\* x & (CBUF_EVENT_COUNT - 1), for the x within one ring length of a slot
\* index that the code computes.
Masked(x) == IF x < 0 THEN x + CBUF_EVENT_COUNT
             ELSE IF x >= CBUF_EVENT_COUNT THEN x - CBUF_EVENT_COUNT ELSE x

\* The macros of <linux/circ_buf.h>.
CIRC_CNT(h, t) == Masked(h - t)

\* Variant with a fault: all the slots are given out, none is kept free.
SpaceToTheBrim(h, t) == CBUF_EVENT_COUNT - CIRC_CNT(h, t)

CIRC_SPACE(h, t) == CIRC_CNT(t, Masked(h + 1))

\* The n-th event raised is known by its number, which stands for its event
\* code and its payload. 0 is the overflow event; -1 is what an entry that was
\* never written holds.
MODAC_EVENT_READ_OVERFLOW == 0
Uninitialised == -1
Events == 1 .. MaxPuts
Lengths == 0 .. CBUF_EVENT_ENTRY_DATA_LENGTH
Entry == [event : Events \cup {MODAC_EVENT_READ_OVERFLOW, Uninitialised},
          length : Lengths]
OverflowEntry == [event |-> MODAC_EVENT_READ_OVERFLOW, length |-> 0]

VARIABLES
  head, tail,        \* cb->cb_events
  overflow_written,  \* cb->overflow_written
  buf,               \* cb->buf
  wpc, whead, wspace, win,   \* modac_cb_put: where it is, and its locals
  whow,                      \* history: what the put did with its slot
  cb_reader_lock,            \* who holds vdev->cb_reader_lock
  rpc, rtail, rentry,        \* modac_cb_get: where each reader is, its locals
  raised,      \* history: events raised so far
  published,   \* history: every entry the head has moved over
  received,    \* history: every entry a reader has taken
  lost         \* history: events discarded since the last one stored

writerVars == <<wpc, whead, wspace, win, whow>>
readerVars == <<cb_reader_lock, rpc, rtail, rentry>>
queueVars == <<head, tail, overflow_written, buf>>
historyVars == <<raised, published, received, lost>>
pqVars == <<queueVars, writerVars, readerVars, historyVars>>

\* How an entry came to be published: the put wrote its event, or the overflow
\* event, or left the slot as it was.
How == {"event", "overflow", "unwritten"}
Publication == [entry : Entry, how : How]

PQTypeOK ==
  /\ head \in Slots /\ tail \in Slots
  /\ overflow_written \in BOOLEAN
  /\ buf \in [Slots -> Entry]
  /\ wpc \in {"idle", "store", "commit", "wake"}
  /\ whead \in Slots /\ wspace \in Slots
  /\ win \in [event : 0 .. MaxPuts, length : Lengths]
  /\ whow \in How
  /\ cb_reader_lock \in Readers \cup {NoReader}
  /\ rpc \in [Readers -> {"idle", "copy", "advance", "length"}]
  /\ rtail \in [Readers -> Slots]
  /\ rentry \in [Readers -> Entry]
  /\ raised \in 0 .. MaxPuts
  /\ published \in Seq(Publication)
  /\ received \in Seq(Entry)
  /\ lost \in SUBSET (0 .. MaxPuts)

\* modac_cb_init.  The slots are memory from kmalloc: they hold anything.
PQInit ==
  /\ head = 0 /\ tail = 0
  /\ overflow_written = FALSE
  /\ \E l \in Lengths :
       buf = [i \in Slots |-> [event |-> Uninitialised, length |-> l]]
  /\ wpc = "idle" /\ whead = 0 /\ wspace = 0 /\ win = OverflowEntry
  /\ whow = "event"
  /\ cb_reader_lock = NoReader
  /\ rpc = [r \in Readers |-> "idle"]
  /\ rtail = [r \in Readers |-> 0]
  /\ rentry = [r \in Readers |-> OverflowEntry]
  /\ raised = 0
  /\ published = << >> /\ received = << >>
  /\ lost = {}

-----------------------------------------------------------------------------
(* modac_cb_put, the writer.                                               *)

\* The next event is raised with a payload longer than an entry: refused.
PutTooLong ==
  /\ wpc = "idle"
  /\ raised < MaxPuts
  /\ raised' = raised + 1
  /\ UNCHANGED <<queueVars, writerVars, readerVars, published, received, lost>>

\* head and tail are read; with no space left the event is dropped.
PutBegin(length) ==
  LET space == CIRC_SPACE(head, tail)
      event == raised + 1
  IN /\ wpc = "idle"
     /\ raised < MaxPuts
     /\ raised' = event
     /\ IF space >= 1
        THEN /\ wpc' = "store"
             /\ whead' = head
             /\ wspace' = space
             /\ win' = [event |-> event, length |-> length]
             /\ UNCHANGED <<whow, lost>>
        ELSE /\ lost' = lost \cup {event}
             /\ UNCHANGED writerVars
     /\ UNCHANGED <<queueVars, readerVars, published, received>>

\* Variant with a fault: storing an event does not reset overflow_written.
PutStoreNoReset ==
  /\ wpc = "store"
  /\ wpc' = "commit"
  /\ \/ /\ wspace > 1
        /\ buf' = [buf EXCEPT ![whead] = win]
        /\ whow' = "event"
        /\ UNCHANGED overflow_written
     \/ /\ wspace = 1 /\ ~overflow_written
        /\ buf' = [buf EXCEPT ![whead] = OverflowEntry]
        /\ overflow_written' = TRUE
        /\ whow' = "overflow"
     \/ /\ wspace = 1 /\ overflow_written
        /\ whow' = "unwritten"
        /\ UNCHANGED <<buf, overflow_written>>
  /\ UNCHANGED <<head, tail, whead, wspace, win, readerVars, historyVars>>

\* The slot at head is filled: with the event, or, when it is the last free
\* one, with the overflow event unless that was already written.
PutStore ==
  /\ wpc = "store"
  /\ wpc' = "commit"
  /\ \/ /\ wspace > 1
        /\ buf' = [buf EXCEPT ![whead] = win]
        /\ overflow_written' = FALSE
        /\ whow' = "event"
     \/ /\ wspace = 1 /\ ~overflow_written
        /\ buf' = [buf EXCEPT ![whead] = OverflowEntry]
        /\ overflow_written' = TRUE
        /\ whow' = "overflow"
     \/ /\ wspace = 1 /\ overflow_written
        /\ whow' = "unwritten"
        /\ UNCHANGED <<buf, overflow_written>>
  /\ UNCHANGED <<head, tail, whead, wspace, win, readerVars, historyVars>>

\* Variant with a fault: the new head is not masked.
PutCommitUnmasked ==
  /\ wpc = "commit"
  /\ wpc' = "wake"
  /\ head' = whead + 1
  /\ published' = Append(published, [entry |-> buf[whead], how |-> whow])
  /\ lost' = IF whow = "event" THEN {} ELSE lost \cup {win.event}
  /\ UNCHANGED <<tail, overflow_written, buf, whead, wspace, win, whow,
                 readerVars, raised, received>>

\* The head moves on, whichever way the slot was treated.
PutCommit ==
  /\ wpc = "commit"
  /\ wpc' = "wake"
  /\ head' = Masked(whead + 1)
  /\ published' = Append(published, [entry |-> buf[whead], how |-> whow])
  /\ lost' = IF whow = "event" THEN {} ELSE lost \cup {win.event}
  /\ UNCHANGED <<tail, overflow_written, buf, whead, wspace, win, whow,
                 readerVars, raised, received>>

\* wake_up_interruptible, and the return.
PutWake ==
  /\ wpc = "wake"
  /\ wpc' = "idle"
  /\ UNCHANGED <<queueVars, whead, wspace, win, whow, readerVars, historyVars>>

-----------------------------------------------------------------------------
(* modac_cb_get, under cb_reader_lock.                                     *)

GetEmpty(r) ==
  /\ cb_reader_lock = NoReader
  /\ rpc[r] = "idle"
  /\ CIRC_CNT(head, tail) = 0
  /\ UNCHANGED pqVars

\* Variant with a fault: cb_reader_lock is not taken.
GetBeginUnlocked(r) ==
  /\ rpc[r] = "idle"
  /\ CIRC_CNT(head, tail) > 0
  /\ rpc' = [rpc EXCEPT ![r] = "copy"]
  /\ rtail' = [rtail EXCEPT ![r] = tail]
  /\ UNCHANGED <<queueVars, writerVars, cb_reader_lock, rentry, historyVars>>

GetBegin(r) ==
  /\ cb_reader_lock = NoReader
  /\ rpc[r] = "idle"
  /\ CIRC_CNT(head, tail) > 0
  /\ cb_reader_lock' = r
  /\ rpc' = [rpc EXCEPT ![r] = "copy"]
  /\ rtail' = [rtail EXCEPT ![r] = tail]
  /\ UNCHANGED <<queueVars, writerVars, rentry, historyVars>>

GetCopy(r) ==
  /\ rpc[r] = "copy"
  /\ rpc' = [rpc EXCEPT ![r] = "advance"]
  /\ rentry' = [rentry EXCEPT ![r] = buf[rtail[r]]]
  /\ UNCHANGED <<queueVars, writerVars, cb_reader_lock, rtail, historyVars>>

GetAdvance(r) ==
  /\ rpc[r] = "advance"
  /\ rpc' = [rpc EXCEPT ![r] = "length"]
  /\ tail' = Masked(rtail[r] + 1)
  /\ received' = Append(received, rentry[r])
  /\ UNCHANGED <<head, overflow_written, buf, writerVars, cb_reader_lock,
                 rtail, rentry, raised, published, lost>>

\* The length returned is read from the slot again, after the tail has moved.
GetReturn(r) ==
  /\ rpc[r] = "length"
  /\ rpc' = [rpc EXCEPT ![r] = "idle"]
  /\ rentry' = [rentry EXCEPT ![r] =
               [event |-> @.event, length |-> buf[rtail[r]].length]]
  /\ cb_reader_lock' = NoReader
  /\ UNCHANGED <<queueVars, writerVars, rtail, historyVars>>

Put == \/ PutTooLong \/ PutStore \/ PutCommit \/ PutWake
       \/ \E l \in Lengths : PutBegin(l)
Get(r) == GetEmpty(r) \/ GetBegin(r) \/ GetCopy(r) \/ GetAdvance(r) \/ GetReturn(r)

PQNext == Put \/ \E r \in Readers : Get(r)
PQSpec == PQInit /\ [][PQNext]_pqVars

-----------------------------------------------------------------------------
(* Properties.                                                             *)

\* The slot modac_cb_put is filling is never the slot a reader is using, from
\* the moment that reader looked at the tail until it has returned.
NoSlotSharing ==
  \A r \in Readers : wpc \in {"store", "commit"} /\ rpc[r] # "idle" => whead # rtail[r]

\* What a reader copied is still in its slot when, after giving the slot back,
\* it reads the entry's length there (packet-queue.c:114).
ReturnedLengthIsCopied ==
  \A r \in Readers :
    rpc[r] \in {"advance", "length"} => buf[rtail[r]] = rentry[r]

\* Readers together take the published entries in order, none twice, none
\* skipped, whatever the interleaving of puts and of several readers.
FifoDelivery ==
  /\ Len(received) <= Len(published)
  /\ \A i \in 1 .. Len(received) : received[i] = published[i].entry

\* An event discarded because the queue was full is announced: the overflow
\* event was published after the last event that was stored.
LossIsAnnounced ==
  lost # {} => \E i \in 1 .. Len(published) :
                 /\ published[i].how = "overflow"
                 /\ \A j \in i .. Len(published) : published[j].how # "event"

\* packet-queue.c:63-68: at the last free slot "a special overflow event is
\* inserted [...] 'overflow_written' makes sure this doesn't happen twice in a
\* row. The incoming event is discarded": so a reader is given every event at
\* most once, and nothing that no put has written.
OnlyPutEntriesReceived ==
  \A i \in 1 .. Len(received) :
    /\ received[i].event # Uninitialised
    /\ \A j \in 1 .. i - 1 :
         received[j] = received[i] => received[i] = OverflowEntry
=============================================================================
