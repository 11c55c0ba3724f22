------------------------- MODULE EventQueueProofs -------------------------
(***************************************************************************)
(* The event queue is safe for every ring size, every number of readers    *)
(* and every number of events; and reading a VIRT_DEV uses it as intended  *)
(* and loses no wake-up, for any number of notifications as well.          *)
(***************************************************************************)
EXTENDS VdevRead, TLAPS

\* cb_reader_lock is held by the reader that is inside modac_cb_get.
ReaderHoldsLock ==
  \A r \in Readers : rpc[r] # "idle" <=> cb_reader_lock = r

\* A reader's tail is the shared tail until it advances it, and the slot there
\* is a published one; afterwards it is the slot just behind.
ReaderBehindTail ==
  \A r \in Readers :
    /\ rpc[r] \in {"copy", "advance"} => rtail[r] = tail /\ head # tail
    /\ rpc[r] = "length" => tail = Masked(rtail[r] + 1)

\* The space the writer computed is still there: readers only add to it.
WriterHasSpace ==
  wpc \in {"store", "commit"} =>
    /\ whead = head
    /\ 1 <= wspace /\ wspace <= CIRC_SPACE(head, tail)
    /\ win.event \in Events

\* The slots from tail to head hold the published entries not yet received.
SlotsArePublished ==
  /\ Len(published) = Len(received) + CIRC_CNT(head, tail)
  /\ \A i \in 1 .. Len(published) :
       i > Len(received) =>
         buf[Masked(tail + (i - Len(received) - 1))] = published[i].entry

\* The overflow event was published after the last stored event.
Announced ==
  \E i \in 1 .. Len(published) :
    /\ published[i].how = "overflow"
    /\ \A j \in i .. Len(published) : published[j].how # "event"

\* overflow_written tells the truth about what is or will be published, and a
\* full queue always has it set.
OverflowFlag ==
  /\ wpc # "commit" /\ overflow_written => Announced
  /\ wpc = "commit" =>
       /\ wspace > 1 => whow = "event" /\ ~overflow_written
       /\ wspace = 1 => whow # "event" /\ overflow_written
       /\ whow = "unwritten" => Announced
  /\ CIRC_SPACE(head, tail) = 0 => overflow_written

PQInv ==
  /\ PQTypeOK
  /\ ReaderHoldsLock
  /\ ReaderBehindTail
  /\ WriterHasSpace
  /\ ReturnedLengthIsCopied
  /\ SlotsArePublished
  /\ FifoDelivery
  /\ OverflowFlag
  /\ LossIsAnnounced

-----------------------------------------------------------------------------
(* The arithmetic of the ring.                                             *)

\* Masking keeps an index inside the ring.
LEMMA MaskedInRing ==
  ASSUME NEW x \in Int, -CBUF_EVENT_COUNT <= x, x < 2 * CBUF_EVENT_COUNT
  PROVE  Masked(x) \in Slots
BY QueueAssumption DEF Masked, Slots

\* CIRC_CNT and CIRC_SPACE of two indices are slot counts that add up to one
\* less than the ring: one slot always stays empty.
LEMMA CountAndSpace ==
  ASSUME NEW h \in Slots, NEW t \in Slots
  PROVE  /\ CIRC_CNT(h, t) \in Slots
         /\ CIRC_SPACE(h, t) \in Slots
         /\ CIRC_CNT(h, t) + CIRC_SPACE(h, t) = CBUF_EVENT_COUNT - 1
         /\ CIRC_CNT(h, t) = 0 <=> h = t
         /\ CIRC_SPACE(h, t) = 0 <=> t = Masked(h + 1)
BY QueueAssumption DEF CIRC_CNT, CIRC_SPACE, Masked, Slots

\* In a state of the right type the counts are natural numbers.
LEMMA CountsAreNat ==
  ASSUME PQTypeOK
  PROVE  /\ CIRC_CNT(head, tail) \in Nat /\ CIRC_SPACE(head, tail) \in Nat
         /\ wspace \in Nat
         /\ Len(received) \in Nat /\ Len(published) \in Nat
<1>1. Slots \subseteq Nat
  BY QueueAssumption DEF Slots
<1>2. wspace \in Nat /\ Len(received) \in Nat /\ Len(published) \in Nat
  BY <1>1 DEF PQTypeOK
<1>3. CIRC_CNT(head, tail) \in Slots /\ CIRC_SPACE(head, tail) \in Slots
  BY CountAndSpace DEF PQTypeOK
<1> QED
  BY <1>1, <1>2, <1>3

\* Advancing the head takes one slot of space.
LEMMA HeadAdvances ==
  ASSUME NEW h \in Slots, NEW t \in Slots, CIRC_SPACE(h, t) >= 1
  PROVE  /\ Masked(h + 1) \in Slots
         /\ CIRC_CNT(Masked(h + 1), t) = CIRC_CNT(h, t) + 1
         /\ CIRC_SPACE(Masked(h + 1), t) = CIRC_SPACE(h, t) - 1
         /\ Masked(t + CIRC_CNT(h, t)) = h
BY QueueAssumption DEF CIRC_CNT, CIRC_SPACE, Masked, Slots

\* Advancing the tail of a queue that is not empty gives one slot back.
LEMMA TailAdvances ==
  ASSUME NEW h \in Slots, NEW t \in Slots, h # t
  PROVE  /\ Masked(t + 1) \in Slots
         /\ CIRC_CNT(h, Masked(t + 1)) = CIRC_CNT(h, t) - 1
         /\ CIRC_SPACE(h, Masked(t + 1)) = CIRC_SPACE(h, t) + 1
         /\ \A i \in 1 .. CIRC_CNT(h, t) - 1 :
              Masked(Masked(t + 1) + (i - 1)) = Masked(t + i)
BY QueueAssumption DEF CIRC_CNT, CIRC_SPACE, Masked, Slots

\* The slots holding published entries are not the one at the head.
LEMMA PublishedNotHead ==
  ASSUME NEW h \in Slots, NEW t \in Slots, NEW i \in 0 .. CIRC_CNT(h, t) - 1
  PROVE  Masked(t + i) \in Slots /\ Masked(t + i) # h
BY QueueAssumption DEF CIRC_CNT, Masked, Slots

-----------------------------------------------------------------------------
(* Type correctness.                                                       *)

LEMMA PQTypeInit == PQInit => PQTypeOK
<1> SUFFICES ASSUME PQInit PROVE PQTypeOK
  OBVIOUS
<1>1. 0 \in Slots /\ OverflowEntry \in Entry
  BY QueueAssumption DEF Slots, OverflowEntry, Entry, Lengths
<1>4. OverflowEntry \in [event : 0 .. MaxPuts, length : Lengths]
  BY QueueAssumption DEF OverflowEntry, Lengths, MODAC_EVENT_READ_OVERFLOW
<1>2. buf \in [Slots -> Entry]
  BY DEF PQInit, Entry
<1>3. /\ published \in Seq(Publication) /\ received \in Seq(Entry)
      /\ raised \in 0 .. MaxPuts
  BY QueueAssumption DEF PQInit
<1> QED
  BY <1>1, <1>4, <1>2, <1>3 DEF PQInit, PQTypeOK, How

LEMMA PQTypeStep ==
  ASSUME PQTypeOK, [PQNext]_pqVars
  PROVE  PQTypeOK'
<1> USE DEF PQTypeOK
<1>1. CASE PutTooLong
  BY <1>1, QueueAssumption
     DEF PutTooLong, queueVars, writerVars, readerVars
<1>2. ASSUME NEW l \in Lengths, PutBegin(l) PROVE PQTypeOK'
  <2>1. CIRC_SPACE(head, tail) \in Slots
    BY CountAndSpace
  <2>2. raised + 1 \in 0 .. MaxPuts
    BY <1>2, QueueAssumption DEF PutBegin
  <2>3. /\ whead' \in Slots /\ wspace' \in Slots
        /\ wpc' \in {"idle", "store", "commit", "wake"}
        /\ whow' \in How
    BY <1>2, <2>1 DEF PutBegin, writerVars
  <2>4. raised' \in 0 .. MaxPuts
    BY <1>2, <2>2 DEF PutBegin
  <2>5. win' \in [event : 0 .. MaxPuts, length : Lengths]
    <3>1. [event |-> raised + 1, length |-> l]
             \in [event : 0 .. MaxPuts, length : Lengths]
      BY <2>2
    <3>2. win' = win \/ win' = [event |-> raised + 1, length |-> l]
      BY <1>2, Zenon DEF PutBegin, writerVars
    <3> QED
      BY <3>1, <3>2, Zenon
  <2>6. lost' \in SUBSET (0 .. MaxPuts)
    BY <1>2, <2>2, Zenon DEF PutBegin
  <2> QED
    BY <1>2, <2>3, <2>4, <2>5, <2>6, Zenon DEF PutBegin, queueVars, readerVars
<1>3. CASE PutStore
  <2>1. win \in Entry /\ OverflowEntry \in Entry
    BY QueueAssumption
       DEF Entry, Events, OverflowEntry, Lengths, MODAC_EVENT_READ_OVERFLOW
  <2>2. buf' \in [Slots -> Entry]
    BY <1>3, <2>1 DEF PutStore
  <2>3. overflow_written' \in BOOLEAN
    BY <1>3, Zenon DEF PutStore
  <2>4. whow' \in How
    BY <1>3 DEF PutStore, How
  <2> QED
    BY <1>3, <2>2, <2>3, <2>4, Zenon DEF PutStore, readerVars, historyVars
<1>4. CASE PutCommit
  <2>1. Masked(whead + 1) \in Slots
    BY MaskedInRing, QueueAssumption DEF Slots
  <2>2. [entry |-> buf[whead], how |-> whow] \in Publication
    BY DEF Publication
  <2>3. published' \in Seq(Publication)
    BY <1>4, <2>2 DEF PutCommit
  <2>4. lost' \in SUBSET (0 .. MaxPuts)
    BY <1>4 DEF PutCommit
  <2> QED
    BY <1>4, <2>1, <2>2, <2>3, <2>4, Zenon DEF PutCommit, readerVars
<1>5. CASE PutWake
  BY <1>5 DEF PutWake, queueVars, readerVars, historyVars
<1>6. ASSUME NEW r \in Readers, GetBegin(r) PROVE PQTypeOK'
  BY <1>6 DEF GetBegin, queueVars, writerVars, historyVars
<1>7. ASSUME NEW r \in Readers, GetCopy(r) PROVE PQTypeOK'
  BY <1>7 DEF GetCopy, queueVars, writerVars, historyVars
<1>8. ASSUME NEW r \in Readers, GetAdvance(r) PROVE PQTypeOK'
  <2>1. Masked(rtail[r] + 1) \in Slots
    BY MaskedInRing, QueueAssumption DEF Slots
  <2> QED
    BY <1>8, <2>1 DEF GetAdvance, writerVars
<1>9. ASSUME NEW r \in Readers, GetReturn(r) PROVE PQTypeOK'
  BY <1>9 DEF GetReturn, queueVars, writerVars, historyVars, Entry
<1>10. CASE UNCHANGED pqVars
  BY <1>10 DEF pqVars, queueVars, writerVars, readerVars, historyVars
<1> QED
  BY <1>1, <1>2, <1>3, <1>4, <1>5, <1>6, <1>7, <1>8, <1>9, <1>10
     DEF PQNext, Put, Get, GetEmpty

\* Every value of the queue stays in its range: in particular head and tail
\* stay inside the ring.
THEOREM PQTypeCorrect == PQSpec => []PQTypeOK
<1>1. PQTypeOK /\ [PQNext]_pqVars => PQTypeOK'
  BY PQTypeStep
<1> QED
  BY <1>1, PQTypeInit, PTL DEF PQSpec

-----------------------------------------------------------------------------
(* The inductive invariant.                                                *)

LEMMA PQInvInit == PQInit => PQInv
<1> SUFFICES ASSUME PQInit PROVE PQInv
  OBVIOUS
<1>1. PQTypeOK
  BY PQTypeInit
<1>2. CIRC_CNT(0, 0) = 0 /\ CIRC_SPACE(0, 0) # 0
  BY QueueAssumption DEF CIRC_CNT, CIRC_SPACE, Masked
<1>3. ReaderHoldsLock /\ ReaderBehindTail /\ WriterHasSpace
  BY QueueAssumption
     DEF PQInit, ReaderHoldsLock, ReaderBehindTail, WriterHasSpace
<1>4. ReturnedLengthIsCopied /\ LossIsAnnounced
  BY DEF PQInit, ReturnedLengthIsCopied, LossIsAnnounced
<1>5. SlotsArePublished /\ FifoDelivery
  BY <1>2 DEF PQInit, SlotsArePublished, FifoDelivery
<1>6. OverflowFlag
  BY <1>2 DEF PQInit, OverflowFlag
<1> QED
  BY <1>1, <1>3, <1>4, <1>5, <1>6 DEF PQInv

\* The writer's slot is free of readers: before they advance the tail because
\* the queue is not empty, after it because one slot always stays empty.
LEMMA NoSlotSharingFromInv == PQInv => NoSlotSharing
<1> SUFFICES ASSUME PQInv, NEW r \in Readers,
                    wpc \in {"store", "commit"}, rpc[r] # "idle"
             PROVE  whead # rtail[r]
  BY DEF NoSlotSharing
<1>1. /\ whead = head /\ CIRC_SPACE(head, tail) # 0
      /\ head \in Slots /\ tail \in Slots
  <2>1. CIRC_SPACE(head, tail) \in Slots /\ wspace \in Slots
    BY CountAndSpace DEF PQInv, PQTypeOK
  <2> QED
    BY <2>1 DEF PQInv, PQTypeOK, WriterHasSpace, Slots
<1>2. CASE rpc[r] \in {"copy", "advance"}
  BY <1>1, <1>2 DEF PQInv, ReaderBehindTail
<1>3. CASE rpc[r] = "length"
  BY <1>1, <1>3, CountAndSpace DEF PQInv, ReaderBehindTail
<1> QED
  BY <1>2, <1>3 DEF PQInv, PQTypeOK

\* Nothing but the count of raised events changes.
LEMMA PQFrame ==
  ASSUME PQInv, PQTypeOK',
         UNCHANGED <<queueVars, writerVars, readerVars, published, received, lost>>
  PROVE  PQInv'
<1> USE DEF queueVars, writerVars, readerVars
<1>1. /\ ReaderHoldsLock' /\ ReaderBehindTail' /\ WriterHasSpace'
      /\ ReturnedLengthIsCopied'
  BY DEF PQInv, ReaderHoldsLock, ReaderBehindTail, WriterHasSpace,
         ReturnedLengthIsCopied, CIRC_SPACE, CIRC_CNT, Masked
<1>2. SlotsArePublished' /\ FifoDelivery'
  BY DEF PQInv, SlotsArePublished, FifoDelivery, CIRC_CNT, Masked
<1>3. OverflowFlag' /\ LossIsAnnounced'
  BY DEF PQInv, OverflowFlag, LossIsAnnounced, Announced, CIRC_SPACE, CIRC_CNT,
         Masked
<1> QED
  BY <1>1, <1>2, <1>3 DEF PQInv

LEMMA PutBeginStep ==
  ASSUME PQInv, PQTypeOK', NEW l \in Lengths, PutBegin(l)
  PROVE  PQInv'
<1> USE DEF queueVars, readerVars
<1>1. /\ ReaderHoldsLock' /\ ReaderBehindTail' /\ ReturnedLengthIsCopied'
  BY DEF PQInv, PutBegin, ReaderHoldsLock, ReaderBehindTail,
         ReturnedLengthIsCopied, Masked
<1>2. SlotsArePublished' /\ FifoDelivery'
  BY DEF PQInv, PutBegin, SlotsArePublished, FifoDelivery, CIRC_CNT, Masked
<1>3. WriterHasSpace'
  <2>1. CIRC_SPACE(head, tail) \in Nat
    BY CountsAreNat DEF PQInv
  <2>2. raised + 1 \in Events
    BY QueueAssumption DEF PutBegin, PQInv, PQTypeOK, Events
  <2> QED
    BY <2>1, <2>2 DEF PutBegin, WriterHasSpace, writerVars, CIRC_SPACE, CIRC_CNT,
                      Masked
<1>4. OverflowFlag'
  BY DEF PQInv, PutBegin, writerVars, OverflowFlag, Announced, CIRC_SPACE,
         CIRC_CNT, Masked
<1>5. LossIsAnnounced'
  <2>1. CASE CIRC_SPACE(head, tail) >= 1
    BY <2>1 DEF PQInv, PutBegin, LossIsAnnounced
  <2>2. CASE ~ (CIRC_SPACE(head, tail) >= 1)
    <3>1. CIRC_SPACE(head, tail) = 0
      BY <2>2, CountsAreNat DEF PQInv
    <3>2. Announced
      BY <3>1 DEF PQInv, OverflowFlag, PutBegin
    <3> QED
      BY <3>2 DEF Announced, LossIsAnnounced, PutBegin
  <2> QED
    BY <2>1, <2>2
<1> QED
  BY <1>1, <1>2, <1>3, <1>4, <1>5 DEF PQInv

LEMMA PutStoreStep ==
  ASSUME PQInv, PQTypeOK', PutStore
  PROVE  PQInv'
<1> USE DEF readerVars, historyVars
<1>1. /\ whead = head /\ head \in Slots /\ tail \in Slots
      /\ \A i \in Slots : i # head => buf'[i] = buf[i]
  BY DEF PQInv, PQTypeOK, WriterHasSpace, PutStore
<1>2. ReaderHoldsLock' /\ ReaderBehindTail' /\ WriterHasSpace'
  BY DEF PQInv, PutStore, ReaderHoldsLock, ReaderBehindTail, WriterHasSpace,
         CIRC_SPACE, CIRC_CNT, Masked
<1>3. ReturnedLengthIsCopied'
  <2>1. \A r \in Readers : rpc[r] # "idle" => rtail[r] # head
    BY <1>1, NoSlotSharingFromInv DEF PutStore, NoSlotSharing
  <2> QED
    BY <1>1, <2>1 DEF PQInv, PQTypeOK, PutStore, ReturnedLengthIsCopied
<1>4. SlotsArePublished'
  <2> SUFFICES ASSUME NEW i \in 1 .. Len(published), i > Len(received)
               PROVE  buf'[Masked(tail + (i - Len(received) - 1))]
                        = published[i].entry
    BY DEF PQInv, PutStore, SlotsArePublished, CIRC_CNT, Masked
  <2> DEFINE k == i - Len(received) - 1
  <2>1. /\ Len(received) \in Nat /\ Len(published) \in Nat
        /\ CIRC_CNT(head, tail) \in Nat
    BY CountsAreNat DEF PQInv
  <2>2. k \in 0 .. CIRC_CNT(head, tail) - 1
    BY <2>1 DEF PQInv, SlotsArePublished
  <2>3. Masked(tail + k) \in Slots /\ Masked(tail + k) # head
    BY <1>1, <2>2, PublishedNotHead
  <2> QED
    BY <1>1, <2>3 DEF PQInv, SlotsArePublished
<1>5. FifoDelivery'
  BY DEF PQInv, PutStore, FifoDelivery
<1>6. OverflowFlag'
  <2>1. wspace \in Nat /\ wspace >= 1 /\ CIRC_SPACE(head, tail) >= 1
    BY CountsAreNat DEF PQInv, WriterHasSpace, PutStore
  <2>2. CIRC_SPACE(head, tail)' = CIRC_SPACE(head, tail) /\ Announced' = Announced
    BY DEF PutStore, CIRC_SPACE, CIRC_CNT, Masked, Announced
  <2>3. overflow_written => Announced
    BY DEF PQInv, OverflowFlag, PutStore
  <2> QED
    BY <2>1, <2>2, <2>3 DEF PutStore, OverflowFlag
<1>7. LossIsAnnounced'
  BY DEF PQInv, PutStore, LossIsAnnounced
<1> QED
  BY <1>2, <1>3, <1>4, <1>5, <1>6, <1>7 DEF PQInv

LEMMA PutCommitStep ==
  ASSUME PQInv, PQTypeOK', PutCommit
  PROVE  PQInv'
<1> USE DEF readerVars
<1> DEFINE pub == [entry |-> buf[whead], how |-> whow]
           n == Len(published)
<1>1. /\ whead = head /\ head \in Slots /\ tail \in Slots
      /\ wspace >= 1 /\ wspace <= CIRC_SPACE(head, tail)
  BY DEF PQInv, PQTypeOK, WriterHasSpace, PutCommit
<1>2. /\ CIRC_CNT(head, tail) \in Nat /\ CIRC_SPACE(head, tail) \in Nat
      /\ wspace \in Nat /\ Len(received) \in Nat /\ n \in Nat
  BY CountsAreNat DEF PQInv
<1>3. CIRC_SPACE(head, tail) >= 1
  BY <1>1, <1>2
<1>4. /\ head' = Masked(head + 1) /\ tail' = tail
      /\ CIRC_CNT(head, tail)' = CIRC_CNT(head, tail) + 1
      /\ CIRC_SPACE(head, tail)' = CIRC_SPACE(head, tail) - 1
      /\ Masked(tail + CIRC_CNT(head, tail)) = head
  <2>1. head' = Masked(head + 1) /\ tail' = tail
    BY <1>1 DEF PutCommit
  <2>2. /\ CIRC_CNT(head, tail)' = CIRC_CNT(Masked(head + 1), tail)
        /\ CIRC_SPACE(head, tail)' = CIRC_SPACE(Masked(head + 1), tail)
    BY <2>1 DEF CIRC_CNT, CIRC_SPACE, Masked
  <2> QED
    BY <1>1, <1>3, <2>1, <2>2, HeadAdvances
<1>5. /\ Len(published') = n + 1
      /\ published'[n + 1] = pub
      /\ \A i \in 1 .. n : published'[i] = published[i]
  <2>1. published \in Seq(Publication) /\ pub \in Publication
    BY <1>1 DEF PQInv, PQTypeOK, Publication
  <2> QED
    BY <2>1 DEF PutCommit
<1>6. ReaderHoldsLock' /\ ReturnedLengthIsCopied' /\ WriterHasSpace'
  BY DEF PQInv, PutCommit, ReaderHoldsLock, ReturnedLengthIsCopied,
         WriterHasSpace
<1>7. ReaderBehindTail'
  <2>1. head' # tail
    <3>1. CIRC_SPACE(head, tail) # 0
      BY <1>2, <1>3
    <3> QED
      BY <1>1, <1>4, <3>1, CountAndSpace
  <2> QED
    BY <2>1 DEF PQInv, PutCommit, ReaderBehindTail, Masked
<1>8. SlotsArePublished'
  <2>1. Len(published') = Len(received') + CIRC_CNT(head, tail)'
    BY <1>2, <1>4, <1>5 DEF PQInv, SlotsArePublished, PutCommit
  <2>2. ASSUME NEW i \in 1 .. n + 1, i > Len(received)
        PROVE  buf[Masked(tail + (i - Len(received) - 1))] = published'[i].entry
    <3>1. CASE i = n + 1
      <4>1. i - Len(received) - 1 = CIRC_CNT(head, tail)
        BY <1>2, <3>1 DEF PQInv, SlotsArePublished
      <4> QED
        BY <1>1, <1>4, <1>5, <3>1, <4>1
    <3>2. CASE i \in 1 .. n
      BY <1>5, <2>2, <3>2 DEF PQInv, SlotsArePublished
    <3> QED
      BY <1>2, <3>1, <3>2
  <2>3. /\ buf' = buf /\ received' = received
        /\ \A x \in Int : Masked(x)' = Masked(x)
    BY DEF PutCommit, Masked
  <2> QED
    BY <1>4, <1>5, <2>1, <2>2, <2>3 DEF SlotsArePublished, Masked
<1>9. FifoDelivery'
  BY <1>2, <1>5 DEF PQInv, FifoDelivery, PutCommit
<1>10. /\ whow # "event" /\ Announced => Announced'
       /\ whow = "overflow" => Announced'
  <2>1. ASSUME whow # "event", Announced PROVE Announced'
    <3>1. PICK i \in 1 .. n : /\ published[i].how = "overflow"
                              /\ \A j \in i .. n : published[j].how # "event"
      BY <2>1 DEF Announced
    <3>2. \A j \in i .. n + 1 : published'[j].how # "event"
      BY <1>2, <1>5, <2>1, <3>1
    <3> QED
      BY <1>2, <1>5, <3>1, <3>2 DEF Announced
  <2>2. ASSUME whow = "overflow" PROVE Announced'
    <3>1. \A j \in n + 1 .. n + 1 : published'[j].how # "event"
      BY <1>2, <1>5, <2>2
    <3> QED
      BY <1>2, <1>5, <2>2, <3>1 DEF Announced
  <2> QED
    BY <2>1, <2>2
<1>11. whow # "event" => Announced'
  BY <1>10 DEF PQInv, PQTypeOK, How, OverflowFlag, PutCommit
<1>12. OverflowFlag'
  <2>1. wspace > 1 \/ wspace = 1
    BY <1>1, <1>2
  <2>2. overflow_written => Announced'
    BY <1>11, <2>1 DEF PQInv, OverflowFlag, PutCommit
  <2>3. CIRC_SPACE(head, tail)' = 0 => overflow_written
    <3>1. CIRC_SPACE(head, tail)' = 0 => wspace = 1
      BY <1>1, <1>2, <1>4
    <3> QED
      BY <3>1 DEF PQInv, OverflowFlag, PutCommit
  <2> QED
    BY <2>2, <2>3 DEF OverflowFlag, PutCommit
<1>13. LossIsAnnounced'
  BY <1>11 DEF PutCommit, LossIsAnnounced, Announced
<1> QED
  BY <1>6, <1>7, <1>8, <1>9, <1>12, <1>13 DEF PQInv

LEMMA PutWakeStep ==
  ASSUME PQInv, PQTypeOK', PutWake
  PROVE  PQInv'
<1> USE DEF queueVars, readerVars, historyVars
<1>1. /\ ReaderHoldsLock' /\ ReaderBehindTail' /\ WriterHasSpace'
      /\ ReturnedLengthIsCopied'
  BY DEF PQInv, PutWake, ReaderHoldsLock, ReaderBehindTail, WriterHasSpace,
         ReturnedLengthIsCopied, Masked
<1>2. SlotsArePublished' /\ FifoDelivery'
  BY DEF PQInv, PutWake, SlotsArePublished, FifoDelivery, CIRC_CNT, Masked
<1>3. OverflowFlag' /\ LossIsAnnounced'
  BY DEF PQInv, PutWake, OverflowFlag, LossIsAnnounced, Announced, CIRC_SPACE,
         CIRC_CNT, Masked
<1> QED
  BY <1>1, <1>2, <1>3 DEF PQInv

LEMMA GetBeginStep ==
  ASSUME PQInv, PQTypeOK', NEW r \in Readers, GetBegin(r)
  PROVE  PQInv'
<1> USE DEF queueVars, writerVars, historyVars
<1>1. ReaderHoldsLock'
  BY QueueAssumption DEF PQInv, PQTypeOK, GetBegin, ReaderHoldsLock
<1>2. ReaderBehindTail'
  <2>1. head # tail
    BY CountAndSpace, CountsAreNat DEF PQInv, PQTypeOK, GetBegin
  <2> QED
    BY <2>1, QueueAssumption
       DEF PQInv, PQTypeOK, GetBegin, ReaderBehindTail, ReaderHoldsLock, Masked
<1>3. WriterHasSpace' /\ SlotsArePublished' /\ FifoDelivery'
  BY DEF PQInv, GetBegin, WriterHasSpace, SlotsArePublished, FifoDelivery,
         CIRC_SPACE, CIRC_CNT, Masked
<1>4. ReturnedLengthIsCopied'
  BY DEF PQInv, PQTypeOK, GetBegin, ReturnedLengthIsCopied
<1>5. OverflowFlag' /\ LossIsAnnounced'
  BY DEF PQInv, GetBegin, OverflowFlag, LossIsAnnounced, Announced, CIRC_SPACE,
         CIRC_CNT, Masked
<1> QED
  BY <1>1, <1>2, <1>3, <1>4, <1>5 DEF PQInv

LEMMA GetCopyStep ==
  ASSUME PQInv, PQTypeOK', NEW r \in Readers, GetCopy(r)
  PROVE  PQInv'
<1> USE DEF queueVars, writerVars, historyVars
<1>1. ReaderHoldsLock' /\ ReaderBehindTail'
  BY DEF PQInv, PQTypeOK, GetCopy, ReaderHoldsLock, ReaderBehindTail, Masked
<1>2. WriterHasSpace' /\ SlotsArePublished' /\ FifoDelivery'
  BY DEF PQInv, GetCopy, WriterHasSpace, SlotsArePublished, FifoDelivery,
         CIRC_SPACE, CIRC_CNT, Masked
<1>3. ReturnedLengthIsCopied'
  BY DEF PQInv, PQTypeOK, GetCopy, ReturnedLengthIsCopied
<1>4. OverflowFlag' /\ LossIsAnnounced'
  BY DEF PQInv, GetCopy, OverflowFlag, LossIsAnnounced, Announced, CIRC_SPACE,
         CIRC_CNT, Masked
<1> QED
  BY <1>1, <1>2, <1>3, <1>4 DEF PQInv

LEMMA GetAdvanceStep ==
  ASSUME PQInv, PQTypeOK', NEW r \in Readers, GetAdvance(r)
  PROVE  PQInv'
<1> USE DEF writerVars
<1> DEFINE n == Len(received)
<1>1. /\ rtail[r] = tail /\ head # tail /\ head \in Slots /\ tail \in Slots
      /\ rentry[r] = buf[tail]
  BY DEF PQInv, PQTypeOK, ReaderBehindTail, ReturnedLengthIsCopied, GetAdvance
<1>2. /\ CIRC_CNT(head, tail) \in Nat /\ CIRC_SPACE(head, tail) \in Nat
      /\ wspace \in Nat /\ n \in Nat /\ Len(published) \in Nat
  BY CountsAreNat DEF PQInv
<1>3. /\ tail' = Masked(tail + 1) /\ head' = head /\ buf' = buf
      /\ CIRC_CNT(head, tail)' = CIRC_CNT(head, tail) - 1
      /\ CIRC_SPACE(head, tail)' = CIRC_SPACE(head, tail) + 1
      /\ \A i \in 1 .. CIRC_CNT(head, tail) - 1 :
           Masked(tail' + (i - 1)) = Masked(tail + i)
  <2>1. tail' = Masked(tail + 1) /\ head' = head /\ buf' = buf
    BY <1>1 DEF GetAdvance
  <2>2. /\ CIRC_CNT(head, tail)' = CIRC_CNT(head, Masked(tail + 1))
        /\ CIRC_SPACE(head, tail)' = CIRC_SPACE(head, Masked(tail + 1))
    BY <2>1 DEF CIRC_CNT, CIRC_SPACE, Masked
  <2> QED
    BY <1>1, <2>1, <2>2, TailAdvances
<1>4. /\ Len(received') = n + 1
      /\ received'[n + 1] = buf[tail]
      /\ \A i \in 1 .. n : received'[i] = received[i]
  BY <1>1 DEF PQInv, PQTypeOK, GetAdvance
<1>5. CIRC_CNT(head, tail) >= 1
  BY <1>1, <1>2, CountAndSpace
<1>6. ReaderHoldsLock'
  BY DEF PQInv, PQTypeOK, GetAdvance, ReaderHoldsLock
<1>7. ReaderBehindTail'
  <2>1. \A q \in Readers : q # r => rpc[q] = "idle"
    BY DEF PQInv, ReaderHoldsLock, GetAdvance
  <2> QED
    BY <1>1, <1>3, <2>1 DEF PQInv, PQTypeOK, GetAdvance, ReaderBehindTail, Masked
<1>8. WriterHasSpace'
  BY <1>2, <1>3 DEF PQInv, WriterHasSpace, GetAdvance
<1>9. ReturnedLengthIsCopied'
  BY DEF PQInv, PQTypeOK, GetAdvance, ReturnedLengthIsCopied
<1>10. SlotsArePublished'
  <2>1. Len(published') = Len(received') + CIRC_CNT(head, tail)'
    BY <1>2, <1>3, <1>4 DEF PQInv, SlotsArePublished, GetAdvance
  <2>2. ASSUME NEW i \in 1 .. Len(published), i > n + 1
        PROVE  buf[Masked(tail' + (i - (n + 1) - 1))] = published[i].entry
    <3>1. i - n - 1 \in 1 .. CIRC_CNT(head, tail) - 1
      BY <1>2, <2>2 DEF PQInv, SlotsArePublished
    <3>2. i - (n + 1) - 1 = (i - n - 1) - 1
      BY <1>2, <2>2
    <3>3. Masked(tail' + (i - (n + 1) - 1)) = Masked(tail + (i - n - 1))
      BY <1>3, <3>1, <3>2
    <3> QED
      BY <1>2, <2>2, <3>3 DEF PQInv, SlotsArePublished
  <2> QED
    BY <1>3, <1>4, <2>1, <2>2 DEF SlotsArePublished, GetAdvance, Masked
<1>11. FifoDelivery'
  <2>1. buf[tail] = published[n + 1].entry /\ n + 1 <= Len(published)
    <3>1. n + 1 \in 1 .. Len(published)
      BY <1>2, <1>5 DEF PQInv, SlotsArePublished
    <3>2. n + 1 - n - 1 = 0 /\ Masked(tail + 0) = tail
      BY <1>1, <1>2, QueueAssumption DEF Masked, Slots
    <3> QED
      BY <1>2, <3>1, <3>2 DEF PQInv, SlotsArePublished
  <2> QED
    BY <1>2, <1>4, <2>1 DEF PQInv, FifoDelivery, GetAdvance
<1>12. OverflowFlag'
  <2>1. CIRC_SPACE(head, tail)' # 0
    BY <1>2, <1>3
  <2> QED
    BY <2>1 DEF PQInv, OverflowFlag, GetAdvance, Announced
<1>13. LossIsAnnounced'
  BY DEF PQInv, LossIsAnnounced, GetAdvance
<1> QED
  BY <1>6, <1>7, <1>8, <1>9, <1>10, <1>11, <1>12, <1>13 DEF PQInv

LEMMA GetReturnStep ==
  ASSUME PQInv, PQTypeOK', NEW r \in Readers, GetReturn(r)
  PROVE  PQInv'
<1> USE DEF queueVars, writerVars, historyVars
<1>1. ReaderHoldsLock'
  BY QueueAssumption DEF PQInv, PQTypeOK, GetReturn, ReaderHoldsLock
<1>2. ReaderBehindTail'
  BY DEF PQInv, PQTypeOK, GetReturn, ReaderBehindTail, Masked
<1>3. WriterHasSpace' /\ SlotsArePublished' /\ FifoDelivery'
  BY DEF PQInv, GetReturn, WriterHasSpace, SlotsArePublished, FifoDelivery,
         CIRC_SPACE, CIRC_CNT, Masked
<1>4. ReturnedLengthIsCopied'
  BY DEF PQInv, PQTypeOK, GetReturn, ReturnedLengthIsCopied
<1>5. OverflowFlag' /\ LossIsAnnounced'
  BY DEF PQInv, GetReturn, OverflowFlag, LossIsAnnounced, Announced, CIRC_SPACE,
         CIRC_CNT, Masked
<1> QED
  BY <1>1, <1>2, <1>3, <1>4, <1>5 DEF PQInv

\* The invariant is inductive.
LEMMA PQInvStep ==
  ASSUME PQInv, [PQNext]_pqVars
  PROVE  PQInv'
<1>1. PQTypeOK'
  BY PQTypeStep DEF PQInv
<1>2. CASE PutTooLong
  BY <1>1, <1>2, PQFrame DEF PutTooLong
<1>3. CASE UNCHANGED pqVars
  BY <1>1, <1>3, PQFrame
     DEF pqVars, historyVars, queueVars, writerVars, readerVars
<1>4. CASE PutStore \/ PutCommit \/ PutWake
  BY <1>1, <1>4, PutStoreStep, PutCommitStep, PutWakeStep
<1>5. ASSUME NEW l \in Lengths, PutBegin(l) PROVE PQInv'
  BY <1>1, <1>5, PutBeginStep
<1>6. ASSUME NEW r \in Readers,
             GetBegin(r) \/ GetCopy(r) \/ GetAdvance(r) \/ GetReturn(r)
      PROVE  PQInv'
  BY <1>1, <1>6, GetBeginStep, GetCopyStep, GetAdvanceStep, GetReturnStep
<1> QED
  BY <1>2, <1>3, <1>4, <1>5, <1>6 DEF PQNext, Put, Get, GetEmpty

LEMMA PQInvariance == PQSpec => []PQInv
<1>1. PQInv /\ [PQNext]_pqVars => PQInv'
  BY PQInvStep
<1> QED
  BY <1>1, PQInvInit, PTL DEF PQSpec

\* The writer (interrupt context, no lock against the readers) never touches
\* the slot a reader is using.
THEOREM PQNoSlotSharing == PQSpec => []NoSlotSharing
BY PQInvariance, NoSlotSharingFromInv, PTL

\* Reading the entry's length after giving the slot back is harmless.
THEOREM PQReturnedLength == PQSpec => []ReturnedLengthIsCopied
<1>1. PQInv => ReturnedLengthIsCopied
  BY DEF PQInv
<1> QED
  BY <1>1, PQInvariance, PTL

\* The queue is a FIFO: readers take the published entries in order.
THEOREM PQFifo == PQSpec => []FifoDelivery
<1>1. PQInv => FifoDelivery
  BY DEF PQInv
<1> QED
  BY <1>1, PQInvariance, PTL

\* No event is dropped from a full queue without an overflow event published
\* after the last event that went in.
THEOREM PQLossAnnounced == PQSpec => []LossIsAnnounced
<1>1. PQInv => LossIsAnnounced
  BY DEF PQInv
<1> QED
  BY <1>1, PQInvariance, PTL

-----------------------------------------------------------------------------
(* Reading a VIRT_DEV.                                                     *)

\* A thread on the wait queue that has found the queue empty may rely on it,
\* and one that found the notifications empty as well may rely on both.
SleeperKnows ==
  \A r \in Readers :
    /\ upc[r] \in {"check_notified", "sleep"} /\ r \in wait_queue =>
         CIRC_CNT(head, tail) = 0 \/ wpc = "wake"
    /\ upc[r] = "sleep" /\ r \in wait_queue => notified_events = {}

WakeInv == upc \in [Readers -> ReaderPc] /\ SleeperKnows

-----------------------------------------------------------------------------
(* The composition implements the queue.                                   *)

\* Every step of a reader or of the interrupt is a step of modac_cb_put, a
\* step of modac_cb_get, or leaves the queue alone.
LEMMA QueueStep == [VDNext]_vdVars => [PQNext]_pqVars
<1> SUFFICES ASSUME [VDNext]_vdVars PROVE [PQNext]_pqVars
  OBVIOUS
<1>1. CASE PutEvent \/ PutWakeUp
  BY <1>1 DEF PutEvent, PutWakeUp, PQNext, Put
<1>2. ASSUME NEW e \in NotifyEvents, Notify(e) PROVE UNCHANGED pqVars
  BY <1>2 DEF Notify
<1>3. ASSUME NEW r \in Readers, Reader(r) PROVE [PQNext]_pqVars
  <2>1. CASE ReadCb(r) \/ ReadCbDone(r) \/ ReadCbEmpty(r)
    <3>1. GetBegin(r) \/ GetCopy(r) \/ GetAdvance(r) \/ GetReturn(r) \/ GetEmpty(r)
      BY <2>1 DEF ReadCb, ReadCbDone, ReadCbEmpty
    <3> QED
      BY <3>1 DEF PQNext, Get
  <2>2. CASE ReadCall(r) \/ PollCall(r) \/ ReadNotified(r) \/ NothingNotified(r)
    BY <2>2 DEF ReadCall, PollCall, ReadNotified, NothingNotified
  <2>3. CASE \/ Prepare(r) \/ CheckCb(r) \/ CheckNotified(r) \/ WokenUp(r)
             \/ Interrupted(r)
    BY <2>3 DEF Prepare, CheckCb, CheckNotified, WokenUp, Interrupted
  <2> QED
    BY <1>3, <2>1, <2>2, <2>3 DEF Reader, Inside
<1>4. CASE UNCHANGED vdVars
  BY <1>4 DEF vdVars
<1> QED
  BY <1>1, <1>2, <1>3, <1>4 DEF VDNext, Interrupt

\* What is proved of the queue holds of it here: VdevRead only adds to its steps.
LEMMA VDImplementsQueue == VDSpec => PQSpec
<1>1. VDInit => PQInit
  BY DEF VDInit
<1> QED
  BY <1>1, QueueStep, PTL DEF VDSpec, PQSpec

-----------------------------------------------------------------------------
(* Types.                                                                  *)

ReadTypeOK ==
  /\ notified_events \subseteq NotifyEvents
  /\ wait_queue \subseteq Readers
  /\ upc \in [Readers -> ReaderPc]
  /\ call \in [Readers -> Calls]
  /\ buf_still_free \in [Readers -> Nat]
  /\ got \in [Readers -> BOOLEAN]

\* What the end of a call and the copy of n bytes do.
LEMMA ReturnTypes ==
  ASSUME ReadTypeOK, NEW r \in Readers, Return(r)
  PROVE  /\ upc' \in [Readers -> ReaderPc] /\ call' \in [Readers -> Calls]
         /\ buf_still_free' \in [Readers -> Nat] /\ got' \in [Readers -> BOOLEAN]
BY DEF ReadTypeOK, Return, Goto, ReaderPc, Calls

LEMMA CopyTypes ==
  ASSUME ReadTypeOK, NEW r \in Readers, NEW n \in Nat, CopyToUser(r, n)
  PROVE  /\ upc' \in [Readers -> ReaderPc] /\ call' \in [Readers -> Calls]
         /\ buf_still_free' \in [Readers -> Nat] /\ got' \in [Readers -> BOOLEAN]
<1>1. FullEvent \in Nat
  BY QueueAssumption DEF FullEvent
<1>2. CASE Return(r)
  BY <1>2, ReturnTypes
<1>3. CASE ~Return(r)
  <2>1. buf_still_free[r] - n \in Nat
    BY <1>1, <1>3 DEF CopyToUser, ReadTypeOK
  <2> QED
    BY <1>3, <2>1 DEF CopyToUser, ReadTypeOK, Goto, ReaderPc
<1> QED
  BY <1>2, <1>3

LEMMA ReadTypeStep ==
  ASSUME PQTypeOK, ReadTypeOK, [VDNext]_vdVars
  PROVE  ReadTypeOK'
<1>1. ASSUME PutEvent \/ UNCHANGED vdVars PROVE ReadTypeOK'
  BY <1>1 DEF PutEvent, readVars, vdVars, ReadTypeOK
<1>2. ASSUME PutWakeUp \/ \E e \in NotifyEvents : Notify(e) PROVE ReadTypeOK'
  BY <1>2 DEF PutWakeUp, Notify, ReadTypeOK
<1>3. ASSUME NEW r \in Readers, ReadCall(r) \/ PollCall(r) PROVE ReadTypeOK'
  BY <1>3, ReadAssumption DEF ReadCall, PollCall, Goto, ReadTypeOK, ReaderPc, Calls
<1>4. ASSUME NEW r \in Readers, ReadNotified(r) PROVE ReadTypeOK'
  BY <1>4, CopyTypes DEF ReadNotified, ReadTypeOK
<1>5. ASSUME NEW r \in Readers, ReadCbDone(r) PROVE ReadTypeOK'
  <2>1. 2 + buf[rtail[r]].length \in Nat
    BY QueueAssumption DEF PQTypeOK, Entry, Lengths
  <2> QED
    BY <1>5, <2>1, CopyTypes DEF ReadCbDone, ReadTypeOK
<1>6. ASSUME NEW r \in Readers, ReadCbEmpty(r) PROVE ReadTypeOK'
  BY <1>6, ReturnTypes DEF ReadCbEmpty, Goto, ReadTypeOK, ReaderPc
<1>7. ASSUME NEW r \in Readers, CheckCb(r) \/ CheckNotified(r) PROVE ReadTypeOK'
  BY <1>7, ReturnTypes DEF CheckCb, CheckNotified, HasData, NoData, Goto, ReadTypeOK, ReaderPc
<1>8. ASSUME NEW r \in Readers, Interrupted(r) PROVE ReadTypeOK'
  BY <1>8, ReturnTypes DEF Interrupted, ReadTypeOK
<1>9. ASSUME NEW r \in Readers,
             NothingNotified(r) \/ ReadCb(r) \/ Prepare(r) \/ WokenUp(r)
      PROVE  ReadTypeOK'
  BY <1>9 DEF NothingNotified, ReadCb, Prepare, WokenUp, readVars, Goto, ReadTypeOK, ReaderPc
<1> QED
  BY <1>1, <1>2, <1>3, <1>4, <1>5, <1>6, <1>7, <1>8, <1>9
     DEF VDNext, Interrupt, Reader, Inside

\* The locals of vdev_read keep their types: no event, however long, takes
\* buf_still_free below zero, so what is copied fits the reader's buffer.
THEOREM VDTypeCorrect == VDSpec => []VDTypeOK
<1>1. VDSpec => []PQTypeOK
  BY VDImplementsQueue, PQTypeCorrect, PTL
<1>2. VDInit => ReadTypeOK
  BY DEF VDInit, ReadTypeOK, ReaderPc, Calls
<1>3. PQTypeOK /\ ReadTypeOK /\ [VDNext]_vdVars => ReadTypeOK'
  BY ReadTypeStep
<1>4. PQTypeOK /\ ReadTypeOK => VDTypeOK
  BY DEF VDTypeOK, ReadTypeOK
<1> QED
  BY <1>1, <1>2, <1>3, <1>4, PTL DEF VDSpec

-----------------------------------------------------------------------------
(* No wake-up is lost.                                                     *)

LEMMA WakeInvInit == VDInit => WakeInv
BY DEF VDInit, WakeInv, SleeperKnows, ReaderPc

\* A reader that takes an entry finds the queue not empty.
LEMMA TakesFromNonEmpty ==
  ASSUME PQInv, NEW r \in Readers, GetAdvance(r)
  PROVE  CIRC_CNT(head, tail) # 0
BY CountAndSpace DEF PQInv, PQTypeOK, ReaderBehindTail, GetAdvance

LEMMA WakeInvStep ==
  ASSUME PQInv, WakeInv, [VDNext]_vdVars
  PROVE  WakeInv'
<1> USE DEF WakeInv, SleeperKnows, Goto, ReaderPc
<1>1. CASE PutEvent
  <2>1. UNCHANGED <<upc, wait_queue, notified_events, tail>>
    BY <1>1 DEF PutEvent, readVars, PutTooLong, PutStore, PutCommit, PutBegin,
                queueVars
  <2>2. (head' = head /\ (wpc # "wake" \/ wpc' = wpc)) \/ wpc' = "wake"
    BY <1>1 DEF PutEvent, PutTooLong, PutStore, PutCommit, PutBegin, queueVars,
                writerVars
  <2> QED
    BY <2>1, <2>2 DEF CIRC_CNT, Masked
<1>2. CASE PutWakeUp
  BY <1>2 DEF PutWakeUp
<1>3. ASSUME NEW e \in NotifyEvents, Notify(e) PROVE WakeInv'
  BY <1>3 DEF Notify
<1>4. ASSUME NEW r \in Readers, ReadCb(r) PROVE WakeInv'
  <2>1. UNCHANGED <<upc, wait_queue, notified_events, head, wpc>>
    BY <1>4 DEF ReadCb, readVars, GetBegin, GetCopy, GetAdvance, queueVars,
                writerVars
  <2>2. tail' = tail \/ CIRC_CNT(head, tail) # 0
    BY <1>4, TakesFromNonEmpty DEF ReadCb, GetBegin, GetCopy, queueVars
  <2> QED
    BY <2>1, <2>2 DEF CIRC_CNT, Masked
<1>5. ASSUME NEW r \in Readers,
             ReadCbDone(r) \/ ReadCbEmpty(r) \/ ReadNotified(r) \/ NothingNotified(r)
               \/ ReadCall(r) \/ PollCall(r)
      PROVE  WakeInv'
  <2>1. /\ UNCHANGED <<wait_queue, head, tail, wpc>>
        /\ notified_events' \subseteq notified_events
        /\ \E pc \in {"user", "notified", "cb", "prepare"} :
             upc' = [upc EXCEPT ![r] = pc]
    BY <1>5 DEF ReadCbDone, ReadCbEmpty, ReadNotified, NothingNotified, ReadCall,
                PollCall, GetReturn, GetEmpty, CopyToUser, Return, pqVars,
                queueVars, writerVars
  <2> QED
    BY <2>1 DEF CIRC_CNT, Masked
<1>6. ASSUME NEW r \in Readers, Prepare(r) \/ WokenUp(r) \/ Interrupted(r)
      PROVE  WakeInv'
  BY <1>6 DEF Prepare, WokenUp, Interrupted, Return, pqVars, queueVars,
              writerVars, CIRC_CNT, Masked
<1>7. ASSUME NEW r \in Readers, CheckCb(r) PROVE WakeInv'
  <2>1. UNCHANGED <<head, tail, wpc, notified_events>>
    BY <1>7 DEF CheckCb, pqVars, queueVars, writerVars
  <2>2. CASE HasData(r)
    BY <2>1, <2>2 DEF HasData, Return, CIRC_CNT, Masked
  <2>3. CASE CIRC_CNT(head, tail) = 0 /\ NoData(r, "check_notified")
    BY <2>1, <2>3 DEF NoData, CIRC_CNT, Masked
  <2> QED
    BY <1>7, <2>2, <2>3 DEF CheckCb
<1>8. ASSUME NEW r \in Readers, CheckNotified(r) PROVE WakeInv'
  <2>1. UNCHANGED <<head, tail, wpc, notified_events>>
    BY <1>8 DEF CheckNotified, pqVars, queueVars, writerVars
  <2>2. CASE HasData(r)
    BY <2>1, <2>2 DEF HasData, Return, CIRC_CNT, Masked
  <2>3. CASE notified_events = {} /\ NoData(r, "sleep")
    BY <1>8, <2>1, <2>3 DEF NoData, CheckNotified, CIRC_CNT, Masked
  <2> QED
    BY <1>8, <2>2, <2>3 DEF CheckNotified
<1>9. CASE UNCHANGED vdVars
  BY <1>9 DEF vdVars, pqVars, queueVars, writerVars, readVars, CIRC_CNT, Masked
<1> QED
  BY <1>1, <1>2, <1>3, <1>4, <1>5, <1>6, <1>7, <1>8, <1>9
     DEF VDNext, Interrupt, Reader, Inside

\* A thread asleep in vdev_read or poll is never left asleep over an event or
\* a notification: the check made after joining the wait queue and the wake-up
\* made after publishing cannot miss each other.
THEOREM VDNoLostWakeup == VDSpec => []NoLostWakeup
<1>1. WakeInv => NoLostWakeup
  BY DEF WakeInv, SleeperKnows, NoLostWakeup
<1>2. VDSpec => []PQInv
  BY VDImplementsQueue, PQInvariance, PTL
<1>3. PQInv /\ WakeInv /\ [VDNext]_vdVars => WakeInv'
  BY WakeInvStep
<1> QED
  BY <1>1, <1>2, <1>3, WakeInvInit, PTL DEF VDSpec
=============================================================================
