-------------------------- MODULE DataBufferProofs --------------------------
(***************************************************************************)
(* Proofs about DataBuffer, for buffers of any size and any number of them. *)
(* What each theorem assumes of the handler and the application is in its   *)
(* statement.                                                              *)
(***************************************************************************)
EXTENDS DataBuffer, FiniteSetTheorems, TLAPS

Size == IF intact THEN WordCount ELSE 0
Copied == intact => \A w \in Words : slot[w] = received

\* While the card is to receive it waits for a buffer, or has one that the handler
\* has not told it to go on from.
CardInv == mode => armed \/ (flag /\ isr.pc \notin {"put", "clear"})

\* The mode is that of the change before, until a change has written it.
ChangeInv ==
  /\ change = "idle" => irqen = subs
  /\ change \in {"idle", "buffer"} /\ ~overtaken => (mode <=> "DBUF" \in irqen)
  /\ change = "irqen" /\ ~overtaken => (mode <=> "DBUF" \in subs)

\* The words below the handler's are copied; all are when it tells the application,
\* and stay so until that has read them.
SlotInv ==
  /\ isr.pc = "copy" => intact /\ \A w \in Words : w < isr.word => slot[w] = received
  /\ isr.pc # "copy" => isr.word = 1
  /\ isr.pc \in {"rearm", "load", "put", "clear"} => Copied
  /\ isr.pc \in {"copy", "rearm", "load", "put", "clear"} => size32 = Size
  /\ queue > 0 => Copied /\ size32 = Size
  /\ app.pc = "read" => Copied /\ app.size = Size
  /\ seen \subseteq {received}
  /\ app.pc = "idle" => seen = {}

IsrRecord == [pc : {"idle", "status", "copy", "rearm", "load", "put", "clear"},
              word : Words, mode : BOOLEAN]
AppRecord == [pc : {"idle", "read"}, word : 1 .. WordCount + 1, size : {0, WordCount}]

-----------------------------------------------------------------------------
(* Types.                                                                  *)

LEMMA InitTypes == DBInit => DBTypeOK
<1> SUFFICES ASSUME DBInit PROVE DBTypeOK
  OBVIOUS
<1>1. isr \in IsrRecord BY BufferAssumption DEF DBInit, IdleIsr, IsrRecord, Words
<1>2. app \in AppRecord BY BufferAssumption DEF DBInit, IdleApp, AppRecord
<1>3. slot \in [Words -> 0 .. MaxBuffers] BY BufferAssumption DEF DBInit
<1>4. {} \subseteq Kinds /\ {} \subseteq 0 .. MaxBuffers OBVIOUS
<1>5. received \in 0 .. MaxBuffers /\ changes \in 0 .. MaxChanges /\ queue \in Nat
  BY BufferAssumption DEF DBInit
<1>6. /\ mode \in BOOLEAN /\ armed \in BOOLEAN /\ flag \in BOOLEAN /\ intact \in BOOLEAN
      /\ irq_on \in BOOLEAN /\ overtaken \in BOOLEAN
  BY DEF DBInit
<1>7. irqen \subseteq Kinds /\ subs \subseteq Kinds /\ seen \subseteq 0 .. MaxBuffers
  BY <1>4 DEF DBInit
<1>8. change = "idle" /\ size32 = 0 BY DEF DBInit
<1> QED BY <1>1, <1>2, <1>3, <1>5, <1>6, <1>7, <1>8 DEF DBTypeOK, IsrRecord, AppRecord

LEMMA StepTypes == DBTypeOK /\ [DBNext]_dbVars => DBTypeOK'
<1> SUFFICES ASSUME DBTypeOK, [DBNext]_dbVars PROVE DBTypeOK'
  OBVIOUS
<1> USE BufferAssumption
<1>a. isr \in IsrRecord /\ app \in AppRecord BY DEF DBTypeOK, IsrRecord, AppRecord
<1>1. CASE \E wanted \in SUBSET Kinds : ChangeBegin(wanted)
  <2>1. /\ subs' \subseteq Kinds /\ irq_on' \in BOOLEAN /\ change' = "buffer"
        /\ changes' \in 0 .. MaxChanges
    BY <1>1 DEF DBTypeOK, ChangeBegin
  <2> QED BY <1>1, <2>1 DEF DBTypeOK, ChangeBegin, cardVars, slotVars, appVars
<1>2. CASE ChangeBuffer
  <2>1. mode' \in BOOLEAN /\ armed' \in BOOLEAN /\ overtaken' \in BOOLEAN
    BY <1>2 DEF DBTypeOK, ChangeBuffer
  <2>2. change' = "irqen" BY <1>2 DEF ChangeBuffer
  <2>3. UNCHANGED <<received, intact, flag, irqen, subs, irq_on, changes, isr, slotVars,
                    appVars>>
    BY <1>2 DEF ChangeBuffer
  <2> QED BY <2>1, <2>2, <2>3 DEF DBTypeOK, slotVars, appVars
<1>3. CASE ChangeIrqEn
  BY <1>3 DEF DBTypeOK, ChangeIrqEn, cardVars, slotVars, appVars
<1>4. CASE Receive
  <2>1. received' \in 0 .. MaxBuffers BY <1>4 DEF DBTypeOK, Receive
  <2>2. armed' \in BOOLEAN /\ flag' \in BOOLEAN /\ intact' \in BOOLEAN BY <1>4 DEF Receive
  <2>3. UNCHANGED <<mode, listVars, isr, slotVars, appVars, overtaken>> BY <1>4 DEF Receive
  <2> QED BY <2>1, <2>2, <2>3 DEF DBTypeOK, listVars, slotVars, appVars
<1>5. CASE IsrStart
  <2>1. isr' \in IsrRecord BY <1>5, <1>a DEF IsrStart, IsrRecord
  <2> QED BY <1>5, <2>1 DEF DBTypeOK, IsrStart, IsrRecord, cardVars, listVars, slotVars, appVars
<1>6. CASE IsrStatus
  <2>1. isr' \in IsrRecord BY <1>6, <1>a DEF IsrStatus, IsrRecord
  <2> QED BY <1>6, <2>1 DEF DBTypeOK, IsrStatus, IsrRecord, cardVars, listVars, appVars
<1>7. CASE IsrCopy
  <2>1. isr' \in IsrRecord
    <3>1. isr.word \in Words BY <1>a DEF IsrRecord
    <3>2. isr.word # WordCount => isr.word + 1 \in Words BY <3>1 DEF Words
    <3>3. 1 \in Words BY DEF Words
    <3> QED BY <1>7, <1>a, <3>2, <3>3 DEF IsrCopy, IsrRecord
  <2>2. slot' \in [Words -> 0 .. MaxBuffers] BY <1>7 DEF DBTypeOK, IsrCopy
  <2> QED BY <1>7, <2>1, <2>2 DEF DBTypeOK, IsrCopy, IsrRecord, cardVars, listVars, appVars
<1>8. CASE IsrRearm
  <2>1. isr' \in IsrRecord BY <1>8, <1>a DEF IsrRearm, IsrRecord, DBTypeOK
  <2> QED BY <1>8, <2>1 DEF DBTypeOK, IsrRearm, IsrRecord, cardVars, listVars, slotVars, appVars
<1>9. CASE IsrLoad
  <2>1. isr' \in IsrRecord /\ isr.mode \in BOOLEAN BY <1>9, <1>a DEF IsrLoad, IsrRecord
  <2>2. overtaken' \in BOOLEAN BY <1>9 DEF IsrLoad, DBTypeOK
  <2> QED BY <1>9, <2>1, <2>2 DEF DBTypeOK, IsrLoad, IsrRecord, listVars, slotVars, appVars
<1>10. CASE IsrPut
  <2>1. isr' \in IsrRecord BY <1>10, <1>a DEF IsrPut, IsrRecord
  <2> QED BY <1>10, <2>1 DEF DBTypeOK, IsrPut, IsrRecord, cardVars, listVars, slotVars
<1>11. CASE IsrClear
  <2>1. isr' \in IsrRecord BY <1>11 DEF IsrClear, IsrRecord, IdleIsr, Words
  <2> QED BY <1>11, <2>1 DEF DBTypeOK, IsrClear, IsrRecord, listVars, slotVars, appVars
<1>12. CASE AppTake
  <2>1. app' \in AppRecord BY <1>12 DEF AppTake, AppRecord, DBTypeOK
  <2>2. queue' \in Nat BY <1>12 DEF AppTake, DBTypeOK
  <2> QED BY <1>12, <2>1, <2>2 DEF DBTypeOK, AppTake, AppRecord, cardVars, listVars, slotVars
<1>13. CASE AppRead
  <2>1. app.word \in 1 .. WordCount BY <1>13, <1>a DEF AppRead, AppRecord
  <2>2. app' \in AppRecord BY <1>13, <1>a, <2>1 DEF AppRead, AppRecord
  <2>3. slot[app.word] \in 0 .. MaxBuffers BY <2>1 DEF DBTypeOK, Words
  <2> QED BY <1>13, <2>2, <2>3 DEF DBTypeOK, AppRead, AppRecord, cardVars, listVars, slotVars
<1>14. CASE AppDone
  <2>1. app' \in AppRecord BY <1>14 DEF AppDone, AppRecord, IdleApp
  <2> QED BY <1>14, <2>1 DEF DBTypeOK, AppDone, AppRecord, cardVars, listVars, slotVars
<1>15. CASE UNCHANGED dbVars
  BY <1>15 DEF DBTypeOK, dbVars, cardVars, listVars, slotVars, appVars
<1> QED BY <1>1, <1>2, <1>3, <1>4, <1>5, <1>6, <1>7, <1>8, <1>9, <1>10, <1>11, <1>12,
           <1>13, <1>14, <1>15 DEF DBNext, Isr

\* Indices and flags stay what they are, for buffers of any size.
THEOREM DBTypeCorrect == DBSpec => []DBTypeOK
  BY InitTypes, StepTypes, PTL DEF DBSpec

-----------------------------------------------------------------------------
(* The reception.                                                          *)

\* What a change of subscriptions and the handler leave in DATA_BUF_CTRL.
LEMMA CardStep ==
  ASSUME HandlerInTime, DBTypeOK, CardInv, [DBNext]_dbVars PROVE CardInv'
<1>1. CASE \E wanted \in SUBSET Kinds : ChangeBegin(wanted)
  BY <1>1 DEF CardInv, ChangeBegin, cardVars
<1>2. CASE ChangeBuffer BY <1>2 DEF CardInv, ChangeBuffer
<1>3. CASE ChangeIrqEn BY <1>3 DEF CardInv, ChangeIrqEn, cardVars
<1>4. CASE Receive BY <1>4 DEF CardInv, Receive
<1>5. CASE IsrStart \/ IsrStatus \/ IsrCopy \/ IsrRearm
  <2>1. isr'.pc \notin {"put", "clear"}
    BY <1>5 DEF IsrStart, IsrStatus, IsrCopy, IsrRearm, DBTypeOK
  <2>2. isr.pc \notin {"put", "clear"} /\ UNCHANGED cardVars
    BY <1>5 DEF IsrStart, IsrStatus, IsrCopy, IsrRearm
  <2> QED BY <2>1, <2>2 DEF CardInv, cardVars
<1>6. CASE IsrLoad BY <1>6 DEF CardInv, IsrLoad
<1>7. CASE IsrPut
  <2>1. isr.pc = "put" /\ UNCHANGED cardVars BY <1>7 DEF IsrPut
  <2> QED BY <2>1 DEF CardInv, cardVars
<1>8. CASE IsrClear
  <2>1. isr.pc = "clear" /\ UNCHANGED <<mode, armed>> BY <1>8 DEF IsrClear
  <2> QED BY <2>1 DEF CardInv
<1>9. CASE AppTake \/ AppRead \/ AppDone
  BY <1>9 DEF CardInv, AppTake, AppRead, AppDone, cardVars
<1>10. CASE UNCHANGED dbVars BY <1>10 DEF CardInv, dbVars, cardVars
<1> QED BY <1>1, <1>2, <1>3, <1>4, <1>5, <1>6, <1>7, <1>8, <1>9, <1>10 DEF DBNext, Isr

\* The mode follows the changes; the handler does not disturb it unnoticed.
LEMMA ChangeStep ==
  ASSUME DBTypeOK, ChangeInv, [DBNext]_dbVars PROVE ChangeInv'
<1>1. CASE \E wanted \in SUBSET Kinds : ChangeBegin(wanted)
  BY <1>1 DEF ChangeInv, ChangeBegin, cardVars
<1>2. CASE ChangeBuffer BY <1>2 DEF ChangeInv, ChangeBuffer
<1>3. CASE ChangeIrqEn BY <1>3 DEF ChangeInv, ChangeIrqEn, cardVars
<1>4. CASE Receive BY <1>4 DEF ChangeInv, Receive, listVars
<1>5. CASE IsrStart \/ IsrStatus \/ IsrCopy \/ IsrRearm \/ IsrPut \/ IsrClear
  BY <1>5 DEF ChangeInv, IsrStart, IsrStatus, IsrCopy, IsrRearm, IsrPut, IsrClear,
              cardVars, listVars
<1>6. CASE IsrLoad
  <2>1. ~overtaken' => mode' = mode /\ ~overtaken BY <1>6 DEF IsrLoad
  <2> QED BY <1>6, <2>1 DEF ChangeInv, IsrLoad, listVars
<1>7. CASE AppTake \/ AppRead \/ AppDone
  BY <1>7 DEF ChangeInv, AppTake, AppRead, AppDone, cardVars, listVars
<1>8. CASE UNCHANGED dbVars BY <1>8 DEF ChangeInv, dbVars, cardVars, listVars
<1> QED BY <1>1, <1>2, <1>3, <1>4, <1>5, <1>6, <1>7, <1>8 DEF DBNext, Isr

\* While the buffer is subscribed the card goes on receiving, unless the handler wrote
\* back a MODE it read before a change, if it ends before the next buffer is received
\* (hw_support_evr_isr, hw_support_evr_on_subscribe_change).
THEOREM DBReceptionGoesOn ==
  ASSUME HandlerInTime PROVE DBSpec => []ReceptionGoesOn
<1>1. DBInit => CardInv /\ ChangeInv BY DEF DBInit, CardInv, ChangeInv
<1>2. DBTypeOK /\ CardInv /\ ChangeInv /\ [DBNext]_dbVars => CardInv' /\ ChangeInv'
  BY CardStep, ChangeStep
<1>3. CardInv /\ ChangeInv => ReceptionGoesOn BY DEF CardInv, ChangeInv, ReceptionGoesOn
<1> QED BY <1>1, <1>2, <1>3, DBTypeCorrect, PTL DEF DBSpec

-----------------------------------------------------------------------------
(* The mapped memory.                                                      *)

LEMMA SlotInit == ASSUME DBInit PROVE SlotInv
  BY DEF DBInit, SlotInv, IdleIsr, IdleApp

LEMMA SlotIsrStep ==
  ASSUME DBTypeOK, SlotInv, Isr PROVE SlotInv'
<1> USE BufferAssumption
<1>a. isr \in IsrRecord BY DEF DBTypeOK, IsrRecord
<1>1. CASE IsrStart
  <2>1. isr.pc = "idle" /\ isr'.pc = "status" /\ isr'.word = isr.word
    BY <1>1, <1>a DEF IsrStart, IsrRecord
  <2> QED BY <1>1, <2>1 DEF SlotInv, Copied, Size, IsrStart, cardVars, slotVars, appVars
<1>2. CASE IsrStatus
  <2>1. /\ isr.pc = "status" /\ isr'.word = isr.word
        /\ isr'.pc = IF intact THEN "copy" ELSE "rearm"
    BY <1>2, <1>a DEF IsrStatus, IsrRecord
  <2>2. isr.word = 1 BY <2>1 DEF SlotInv
  <2>3. size32' = Size /\ Size' = Size BY <1>2 DEF IsrStatus, Size, cardVars
  <2>4. \A w \in Words : ~(w < 1) BY DEF Words
  <2> QED BY <1>2, <2>1, <2>2, <2>3, <2>4 DEF SlotInv, Copied, IsrStatus, cardVars, appVars
<1>3. CASE IsrCopy
  <2>1. isr.pc = "copy" /\ intact /\ \A w \in Words : w < isr.word => slot[w] = received
    BY <1>3 DEF IsrCopy, SlotInv
  <2>2. isr.word \in Words BY <1>a DEF IsrRecord
  <2>3. UNCHANGED <<cardVars, size32, appVars>> BY <1>3 DEF IsrCopy
  <2>4. /\ slot'[isr.word] = received
        /\ \A w \in Words : w # isr.word => slot'[w] = slot[w]
    BY <1>3, <2>2 DEF IsrCopy, DBTypeOK
  <2>5. Copied => Copied' BY <2>3, <2>4 DEF Copied, cardVars
  <2>6. Size' = Size BY <2>3 DEF Size, cardVars
  <2>7. CASE isr.word = WordCount
    <3>1. isr'.pc = "rearm" /\ isr'.word = 1 BY <1>3, <1>a, <2>7 DEF IsrCopy, IsrRecord
    <3>2. \A w \in Words : w = isr.word \/ w < isr.word BY <2>7 DEF Words
    <3>3. Copied' BY <2>1, <2>3, <2>4, <3>2 DEF Copied, cardVars
    <3> QED BY <2>1, <2>3, <2>6, <3>1, <3>3 DEF SlotInv, cardVars, appVars
  <2>8. CASE isr.word # WordCount
    <3>1. isr'.pc = "copy" /\ isr'.word = isr.word + 1
      BY <1>3, <1>a, <2>8 DEF IsrCopy, IsrRecord
    <3>2. \A w \in Words : w < isr.word + 1 => w = isr.word \/ w < isr.word
      BY <2>2 DEF Words
    <3>3. \A w \in Words : w < isr'.word => slot'[w] = received'
      BY <2>1, <2>3, <2>4, <3>1, <3>2 DEF cardVars
    <3> QED BY <2>1, <2>3, <2>5, <2>6, <3>1, <3>3 DEF SlotInv, cardVars, appVars
  <2> QED BY <2>7, <2>8
<1>4. CASE IsrRearm
  <2>1. isr.pc = "rearm" /\ isr'.pc = "load" /\ isr'.word = isr.word
    BY <1>4, <1>a DEF IsrRearm, IsrRecord
  <2> QED BY <1>4, <2>1 DEF SlotInv, Copied, Size, IsrRearm, cardVars, slotVars, appVars
<1>5. CASE IsrLoad
  <2>1. isr.pc = "load" /\ isr'.pc = "put" /\ isr'.word = isr.word
    BY <1>5, <1>a DEF IsrLoad, IsrRecord
  <2> QED BY <1>5, <2>1 DEF SlotInv, Copied, Size, IsrLoad, slotVars, appVars
<1>6. CASE IsrPut
  <2>1. isr.pc = "put" /\ isr'.pc = "clear" /\ isr'.word = isr.word
    BY <1>6, <1>a DEF IsrPut, IsrRecord
  <2>2. Copied /\ size32 = Size BY <2>1 DEF SlotInv
  <2> QED BY <1>6, <2>1, <2>2 DEF SlotInv, Copied, Size, IsrPut, cardVars, slotVars
<1>7. CASE IsrClear
  <2>1. isr'.pc = "idle" /\ isr'.word = 1 BY <1>7 DEF IsrClear, IdleIsr
  <2> QED BY <1>7, <2>1 DEF SlotInv, Copied, Size, IsrClear, slotVars, appVars
<1> QED BY <1>1, <1>2, <1>3, <1>4, <1>5, <1>6, <1>7 DEF Isr

LEMMA SlotAppStep ==
  ASSUME DBTypeOK, SlotInv, AppTake \/ AppRead \/ AppDone PROVE SlotInv'
<1> USE BufferAssumption
<1>a. app \in AppRecord BY DEF DBTypeOK, AppRecord
<1>1. CASE AppTake
  <2>1. app'.pc = "read" /\ app'.size = size32 /\ app.pc = "idle" BY <1>1 DEF AppTake
  <2>2. Copied /\ size32 = Size BY <1>1 DEF AppTake, SlotInv, DBTypeOK
  <2> QED BY <1>1, <2>1, <2>2 DEF SlotInv, Copied, Size, AppTake, cardVars, slotVars
<1>2. CASE AppRead
  <2>1. app'.pc = "read" /\ app'.size = app.size /\ app.pc = "read" /\ app.word <= app.size
    BY <1>2, <1>a DEF AppRead, AppRecord
  <2>2. Copied /\ app.size = Size BY <2>1 DEF SlotInv
  <2>3. intact /\ app.word \in Words
    BY <1>a, <2>1, <2>2 DEF Size, AppRecord, Words
  <2>4. slot[app.word] = received BY <2>2, <2>3 DEF Copied
  <2>5. seen' \subseteq {received} BY <1>2, <2>4 DEF AppRead, SlotInv
  <2> QED BY <1>2, <2>1, <2>2, <2>5 DEF SlotInv, Copied, Size, AppRead, cardVars, slotVars
<1>3. CASE AppDone
  <2>1. app'.pc = "idle" /\ seen' = {} BY <1>3 DEF AppDone, IdleApp
  <2> QED BY <1>3, <2>1 DEF SlotInv, Copied, Size, AppDone, cardVars, slotVars
<1> QED BY <1>1, <1>2, <1>3

LEMMA SlotStep ==
  ASSUME HandlerInTime, ReaderInTime, DBTypeOK, SlotInv, [DBNext]_dbVars PROVE SlotInv'
<1>1. CASE \E wanted \in SUBSET Kinds : ChangeBegin(wanted)
  BY <1>1 DEF SlotInv, Copied, Size, ChangeBegin, cardVars, slotVars, appVars
<1>2. CASE ChangeBuffer
  BY <1>2 DEF SlotInv, Copied, Size, ChangeBuffer, slotVars, appVars
<1>3. CASE ChangeIrqEn
  BY <1>3 DEF SlotInv, Copied, Size, ChangeIrqEn, cardVars, slotVars, appVars
<1>4. CASE Receive
  <2>1. isr.pc = "idle" /\ queue = 0 /\ app.pc = "idle" BY <1>4 DEF Receive
  <2>2. seen = {} BY <2>1 DEF SlotInv
  <2> QED BY <1>4, <2>1, <2>2 DEF SlotInv, Receive, slotVars, appVars
<1>5. CASE UNCHANGED dbVars
  BY <1>5 DEF SlotInv, Copied, Size, dbVars, cardVars, slotVars, appVars
<1> QED BY <1>1, <1>2, <1>3, <1>4, <1>5, SlotIsrStep, SlotAppStep DEF DBNext

\* An application never reads words of two buffers, if the handler has ended and the
\* application has read a buffer before the next is received (linux-evrma.h:341).
THEOREM DBReadsOneBuffer ==
  ASSUME HandlerInTime, ReaderInTime PROVE DBSpec => []ReadsOneBuffer
<1>1. DBInit => SlotInv BY SlotInit
<1>2. DBTypeOK /\ SlotInv /\ [DBNext]_dbVars => SlotInv' BY SlotStep
<1>3. SlotInv => ReadsOneBuffer
  <2> SUFFICES ASSUME SlotInv PROVE Cardinality(seen) <= 1
    BY DEF ReadsOneBuffer
  <2>1. seen \subseteq {received} BY DEF SlotInv
  <2>2. IsFiniteSet({received}) /\ Cardinality({received}) = 1 BY FS_Singleton
  <2> QED BY <2>1, <2>2, FS_Subset, FS_CardinalityType
<1> QED BY <1>1, <1>2, <1>3, DBTypeCorrect, PTL DEF DBSpec
=============================================================================
