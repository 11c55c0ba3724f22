----------------------------- MODULE DataBuffer -----------------------------
(***************************************************************************)
(* The data buffer of the EVR (evr-irq-events.c, 78-138 and 263-283): the  *)
(* card receives one buffer at a time, and only when it was told to; the   *)
(* interrupt handler copies it to the memory the applications have mapped, *)
(* tells the card to receive the next one, and queues an event; a change   *)
(* of subscriptions starts or stops the reception meanwhile.               *)
(*                                                                         *)
(* The rest of the handler and of the change is in EvrHardware, the queue  *)
(* in PacketQueue; here it is the number of its DBUF_DATA events.  What is *)
(* relied on of the card: LOAD makes it receive one buffer, if MODE is up, *)
(* whatever else is written; STOP alone ends that; the flag DATABUF stays  *)
(* up until it is cleared, enabled or not.                                 *)
(***************************************************************************)
EXTENDS Naturals, FiniteSets

CONSTANTS
  WordCount,     \* words of a buffer
  MaxBuffers,    \* bound: buffers received
  MaxChanges,    \* bound: changes of subscriptions
  HandlerInTime, \* does the handler end before the next buffer is received?
  ReaderInTime   \* is a buffer read before the next is received?

ASSUME BufferAssumption ==
  /\ WordCount \in Nat \ {0}
  /\ MaxBuffers \in Nat /\ MaxChanges \in Nat
  /\ HandlerInTime \in BOOLEAN /\ ReaderInTime \in BOOLEAN

Words == 1 .. WordCount

\* Events that can be subscribed to: EVRMA_EVENT_DBUF_DATA, and any other.
Kinds == {"DBUF", "OTHER"}

VARIABLES
  mode, armed,    \* DATA_BUF_CTRL: MODE; told to receive one buffer
  received, intact, \* the last buffer received: its number, is its checksum right?
  flag,           \* IRQFLAG: DATABUF
  irqen,          \* IRQEN
  subs, irq_on,   \* the dispatch list; the interrupt is requested
  change,         \* progress of on_subscribe_change
  isr,            \* progress of the handler: where, the next word, MODE as read
  slot,           \* the mapped memory, by word: of which buffer
  size32,         \* the mapped memory: how many words
  queue,          \* DBUF_DATA events to be read
  app,            \* the application: where, the next word, how many there are
  seen,           \* the buffers whose words it has read
  changes,        \* for the bound
  overtaken       \* history: the handler wrote an old MODE back

cardVars == <<mode, armed, received, intact, flag>>
listVars == <<irqen, subs, irq_on, change, changes>>
slotVars == <<slot, size32>>
appVars == <<queue, app, seen>>
dbVars == <<cardVars, listVars, isr, slotVars, appVars, overtaken>>

DBTypeOK ==
  /\ mode \in BOOLEAN /\ armed \in BOOLEAN /\ flag \in BOOLEAN /\ intact \in BOOLEAN
  /\ received \in 0 .. MaxBuffers
  /\ irqen \subseteq Kinds /\ subs \subseteq Kinds /\ irq_on \in BOOLEAN
  /\ change \in {"idle", "buffer", "irqen"}
  /\ isr \in [pc : {"idle", "status", "copy", "rearm", "load", "put", "clear"},
              word : Words, mode : BOOLEAN]
  /\ slot \in [Words -> 0 .. MaxBuffers] /\ size32 \in {0, WordCount}
  /\ queue \in Nat
  /\ app \in [pc : {"idle", "read"}, word : 1 .. WordCount + 1, size : {0, WordCount}]
  /\ seen \subseteq 0 .. MaxBuffers
  /\ changes \in 0 .. MaxChanges
  /\ overtaken \in BOOLEAN

IdleIsr == [pc |-> "idle", word |-> 1, mode |-> FALSE]
IdleApp == [pc |-> "idle", word |-> 1, size |-> 0]

DBInit ==
  /\ mode = FALSE /\ armed = FALSE /\ flag = FALSE
  /\ received = 0 /\ intact = TRUE
  /\ irqen = {} /\ subs = {} /\ irq_on = FALSE
  /\ change = "idle" /\ changes = 0
  /\ isr = IdleIsr
  /\ slot = [w \in Words |-> 0] /\ size32 = 0
  /\ queue = 0 /\ app = IdleApp /\ seen = {}
  /\ overtaken = FALSE

-----------------------------------------------------------------------------
(* on_subscribe_change, under the devref lock.                             *)

\* The dispatch list has been changed; irq_set(0) waits for the handler.
ChangeBegin(wanted) ==
  /\ change = "idle" /\ changes < MaxChanges
  /\ subs' = wanted /\ irq_on' = (wanted # {})
  /\ irq_on /\ ~irq_on' => isr.pc = "idle"
  /\ change' = "buffer" /\ changes' = changes + 1
  /\ UNCHANGED <<cardVars, irqen, isr, slotVars, appVars, overtaken>>

\* MODE and LOAD at the start only, STOP whenever the buffer is not wanted.
ChangeBuffer ==
  /\ change = "buffer"
  /\ \/ /\ "DBUF" \in subs /\ "DBUF" \notin irqen
        /\ mode' = TRUE /\ armed' = TRUE /\ overtaken' = FALSE
     \/ /\ "DBUF" \in subs \cap irqen
        /\ UNCHANGED <<mode, armed, overtaken>>
     \/ /\ "DBUF" \notin subs
        /\ mode' = FALSE /\ armed' = FALSE /\ overtaken' = FALSE
  /\ change' = "irqen"
  /\ UNCHANGED <<received, intact, flag, irqen, subs, irq_on, changes, isr, slotVars,
                 appVars>>

ChangeIrqEn ==
  /\ change = "irqen"
  /\ irqen' = subs
  /\ change' = "idle"
  /\ UNCHANGED <<cardVars, subs, irq_on, changes, isr, slotVars, appVars, overtaken>>

-----------------------------------------------------------------------------
(* The card.                                                               *)

\* A buffer is received, if the card was told to; the others are not seen.
Receive ==
  /\ mode /\ armed /\ received < MaxBuffers
  /\ HandlerInTime => isr.pc = "idle"
  /\ ReaderInTime => queue = 0 /\ app.pc = "idle"
  /\ received' = received + 1 /\ intact' \in BOOLEAN
  /\ armed' = FALSE /\ flag' = TRUE
  /\ UNCHANGED <<mode, listVars, isr, slotVars, appVars, overtaken>>

-----------------------------------------------------------------------------
(* hw_support_evr_isr, if it has read the flag DATABUF, enabled or not.    *)

IsrStart ==
  /\ isr.pc = "idle" /\ irq_on
  /\ flag /\ irqen # {}   \* DATABUF, or another interrupt, has called it
  /\ isr' = [isr EXCEPT !.pc = "status"]
  /\ UNCHANGED <<cardVars, listVars, slotVars, appVars, overtaken>>

\* Variant with a fault: the card goes on only after an intact buffer.
IsrStatusGivesUp ==
  /\ isr.pc = "status"
  /\ size32' = IF intact THEN WordCount ELSE 0
  /\ isr' = [isr EXCEPT !.pc = IF intact THEN "copy" ELSE "put"]
  /\ UNCHANGED <<cardVars, listVars, slot, appVars, overtaken>>

\* Variant with a fault: the event is queued before the words are copied.
IsrStatusTooEarly ==
  /\ isr.pc = "status"
  /\ size32' = IF intact THEN WordCount ELSE 0
  /\ queue' = IF "DBUF" \in subs THEN queue + 1 ELSE queue
  /\ isr' = [isr EXCEPT !.pc = IF intact THEN "copy" ELSE "rearm"]
  /\ UNCHANGED <<cardVars, listVars, slot, app, seen, overtaken>>

\* With a wrong checksum there are no words.
IsrStatus ==
  /\ isr.pc = "status"
  /\ size32' = IF intact THEN WordCount ELSE 0
  /\ isr' = [isr EXCEPT !.pc = IF intact THEN "copy" ELSE "rearm"]
  /\ UNCHANGED <<cardVars, listVars, slot, appVars, overtaken>>

\* Variant with a fault: one word too many.
IsrCopyOneMore ==
  /\ isr.pc = "copy"
  /\ slot' = [slot EXCEPT ![isr.word] = received]
  /\ isr' = IF isr.word > WordCount THEN [isr EXCEPT !.word = 1, !.pc = "rearm"]
            ELSE [isr EXCEPT !.word = @ + 1]
  /\ UNCHANGED <<cardVars, listVars, size32, appVars, overtaken>>

IsrCopy ==
  /\ isr.pc = "copy"
  /\ slot' = [slot EXCEPT ![isr.word] = received]
  /\ isr' = IF isr.word = WordCount THEN [isr EXCEPT !.word = 1, !.pc = "rearm"]
            ELSE [isr EXCEPT !.word = @ + 1]
  /\ UNCHANGED <<cardVars, listVars, size32, appVars, overtaken>>

\* DATA_BUF_CTRL is read ...
IsrRearm ==
  /\ isr.pc = "rearm"
  /\ isr' = [isr EXCEPT !.pc = "load", !.mode = mode]
  /\ UNCHANGED <<cardVars, listVars, slotVars, appVars, overtaken>>

\* ... and written back with LOAD.
IsrLoad ==
  /\ isr.pc = "load"
  /\ mode' = isr.mode /\ armed' = TRUE
  /\ overtaken' = (overtaken \/ isr.mode # mode)
  /\ isr' = [isr EXCEPT !.pc = "put", !.mode = FALSE]
  /\ UNCHANGED <<received, intact, flag, listVars, slotVars, appVars>>

\* modac_mngdev_put_event.
IsrPut ==
  /\ isr.pc = "put"
  /\ queue' = IF "DBUF" \in subs THEN queue + 1 ELSE queue
  /\ isr' = [isr EXCEPT !.pc = "clear"]
  /\ UNCHANGED <<cardVars, listVars, slotVars, app, seen, overtaken>>

IsrClear ==
  /\ isr.pc = "clear"
  /\ flag' = FALSE
  /\ isr' = IdleIsr
  /\ UNCHANGED <<mode, armed, received, intact, listVars, slotVars, appVars, overtaken>>

-----------------------------------------------------------------------------
(* An application that reads the event and then the mapped memory.         *)

AppTake ==
  /\ app.pc = "idle" /\ queue > 0
  /\ queue' = queue - 1
  /\ app' = [pc |-> "read", word |-> 1, size |-> size32]
  /\ UNCHANGED <<cardVars, listVars, isr, slotVars, seen, overtaken>>

AppRead ==
  /\ app.pc = "read" /\ app.word <= app.size
  /\ seen' = seen \cup {slot[app.word]}
  /\ app' = [app EXCEPT !.word = @ + 1]
  /\ UNCHANGED <<cardVars, listVars, isr, slotVars, queue, overtaken>>

AppDone ==
  /\ app.pc = "read" /\ app.word > app.size
  /\ app' = IdleApp /\ seen' = {}
  /\ UNCHANGED <<cardVars, listVars, isr, slotVars, queue, overtaken>>

Isr ==
  IsrStart \/ IsrStatus \/ IsrCopy \/ IsrRearm \/ IsrLoad \/ IsrPut \/ IsrClear

DBNext ==
  \/ \E wanted \in SUBSET Kinds : ChangeBegin(wanted)
  \/ ChangeBuffer \/ ChangeIrqEn
  \/ Receive
  \/ Isr
  \/ AppTake \/ AppRead \/ AppDone

DBSpec == DBInit /\ [][DBNext]_dbVars

-----------------------------------------------------------------------------
(* Properties.                                                             *)

\* The card goes on receiving.  Between changes it is in the mode that is asked for,
\* and while the buffer is subscribed it either waits for the next one or has raised
\* a flag that a handler is still to see: the changes of other subscriptions do not
\* "spoil the interrupts for other VEVRs" (evr-irq-events.c:273).
ReceptionGoesOn ==
  change = "idle" /\ ~overtaken =>
    /\ mode <=> "DBUF" \in subs
    /\ mode => \/ armed
               \/ flag /\ "DBUF" \in irqen /\ isr.pc \notin {"put", "clear"}

\* An application reads the words of one buffer, though the handler may be writing
\* them again: "It is assumed the data will be read by the application before the
\* next data arrives" (linux-evrma.h:341).
ReadsOneBuffer == Cardinality(seen) <= 1
=============================================================================
