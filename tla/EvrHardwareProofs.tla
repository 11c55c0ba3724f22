------------------------- MODULE EvrHardwareProofs -------------------------
(***************************************************************************)
(* Proofs about EvrHardware, for any number of event codes, pulse           *)
(* generators and callers and any sizes of the FIFO.  The handler's part of *)
(* the invariant and the flush's part do not depend on each other, but for  *)
(* the types.                                                               *)
(***************************************************************************)
EXTENDS EvrHardware, TLAPS

\* The handler reads the FIFO only while something is in it and its limit is
\* not reached, and empties it only because of FULL.
IsrInv ==
  /\ isr.pc = "idle" => isr.flags = {}
  /\ isr.pc = "clear" => isr.left = FifoEventLimit
                         /\ ("EVENT" \in isr.flags => fifo # <<>>)
  /\ isr.pc = "event" => isr.left > 0 /\ fifo # <<>>
  /\ isr.pc \in {"reset", "full_clear"} => "FULL" \in isr.flags

\* How far the flush has come, and that a call is followed by what belongs to it.
Flushing == lock.pc \in {"read", "save", "switch"}

LockInv ==
  /\ lock.pc = "save" => lock.row \in Codes
  /\ lock.pc = "switch" => lock.row = EventCount + 1
  /\ ~Flushing => lock.then = "idle"

LEMMA RowUpdates ==
  ASSUME NEW r \in Row, NEW b \in BOOLEAN, NEW P \in SUBSET Pulsegens
  PROVE  [r EXCEPT !.save = b] \in Row /\ [r EXCEPT !.pulses = P] \in Row
  BY DEF Row

\* The state at the beginning.
LEMMA InitTypes == ASSUME EHInit PROVE EHTypeOK /\ IsrInv /\ LockInv
<1>1. Blank \in [Codes -> Row] BY DEF Blank, Row
<1>2. <<>> \in Seq(Codes) /\ Len(<<>>) <= FifoSize BY HardwareAssumption
<1>3. 1 \in 1 .. EventCount + 1 BY HardwareAssumption
<1>4. 0 \in 0 .. MaxChanges /\ 0 \in 0 .. FifoEventLimit BY HardwareAssumption
<1>5. EHTypeOK BY <1>1, <1>2, <1>3, <1>4 DEF EHInit, EHTypeOK, Rams, Nothing
<1>6. IsrInv /\ LockInv BY DEF EHInit, IsrInv, LockInv, Flushing
<1> QED BY <1>5, <1>6

LEMMA BeginTypes ==
  ASSUME EHTypeOK, NEW then \in {"idle", "irqen", "outen"}, Begin(then)
  PROVE  /\ lock' = [pc |-> "read", ctrl |-> lock.ctrl, row |-> lock.row, then |-> then]
         /\ lock' \in [pc : {"idle", "read", "save", "switch", "irqen", "outen",
                             "outen_write"},
                       ctrl : Rams, row : 1 .. EventCount + 1,
                       then : {"idle", "irqen", "outen"}]
         /\ changes' \in 0 .. MaxChanges
<1>1. /\ lock.ctrl \in Rams /\ lock.row \in 1 .. EventCount + 1
      /\ lock = [pc |-> lock.pc, ctrl |-> lock.ctrl, row |-> lock.row, then |-> lock.then]
  BY DEF EHTypeOK
<1>2. lock' = [lock EXCEPT !.pc = "read", !.then = then] BY DEF Begin
<1>3. lock' = [pc |-> "read", ctrl |-> lock.ctrl, row |-> lock.row, then |-> then]
  BY <1>1, <1>2
<1>4. changes' \in 0 .. MaxChanges BY HardwareAssumption DEF Begin, EHTypeOK
<1> QED BY <1>1, <1>3, <1>4

\* The map stays a map, whatever is asked for.
LEMMA Wanted ==
  ASSUME EHTypeOK, NEW wanted \in Subscriptions
  PROVE  /\ wanted.codes \subseteq Codes /\ wanted.statuses \subseteq Statuses
         /\ [e \in Codes |-> [map_ram[e] EXCEPT !.save = e \in wanted.codes]]
              \in [Codes -> Row]
<1>1. wanted \in [codes : SUBSET Codes, statuses : SUBSET Statuses]
  BY HardwareAssumption
<1>2. \A e \in Codes : [map_ram[e] EXCEPT !.save = e \in wanted.codes] \in Row
  <2> SUFFICES ASSUME NEW e \in Codes
      PROVE  [map_ram[e] EXCEPT !.save = e \in wanted.codes] \in Row
    OBVIOUS
  <2>1. map_ram[e] \in Row BY DEF EHTypeOK
  <2>2. (e \in wanted.codes) \in BOOLEAN OBVIOUS
  <2> QED BY <2>1, <2>2, RowUpdates
<1> QED BY <1>1, <1>2

\* Nor does taking a pulse generator into a row or out of it change its type.
LEMMA PulsesOfRow ==
  ASSUME EHTypeOK, NEW p \in Pulsegens, NEW e \in Codes
  PROVE  /\ map_ram[e] \in Row
         /\ [map_ram[e] EXCEPT !.pulses = @ \cup {p}] \in Row
         /\ [map_ram[e] EXCEPT !.pulses = @ \ {p}] \in Row
<1>1. map_ram[e] \in Row BY DEF EHTypeOK
<1>2. map_ram[e].pulses \subseteq Pulsegens BY <1>1 DEF Row
<1>3. /\ map_ram[e].pulses \cup {p} \in SUBSET Pulsegens
      /\ map_ram[e].pulses \ {p} \in SUBSET Pulsegens
  BY <1>2
<1> QED BY <1>1, <1>3, RowUpdates

LEMMA TypesOfCalls ==
  ASSUME EHTypeOK, LockInv,
         \/ \E wanted \in Subscriptions : SubscribeChange(wanted)
         \/ \E p \in Pulsegens :
              \/ \E m \in Mappings : MapRamSet(p, m)
              \/ PulseSet(p) \/ InitRes(p)
         \/ InitIoctl
  PROVE  EHTypeOK' /\ LockInv'
<1>1. ASSUME NEW wanted \in Subscriptions, SubscribeChange(wanted)
      PROVE  EHTypeOK' /\ LockInv'
  <2>1. Begin("irqen") BY <1>1 DEF SubscribeChange
  <2>2. irq_on' \in BOOLEAN BY <1>1 DEF SubscribeChange
  <2> QED
    BY <1>1, <2>1, <2>2, BeginTypes, Wanted
    DEF SubscribeChange, EHTypeOK, LockInv, Flushing, cardVars, isrVars, historyVars
<1>2. ASSUME NEW p \in Pulsegens, NEW m \in Mappings, MapRamSet(p, m)
      PROVE  EHTypeOK' /\ LockInv'
  <2>1. Begin("idle") BY <1>2 DEF MapRamSet
  <2>2. ASSUME NEW e \in Codes PROVE map_ram'[e] \in Row
    <3>1. CASE e \in m.rows /\ e \in m.mapped
      BY <1>2, <3>1, PulsesOfRow DEF MapRamSet
    <3>2. CASE e \in m.rows /\ e \notin m.mapped
      BY <1>2, <3>2, PulsesOfRow DEF MapRamSet
    <3>3. CASE e \notin m.rows
      BY <1>2, <3>3, PulsesOfRow DEF MapRamSet
    <3> QED BY <3>1, <3>2, <3>3
  <2>4. map_ram' \in [Codes -> Row] BY <1>2, <2>2 DEF MapRamSet
  <2> QED
    BY <1>2, <2>1, <2>4, BeginTypes
    DEF MapRamSet, EHTypeOK, LockInv, Flushing, cardVars, subsVars, isrVars
<1>3. ASSUME NEW p \in Pulsegens, PulseSet(p) PROVE EHTypeOK' /\ LockInv'
  BY <1>3, HardwareAssumption
  DEF PulseSet, EHTypeOK, LockInv, Flushing, subsVars, isrVars
<1>4. ASSUME NEW p \in Pulsegens, InitRes(p) PROVE EHTypeOK' /\ LockInv'
  <2>1. Begin("idle") BY <1>4 DEF InitRes
  <2>2. \A e \in Codes : [map_ram[e] EXCEPT !.pulses = @ \ {p}] \in Row
    BY PulsesOfRow
  <2>3. map_ram' \in [Codes -> Row] BY <1>4, <2>2 DEF InitRes
  <2> QED
    BY <1>4, <2>1, <2>3, BeginTypes
    DEF InitRes, EHTypeOK, LockInv, Flushing, subsVars, isrVars
<1>5. ASSUME InitIoctl PROVE EHTypeOK' /\ LockInv'
  <2>1. Begin("outen") BY <1>5 DEF InitIoctl
  <2>2. Blank \in [Codes -> Row] BY DEF Blank, Row
  <2> QED
    BY <1>5, <2>1, <2>2, BeginTypes
    DEF InitIoctl, EHTypeOK, LockInv, Flushing, subsVars, isrVars
<1> QED BY <1>1, <1>2, <1>3, <1>4, <1>5

LEMMA TypesOfFlush ==
  ASSUME EHTypeOK, LockInv,
         \/ FlushRead \/ SaveRow \/ FlushSwitch
         \/ WriteIrqEn \/ OutputEnableRead \/ OutputEnableWrite
  PROVE  EHTypeOK' /\ LockInv'
<1> USE HardwareAssumption
<1>1. ASSUME FlushRead PROVE EHTypeOK' /\ LockInv'
  <2>1. 1 \in Codes /\ 1 \in 1 .. EventCount + 1 BY DEF Codes
  <2>2. lock' = [pc |-> "save", ctrl |-> select, row |-> 1, then |-> lock.then]
    BY <1>1 DEF FlushRead, EHTypeOK
  <2> QED
    BY <1>1, <2>1, <2>2
    DEF FlushRead, EHTypeOK, LockInv, Flushing, cardVars, subsVars, isrVars, historyVars
<1>2. ASSUME SaveRow PROVE EHTypeOK' /\ LockInv'
  <2>1. lock.row \in Codes /\ Target \in Rams
    BY <1>2 DEF SaveRow, LockInv, EHTypeOK, Target, Rams
  <2>2. map_ram[lock.row] \in Row BY <2>1 DEF EHTypeOK
  <2>3. ram' \in [Rams -> [Codes -> Row]] BY <1>2, <2>1, <2>2 DEF SaveRow, EHTypeOK
  <2>4. lock' = [pc |-> IF lock.row = EventCount THEN "switch" ELSE "save",
                 ctrl |-> lock.ctrl, row |-> lock.row + 1, then |-> lock.then]
    BY <1>2 DEF SaveRow, EHTypeOK
  <2>5. lock.row + 1 \in 1 .. EventCount + 1 BY <2>1 DEF Codes
  <2>6. EHTypeOK'
    BY <1>2, <2>3, <2>4, <2>5 DEF SaveRow, EHTypeOK, subsVars, isrVars, historyVars
  <2>7. LockInv' BY <2>1, <2>4 DEF LockInv, Flushing, Codes
  <2> QED BY <2>6, <2>7
<1>3. ASSUME FlushSwitch PROVE EHTypeOK' /\ LockInv'
  <2>1. Target \in Rams BY DEF EHTypeOK, Target, Rams
  <2>2. 0 \in Rams /\ 1 \in 1 .. EventCount + 1 BY DEF Rams
  <2> QED
    BY <1>3, <2>1, <2>2
    DEF FlushSwitch, EHTypeOK, LockInv, Flushing, subsVars, isrVars
<1>4. ASSUME WriteIrqEn PROVE EHTypeOK' /\ LockInv'
  BY <1>4
  DEF WriteIrqEn, EHTypeOK, LockInv, Flushing, subsVars, isrVars, historyVars
<1>5. ASSUME OutputEnableRead PROVE EHTypeOK' /\ LockInv'
  BY <1>5
  DEF OutputEnableRead, EHTypeOK, LockInv, Flushing, cardVars, subsVars, isrVars, historyVars
<1>6. ASSUME OutputEnableWrite PROVE EHTypeOK' /\ LockInv'
  BY <1>6
  DEF OutputEnableWrite, PutBack, EHTypeOK, LockInv, Flushing, Rams, subsVars, isrVars
<1> QED BY <1>1, <1>2, <1>3, <1>4, <1>5, <1>6

-----------------------------------------------------------------------------
(* The other parties.                                                      *)

LEMMA TypesOfDirect ==
  ASSUME EHTypeOK, LockInv, NEW c \in Callers, DirectRead(c) \/ DirectWrite(c)
  PROVE  EHTypeOK' /\ LockInv'
<1>1. CASE DirectRead(c)
  BY <1>1
  DEF DirectRead, EHTypeOK, LockInv, Flushing, cardVars, subsVars, isrVars, historyVars
<1>2. CASE DirectWrite(c)
  <2>1. direct[c] \in Rams BY <1>2 DEF DirectWrite, EHTypeOK, Nothing
  <2> QED
    BY <1>2, <2>1
    DEF DirectWrite, PutBack, EHTypeOK, LockInv, Flushing, Nothing, subsVars, isrVars
<1> QED BY <1>1, <1>2

LEMMA TypesOfCard ==
  ASSUME EHTypeOK, LockInv, (\E e \in Codes : ArriveEvent(e)) \/ ArrivePulse
  PROVE  EHTypeOK' /\ LockInv'
<1>1. ASSUME NEW e \in Codes, ArriveEvent(e) PROVE EHTypeOK' /\ LockInv'
  <2>1. CASE Len(fifo) < FifoSize
    <3>1. fifo' = Append(fifo, e) /\ UNCHANGED <<flags, unannounced>>
      BY <1>1, <2>1 DEF ArriveEvent
    <3>2. fifo' \in Seq(Codes) /\ Len(fifo') <= FifoSize
      BY <2>1, <3>1, HardwareAssumption DEF EHTypeOK
    <3> QED
      BY <1>1, <3>1, <3>2 DEF ArriveEvent, EHTypeOK, LockInv, Flushing, subsVars, historyVars
  <2>2. CASE ~(Len(fifo) < FifoSize)
    BY <1>1, <2>2
    DEF ArriveEvent, EHTypeOK, LockInv, Flushing, Statuses, subsVars, historyVars
  <2> QED BY <2>1, <2>2
<1>2. CASE ArrivePulse
  BY <1>2 DEF ArrivePulse, EHTypeOK, LockInv, Flushing, Statuses, subsVars, historyVars
<1> QED BY <1>1, <1>2

LEMMA TypesOfIsr ==
  ASSUME EHTypeOK, LockInv, IsrInv, Isr
  PROVE  EHTypeOK' /\ LockInv'
<1> DEFINE Rest == UNCHANGED <<map_ram, subsVars, lock, direct, changes, committed,
                              initialised, ram, irqen, pulse>>
           IsrType == isr \in [pc : {"idle", "clear", "event", "stat", "full", "reset",
                                     "full_clear", "notify"},
                               flags : SUBSET (Statuses \cup {"EVENT"}), ctrl : Rams,
                               left : 0 .. FifoEventLimit]
           Touched == /\ select' \in Rams /\ fifo' \in Seq(Codes)
                      /\ Len(fifo') <= FifoSize /\ flags' \subseteq Statuses
                      /\ unannounced' \subseteq Statuses /\ overwritten' \in BOOLEAN
<1> SUFFICES Rest /\ IsrType' /\ Touched
  BY DEF EHTypeOK, LockInv, Flushing, subsVars
<1>1. Rest
  BY DEF Isr, IsrStart, IsrClear, IsrEvent, IsrStat, IsrFull, IsrReset, IsrFullClear,
         IsrNotify, cardVars, restVars, subsVars
<1>2. CASE IsrStart
  <2>1. RaisedFlags \subseteq Statuses \cup {"EVENT"} BY DEF RaisedFlags, EHTypeOK
  <2>2. FifoEventLimit \in 0 .. FifoEventLimit BY HardwareAssumption
  <2> QED BY <1>1, <1>2, <2>1, <2>2 DEF IsrStart, EHTypeOK, cardVars
<1>3. CASE IsrClear BY <1>1, <1>3 DEF IsrClear, EHTypeOK
<1>4. CASE IsrEvent
  <2>1. isr.left > 0 /\ fifo # <<>> BY <1>4 DEF IsrEvent, IsrInv
  <2>2. fifo' \in Seq(Codes) /\ Len(fifo') <= FifoSize
    BY <1>4, <2>1, HardwareAssumption DEF IsrEvent, EHTypeOK
  <2>3. isr.left - 1 \in 0 .. FifoEventLimit BY <2>1, HardwareAssumption DEF EHTypeOK
  <2>4. IsrType' BY <1>4, <2>3 DEF IsrEvent, EHTypeOK
  <2> QED BY <1>1, <1>4, <2>2, <2>4 DEF IsrEvent, EHTypeOK
<1>5. CASE IsrStat BY <1>1, <1>5 DEF IsrStat, EHTypeOK, cardVars
<1>6. CASE IsrFull BY <1>1, <1>6 DEF IsrFull, EHTypeOK, cardVars
<1>7. CASE IsrReset
  <2>1. <<>> \in Seq(Codes) /\ Len(<<>>) <= FifoSize BY HardwareAssumption
  <2> QED BY <1>1, <1>7, <2>1 DEF IsrReset, PutBack, EHTypeOK, Statuses
<1>8. CASE IsrFullClear BY <1>1, <1>8 DEF IsrFullClear, EHTypeOK
<1>9. CASE IsrNotify
  <2>1. 0 \in Rams /\ 0 \in 0 .. FifoEventLimit BY HardwareAssumption DEF Rams
  <2> QED BY <1>1, <1>9, <2>1 DEF IsrNotify, EHTypeOK, cardVars
<1> QED
  BY <1>1, <1>2, <1>3, <1>4, <1>5, <1>6, <1>7, <1>8, <1>9 DEF Isr

-----------------------------------------------------------------------------
(* The handler and the flags.                                              *)

HandlerInv == IsrInv /\ StatusAnnounced

LEMMA HandlerFrame ==
  ASSUME HandlerInv, UNCHANGED <<isr, fifo, flags, unannounced>>
  PROVE  HandlerInv'
  BY DEF HandlerInv, IsrInv, StatusAnnounced

LEMMA HandlerStep ==
  ASSUME EHTypeOK, HandlerInv, [EHNext]_ehVars
  PROVE  HandlerInv'
<1>1. CASE \/ \E wanted \in Subscriptions : SubscribeChange(wanted)
           \/ \E p \in Pulsegens : \/ \E m \in Mappings : MapRamSet(p, m)
                                   \/ PulseSet(p) \/ InitRes(p)
           \/ InitIoctl \/ FlushRead \/ SaveRow \/ FlushSwitch
           \/ WriteIrqEn \/ OutputEnableRead \/ OutputEnableWrite
           \/ \E c \in Callers : DirectRead(c) \/ DirectWrite(c)
           \/ UNCHANGED ehVars
  BY <1>1, HandlerFrame
  DEF SubscribeChange, MapRamSet, PulseSet, InitRes, InitIoctl, FlushRead, SaveRow,
      FlushSwitch, WriteIrqEn, OutputEnableRead, OutputEnableWrite, DirectRead, DirectWrite,
      ehVars, cardVars, isrVars
<1>2. ASSUME NEW e \in Codes, ArriveEvent(e) PROVE HandlerInv'
  <2>1. isr' = isr /\ (fifo # <<>> => fifo' # <<>>)
    BY <1>2 DEF ArriveEvent, EHTypeOK
  <2>2. StatusAnnounced' BY <1>2 DEF ArriveEvent, HandlerInv, StatusAnnounced
  <2> QED BY <2>1, <2>2 DEF HandlerInv, IsrInv
<1>3. CASE ArrivePulse BY <1>3 DEF ArrivePulse, HandlerInv, IsrInv, StatusAnnounced
<1>4. CASE IsrStart
  <2>1. isr' = [isr EXCEPT !.pc = "clear", !.flags = RaisedFlags, !.left = FifoEventLimit]
        /\ UNCHANGED <<fifo, flags, unannounced>> /\ isr.pc = "idle"
    BY <1>4 DEF IsrStart, cardVars
  <2>2. isr'.pc = "clear" /\ isr'.flags = RaisedFlags /\ isr'.left = FifoEventLimit
    BY <2>1 DEF EHTypeOK
  <2>3. "EVENT" \in RaisedFlags => fifo # <<>> BY DEF RaisedFlags, EHTypeOK, Statuses
  <2>4. unannounced \subseteq flags BY <2>1 DEF HandlerInv, IsrInv, StatusAnnounced
  <2> QED BY <2>1, <2>2, <2>3, <2>4 DEF HandlerInv, IsrInv, StatusAnnounced
<1>5. CASE IsrClear
  <2>1. /\ isr'.flags = isr.flags /\ isr'.left = isr.left
        /\ isr'.pc = IF "EVENT" \in isr.flags THEN "event" ELSE "full"
    BY <1>5 DEF IsrClear, EHTypeOK
  <2>2. IsrInv' BY <1>5, <2>1, HardwareAssumption DEF IsrClear, HandlerInv, IsrInv
  <2>3. StatusAnnounced' BY <1>5, <2>1 DEF IsrClear, HandlerInv, StatusAnnounced
  <2> QED BY <2>2, <2>3 DEF HandlerInv
<1>6. CASE IsrEvent
  <2>1. isr'.flags = isr.flags /\ isr'.pc = "stat" BY <1>6 DEF IsrEvent, EHTypeOK
  <2> QED BY <1>6, <2>1 DEF IsrEvent, HandlerInv, IsrInv, StatusAnnounced
<1>7. CASE IsrStat
  <2>1. /\ isr'.flags = isr.flags /\ isr'.left = isr.left
        /\ isr'.pc = IF fifo # <<>> /\ isr.left > 0 THEN "event" ELSE "full"
    BY <1>7 DEF IsrStat, EHTypeOK
  <2> QED BY <1>7, <2>1 DEF IsrStat, cardVars, HandlerInv, IsrInv, StatusAnnounced
<1>8. CASE IsrFull
  <2>1. /\ isr'.flags = isr.flags
        /\ isr'.pc = IF "FULL" \in isr.flags THEN "reset" ELSE "notify"
    BY <1>8 DEF IsrFull, EHTypeOK
  <2> QED BY <1>8, <2>1 DEF IsrFull, cardVars, HandlerInv, IsrInv, StatusAnnounced
<1>9. CASE IsrReset
  <2>1. isr'.flags = isr.flags /\ isr'.pc = "full_clear" BY <1>9 DEF IsrReset, EHTypeOK
  <2>2. "FULL" \in isr.flags BY <1>9 DEF IsrReset, HandlerInv, IsrInv
  <2> QED BY <1>9, <2>1, <2>2 DEF IsrReset, HandlerInv, IsrInv, StatusAnnounced
<1>10. CASE IsrFullClear
  <2>1. isr'.flags = isr.flags /\ isr'.pc = "notify" BY <1>10 DEF IsrFullClear, EHTypeOK
  <2>2. "FULL" \in isr.flags BY <1>10 DEF IsrFullClear, HandlerInv, IsrInv
  <2> QED BY <1>10, <2>1, <2>2 DEF IsrFullClear, HandlerInv, IsrInv, StatusAnnounced
<1>11. CASE IsrNotify
  BY <1>11 DEF IsrNotify, cardVars, HandlerInv, IsrInv, StatusAnnounced
<1> QED
  BY <1>1, <1>2, <1>3, <1>4, <1>5, <1>6, <1>7, <1>8, <1>9, <1>10, <1>11 DEF EHNext, Isr

EHInv == EHTypeOK /\ LockInv /\ HandlerInv

LEMMA InvInit == ASSUME EHInit PROVE EHInv
<1>1. StatusAnnounced BY DEF EHInit, StatusAnnounced
<1> QED BY <1>1, InitTypes DEF EHInv, HandlerInv

LEMMA InvStep == ASSUME EHInv, [EHNext]_ehVars PROVE EHInv'
<1> USE DEF EHInv, HandlerInv
<1>1. CASE UNCHANGED ehVars
  BY <1>1
  DEF EHTypeOK, LockInv, Flushing, IsrInv, StatusAnnounced, ehVars, cardVars, subsVars,
      isrVars, historyVars
<1>2. CASE EHNext
  BY <1>2, HandlerStep, TypesOfCalls, TypesOfFlush, TypesOfDirect, TypesOfCard, TypesOfIsr
  DEF EHNext
<1> QED BY <1>1, <1>2

LEMMA EHInvariant == EHSpec => []EHInv
<1>1. EHInit => EHInv BY InvInit
<1>2. EHInv /\ [EHNext]_ehVars => EHInv' BY InvStep
<1> QED BY <1>1, <1>2, PTL DEF EHSpec

-----------------------------------------------------------------------------
(* The flush and the map.                                                  *)

\* Unless an old CTRL was put back since the last switch, the flush still writes
\* the RAM that is not in use; and up to its row it has written it.
FlushInv ==
  /\ ~overwritten => ram[select] = committed
  /\ ~Flushing => committed = map_ram
  /\ lock.pc \in {"save", "switch"} =>
       /\ ~overwritten => lock.ctrl = select
       /\ \A e \in Codes : e < lock.row => ram[Target][e] = map_ram[e]

LEMMA FlushInit == ASSUME EHInit PROVE FlushInv
  BY DEF EHInit, FlushInv, Rams, Flushing

LEMMA FlushFrame ==
  ASSUME FlushInv, UNCHANGED <<overwritten, ram, select, committed, map_ram, lock>>
  PROVE  FlushInv'
  BY DEF FlushInv, Flushing, Target

\* A call that begins may change the map: nothing was written yet.
LEMMA FlushBegins ==
  ASSUME EHTypeOK, FlushInv, NEW then \in {"idle", "irqen", "outen"}, Begin(then),
         UNCHANGED <<overwritten, ram, select, committed>>
  PROVE  FlushInv'
<1>1. lock'.pc = "read" BY BeginTypes
<1> QED BY <1>1 DEF FlushInv, Flushing

LEMMA FlushPutBack ==
  ASSUME FlushInv, NEW ctrl \in Rams, PutBack(ctrl), UNCHANGED <<ram, committed, map_ram, lock>>
  PROVE  FlushInv'
<1>1. ~overwritten' => ~overwritten /\ select' = select BY DEF PutBack
<1> QED BY <1>1 DEF FlushInv, Flushing, Target

LEMMA FlushStep ==
  ASSUME EHInv, FlushInv, [EHNext]_ehVars
  PROVE  FlushInv'
<1> USE DEF EHInv
<1>1. ASSUME \/ \E wanted \in Subscriptions : SubscribeChange(wanted)
             \/ \E p \in Pulsegens : \/ \E m \in Mappings : MapRamSet(p, m)
                                     \/ InitRes(p)
             \/ InitIoctl
      PROVE  FlushInv'
  <2>1. PICK then \in {"idle", "irqen", "outen"} : Begin(then)
    BY <1>1 DEF SubscribeChange, MapRamSet, InitRes, InitIoctl
  <2>2. UNCHANGED <<overwritten, ram, select, committed>>
    BY <1>1 DEF SubscribeChange, MapRamSet, InitRes, InitIoctl, cardVars, historyVars
  <2> QED BY <2>1, <2>2, FlushBegins
<1>2. CASE \/ \E p \in Pulsegens : PulseSet(p)
           \/ \E c \in Callers : DirectRead(c)
           \/ \E e \in Codes : ArriveEvent(e)
           \/ ArrivePulse \/ IsrStart \/ IsrClear \/ IsrEvent \/ IsrStat \/ IsrFull
           \/ IsrFullClear \/ IsrNotify \/ UNCHANGED ehVars
  BY <1>2, FlushFrame
  DEF PulseSet, DirectRead, ArriveEvent, ArrivePulse, IsrStart, IsrClear, IsrEvent, IsrStat,
      IsrFull, IsrFullClear, IsrNotify, ehVars, cardVars, restVars, historyVars
<1>3. CASE FlushRead
  <2>1. lock'.ctrl = select /\ lock'.row = 1 /\ lock'.pc = "save"
    BY <1>3 DEF FlushRead, EHTypeOK
  <2>2. UNCHANGED <<overwritten, ram, select, committed, map_ram>>
    BY <1>3 DEF FlushRead, cardVars, historyVars
  <2> QED BY <2>1, <2>2 DEF FlushInv, Flushing, Codes
<1>4. CASE SaveRow
  <2>1. lock.row \in Codes /\ lock.pc = "save" BY <1>4 DEF SaveRow, LockInv
  <2>2. lock.ctrl \in Rams /\ Target \in Rams /\ Target # lock.ctrl /\ select \in Rams
    BY DEF EHTypeOK, Rams, Target
  <2>3. /\ lock'.ctrl = lock.ctrl /\ lock'.row = lock.row + 1
        /\ lock'.pc \in {"save", "switch"}
    BY <1>4, <2>1 DEF SaveRow, EHTypeOK
  <2>4. Target' = Target BY <2>3 DEF Target
  <2>5. ram' = [ram EXCEPT ![Target][lock.row] = map_ram[lock.row]]
        /\ UNCHANGED <<overwritten, select, committed, map_ram>>
    BY <1>4 DEF SaveRow, historyVars
  <2>6. ~overwritten => ram'[select] = ram[select] /\ lock.ctrl = select
    BY <2>1, <2>2, <2>5 DEF FlushInv, EHTypeOK
  <2>7. ASSUME NEW e \in Codes, e < lock'.row PROVE ram'[Target][e] = map_ram[e]
    <3>1. CASE e = lock.row BY <2>1, <2>2, <2>5, <3>1 DEF EHTypeOK
    <3>2. CASE e # lock.row
      <4>1. e < lock.row BY <2>1, <2>3, <2>7, <3>2 DEF Codes
      <4>2. ram'[Target][e] = ram[Target][e] BY <2>1, <2>2, <2>5, <3>2 DEF EHTypeOK
      <4> QED BY <2>1, <4>1, <4>2 DEF FlushInv
    <3> QED BY <3>1, <3>2
  <2> QED BY <2>3, <2>4, <2>5, <2>6, <2>7 DEF FlushInv, Flushing
<1>5. CASE FlushSwitch
  <2>1. lock.pc = "switch" /\ lock.row = EventCount + 1
    BY <1>5 DEF FlushSwitch, LockInv
  <2>2. \A e \in Codes : ram[Target][e] = map_ram[e]
    BY <2>1, HardwareAssumption DEF FlushInv, Codes
  <2>3. Target \in Rams BY DEF EHTypeOK, Rams, Target
  <2>4. ram[Target] = map_ram BY <2>2, <2>3 DEF EHTypeOK
  <2>5. lock'.pc = lock.then /\ lock.then \in {"idle", "irqen", "outen"}
    BY <1>5 DEF FlushSwitch, EHTypeOK
  <2> QED BY <1>5, <2>4, <2>5 DEF FlushSwitch, FlushInv, Flushing
<1>6. CASE WriteIrqEn
  <2>1. lock'.pc = "idle" /\ ~Flushing BY <1>6 DEF WriteIrqEn, EHTypeOK, Flushing
  <2> QED BY <1>6, <2>1 DEF WriteIrqEn, FlushInv, Flushing, historyVars
<1>7. CASE OutputEnableRead
  <2>1. lock'.pc = "outen_write" /\ ~Flushing
    BY <1>7 DEF OutputEnableRead, EHTypeOK, Flushing
  <2> QED BY <1>7, <2>1 DEF OutputEnableRead, FlushInv, Flushing, cardVars, historyVars
<1>8. CASE OutputEnableWrite
  <2>1. lock'.pc = "idle" /\ ~Flushing
    BY <1>8 DEF OutputEnableWrite, EHTypeOK, Flushing
  <2>2. ~overwritten' => ~overwritten /\ select' = select
    BY <1>8 DEF OutputEnableWrite, PutBack
  <2> QED BY <1>8, <2>1, <2>2 DEF OutputEnableWrite, FlushInv, Flushing
<1>9. ASSUME NEW c \in Callers, DirectWrite(c) PROVE FlushInv'
  <2>1. direct[c] \in Rams BY <1>9 DEF DirectWrite, EHTypeOK, Nothing
  <2> QED BY <1>9, <2>1, FlushPutBack DEF DirectWrite
<1>10. CASE IsrReset
  <2>1. isr.ctrl \in Rams BY DEF EHTypeOK
  <2> QED BY <1>10, <2>1, FlushPutBack DEF IsrReset, restVars
<1> QED
  BY <1>1, <1>2, <1>3, <1>4, <1>5, <1>6, <1>7, <1>8, <1>9, <1>10 DEF EHNext, Isr

LEMMA FlushInvariant == EHSpec => [](EHInv /\ FlushInv)
<1>1. EHInit => EHInv /\ FlushInv BY InvInit, FlushInit
<1>2. EHInv /\ FlushInv /\ [EHNext]_ehVars => EHInv' /\ FlushInv' BY InvStep, FlushStep
<1> QED BY <1>1, <1>2, PTL DEF EHSpec

-----------------------------------------------------------------------------
(* What the driver's map says.                                             *)

\* The map saves what is subscribed, and the interrupt enables follow, but for
\* the call that is changing them.
WantedIrqs == (IF subs # {} THEN {"EVENT"} ELSE {}) \cup status_subs

ProducesInv ==
  /\ \A e \in Codes : map_ram[e].save <=> e \in subs
  /\ lock.pc # "irqen" /\ lock.then # "irqen" => irqen = WantedIrqs

LEMMA ProducesInit == ASSUME EHInit PROVE ProducesInv
  BY DEF EHInit, ProducesInv, WantedIrqs, Blank

LEMMA ProducesFrame ==
  ASSUME ProducesInv, UNCHANGED <<map_ram, subs, status_subs, irqen, lock>>
  PROVE  ProducesInv'
  BY DEF ProducesInv, WantedIrqs

\* A call that leaves the save bits and the subscriptions as they are.
LEMMA ProducesBegins ==
  ASSUME EHInv, ProducesInv, NEW then \in {"idle", "outen"}, Begin(then),
         UNCHANGED <<subs, status_subs, irqen>>,
         \A e \in Codes : map_ram'[e].save = map_ram[e].save
  PROVE  ProducesInv'
<1>1. lock'.pc = "read" /\ lock'.then = then BY BeginTypes DEF EHInv
<1>2. lock.pc = "idle" /\ lock.then = "idle" BY DEF Begin, EHInv, LockInv, Flushing
<1> QED BY <1>1, <1>2 DEF ProducesInv, WantedIrqs

LEMMA ProducesStep ==
  ASSUME ~InitWhileSubscribed, EHInv, ProducesInv, [EHNext]_ehVars
  PROVE  ProducesInv'
<1> USE DEF EHInv
<1>1. ASSUME NEW wanted \in Subscriptions, SubscribeChange(wanted) PROVE ProducesInv'
  <2>1. lock'.pc = "read" /\ lock'.then = "irqen"
    BY <1>1, BeginTypes DEF SubscribeChange
  <2>2. ASSUME NEW e \in Codes PROVE map_ram'[e].save = (e \in wanted.codes)
    <3>1. map_ram[e] \in Row BY DEF EHTypeOK
    <3> QED BY <1>1, <3>1 DEF SubscribeChange, Row
  <2>3. subs' = wanted.codes BY <1>1 DEF SubscribeChange
  <2> QED BY <2>1, <2>2, <2>3 DEF ProducesInv
<1>2. ASSUME NEW p \in Pulsegens, NEW m \in Mappings, MapRamSet(p, m) PROVE ProducesInv'
  <2>1. ASSUME NEW e \in Codes PROVE map_ram'[e].save = map_ram[e].save
    <3>1. map_ram[e] \in Row BY DEF EHTypeOK
    <3>2. CASE e \in m.rows BY <1>2, <3>1, <3>2 DEF MapRamSet, Row
    <3>3. CASE e \notin m.rows BY <1>2, <3>3 DEF MapRamSet
    <3> QED BY <3>2, <3>3
  <2> QED BY <1>2, <2>1, ProducesBegins DEF MapRamSet, cardVars, subsVars
<1>3. ASSUME NEW p \in Pulsegens, InitRes(p) PROVE ProducesInv'
  <2>1. ASSUME NEW e \in Codes PROVE map_ram'[e].save = map_ram[e].save
    <3>1. map_ram[e] \in Row BY DEF EHTypeOK
    <3> QED BY <1>3, <3>1 DEF InitRes, Row
  <2> QED BY <1>3, <2>1, ProducesBegins DEF InitRes, subsVars
<1>4. CASE InitIoctl
  <2>1. subs = {} BY <1>4 DEF InitIoctl
  <2>2. \A e \in Codes : map_ram'[e].save = FALSE BY <1>4 DEF InitIoctl, Blank
  <2>3. lock'.pc = "read" /\ lock'.then = "outen" BY <1>4, BeginTypes DEF InitIoctl
  <2>4. lock.pc = "idle" /\ lock.then = "idle"
    BY <1>4 DEF InitIoctl, Begin, LockInv, Flushing
  <2> QED BY <1>4, <2>1, <2>2, <2>3, <2>4 DEF InitIoctl, ProducesInv, WantedIrqs, subsVars
<1>5. CASE \/ \E p \in Pulsegens : PulseSet(p)
           \/ \E c \in Callers : DirectRead(c) \/ DirectWrite(c)
           \/ \E e \in Codes : ArriveEvent(e)
           \/ ArrivePulse \/ Isr \/ UNCHANGED ehVars
  BY <1>5, ProducesFrame
  DEF PulseSet, DirectRead, DirectWrite, ArriveEvent, ArrivePulse, Isr, IsrStart, IsrClear,
      IsrEvent, IsrStat, IsrFull, IsrReset, IsrFullClear, IsrNotify, ehVars, cardVars,
      subsVars, restVars
<1>6. CASE FlushRead \/ SaveRow
  <2>1. lock'.then = lock.then /\ lock.pc # "irqen"
    BY <1>6 DEF FlushRead, SaveRow, EHTypeOK
  <2>2. UNCHANGED <<map_ram, subs, status_subs, irqen>>
    BY <1>6 DEF FlushRead, SaveRow, cardVars, subsVars
  <2> QED BY <2>1, <2>2 DEF ProducesInv, WantedIrqs
<1>7. CASE FlushSwitch
  <2>1. lock'.pc = lock.then /\ lock.pc = "switch" BY <1>7 DEF FlushSwitch
  <2> QED BY <1>7, <2>1 DEF FlushSwitch, ProducesInv, WantedIrqs, subsVars
<1>8. CASE WriteIrqEn
  BY <1>8 DEF WriteIrqEn, ProducesInv, WantedIrqs, subsVars
<1>9. CASE OutputEnableRead \/ OutputEnableWrite
  <2>1. lock'.then = lock.then /\ lock.pc # "irqen"
    BY <1>9 DEF OutputEnableRead, OutputEnableWrite, EHTypeOK
  <2>2. UNCHANGED <<map_ram, subs, status_subs, irqen>>
    BY <1>9 DEF OutputEnableRead, OutputEnableWrite, cardVars, subsVars
  <2> QED BY <2>1, <2>2 DEF ProducesInv, WantedIrqs
<1> QED
  BY <1>1, <1>2, <1>3, <1>4, <1>5, <1>6, <1>7, <1>8, <1>9 DEF EHNext

\* A pulse generator that nobody used since it was initialised is in no row.
QuietInv ==
  \A p \in initialised : p \notin pulse /\ \A e \in Codes : p \notin map_ram[e].pulses

LEMMA QuietInit == ASSUME EHInit PROVE QuietInv
  BY DEF EHInit, QuietInv, Blank

LEMMA QuietStep ==
  ASSUME EHInv, QuietInv, [EHNext]_ehVars
  PROVE  QuietInv'
<1> USE DEF EHInv
<1>1. ASSUME NEW wanted \in Subscriptions, SubscribeChange(wanted) PROVE QuietInv'
  <2>1. ASSUME NEW e \in Codes PROVE map_ram'[e].pulses = map_ram[e].pulses
    <3>1. map_ram[e] \in Row BY DEF EHTypeOK
    <3> QED BY <1>1, <3>1 DEF SubscribeChange, Row
  <2> QED BY <1>1, <2>1 DEF SubscribeChange, QuietInv, cardVars, historyVars
<1>2. ASSUME NEW q \in Pulsegens, NEW m \in Mappings, MapRamSet(q, m) PROVE QuietInv'
  <2>1. ASSUME NEW e \in Codes PROVE map_ram'[e].pulses \subseteq map_ram[e].pulses \cup {q}
    <3>1. map_ram[e] \in Row BY DEF EHTypeOK
    <3>2. CASE e \in m.rows BY <1>2, <3>1, <3>2 DEF MapRamSet, Row
    <3>3. CASE e \notin m.rows BY <1>2, <3>3 DEF MapRamSet
    <3> QED BY <3>2, <3>3
  <2> QED BY <1>2, <2>1 DEF MapRamSet, QuietInv, cardVars
<1>3. ASSUME NEW q \in Pulsegens, InitRes(q) PROVE QuietInv'
  <2>1. ASSUME NEW e \in Codes PROVE map_ram'[e].pulses = map_ram[e].pulses \ {q}
    <3>1. map_ram[e] \in Row BY DEF EHTypeOK
    <3> QED BY <1>3, <3>1 DEF InitRes, Row
  <2> QED BY <1>3, <2>1 DEF InitRes, QuietInv
<1>4. CASE InitIoctl BY <1>4 DEF InitIoctl, QuietInv, Blank
<1>5. ASSUME NEW q \in Pulsegens, PulseSet(q) PROVE QuietInv'
  BY <1>5 DEF PulseSet, QuietInv
<1>6. CASE \/ FlushRead \/ SaveRow \/ FlushSwitch
           \/ WriteIrqEn \/ OutputEnableRead \/ OutputEnableWrite
           \/ \E c \in Callers : DirectRead(c) \/ DirectWrite(c)
           \/ \E e \in Codes : ArriveEvent(e)
           \/ ArrivePulse \/ Isr \/ UNCHANGED ehVars
  <2>1. UNCHANGED <<initialised, pulse, map_ram>>
    BY <1>6
    DEF FlushRead, SaveRow, FlushSwitch, WriteIrqEn, OutputEnableRead, OutputEnableWrite,
        DirectRead, DirectWrite, ArriveEvent, ArrivePulse, Isr, IsrStart, IsrClear,
        IsrEvent, IsrStat, IsrFull, IsrReset, IsrFullClear, IsrNotify, ehVars, cardVars,
        restVars, historyVars
  <2> QED BY <2>1 DEF QuietInv
<1> QED
  BY <1>1, <1>2, <1>3, <1>4, <1>5, <1>6 DEF EHNext

-----------------------------------------------------------------------------
(* The theorems.                                                           *)

\* Neither the write that clears the flags (evr-irq-events.c:70) nor the reset of
\* the FIFO (line 177) loses a status or a loss that nobody was told of.
THEOREM EHStatusAnnounced == EHSpec => []StatusAnnounced
<1>1. EHInv => StatusAnnounced BY DEF EHInv, HandlerInv
<1> QED BY <1>1, EHInvariant, PTL

\* Every register, row and pending flag holds what the drivers write there or the
\* card sets (evr.c, evr-irq-events.c), whatever the callers and the interrupt do.
THEOREM EHTypeCorrect == EHSpec => []EHTypeOK
<1>1. EHInv => EHTypeOK BY DEF EHInv
<1> QED BY <1>1, EHInvariant, PTL

\* The EVR runs the map last flushed, whole, until an old CTRL is written back
\* (evr_ram_map_change_flush), for any number of rows.
THEOREM EHMapRamInEffect == EHSpec => []MapRamInEffect
<1>1. EHInv /\ FlushInv => MapRamInEffect BY DEF FlushInv, Flushing, MapRamInEffect
<1> QED BY <1>1, FlushInvariant, PTL

\* Between calls the hardware produces what is subscribed, if INIT is not called
\* while anything is (hw_support_evr_on_subscribe_change).
THEOREM EHHardwareProduces ==
  ASSUME ~InitWhileSubscribed PROVE EHSpec => []HardwareProduces
<1>1. EHInit => ProducesInv BY ProducesInit
<1>2. EHInv /\ ProducesInv /\ [EHNext]_ehVars => ProducesInv' BY ProducesStep
<1>3. EHInv /\ FlushInv /\ ProducesInv => HardwareProduces
  <2> SUFFICES ASSUME EHInv, FlushInv, ProducesInv, lock.pc = "idle", ~overwritten
      PROVE  /\ \A e \in Codes : ram[select][e].save <=> e \in subs
             /\ irqen \cap Statuses = status_subs
             /\ "EVENT" \in irqen <=> subs # {}
    BY DEF HardwareProduces
  <2>1. ram[select] = map_ram BY DEF FlushInv, Flushing
  <2>2. lock.then = "idle" BY DEF EHInv, LockInv, Flushing
  <2>3. irqen = WantedIrqs BY <2>2 DEF ProducesInv
  <2>4. status_subs \subseteq Statuses BY DEF EHInv, EHTypeOK
  <2> QED BY <2>1, <2>3, <2>4 DEF ProducesInv, WantedIrqs, Statuses
<1> QED BY <1>1, <1>2, <1>3, FlushInvariant, PTL DEF EHSpec

\* A pulse generator that was initialised is in no row of the map in use until it
\* is used again (hw_support_evr_init_res).
THEOREM EHInitialisedIsQuiet == EHSpec => []InitialisedIsQuiet
<1>1. EHInit => QuietInv BY QuietInit
<1>2. EHInv /\ QuietInv /\ [EHNext]_ehVars => QuietInv' BY QuietStep
<1>3. EHInv /\ FlushInv /\ QuietInv => InitialisedIsQuiet
  BY DEF FlushInv, Flushing, QuietInv, InitialisedIsQuiet
<1> QED BY <1>1, <1>2, <1>3, FlushInvariant, PTL DEF EHSpec
=============================================================================
