---------------------------- MODULE EvrHardware ----------------------------
(***************************************************************************)
(* The EVR behind the driver (evr.c, evr-irq-events.c): its control         *)
(* register, the two mapping RAMs of which one is in use, the event FIFO    *)
(* and the interrupt flags, as three parties access them:                   *)
(*   - ioctls, subscription changes and closes, one at a time under the     *)
(*     devref lock;                                                         *)
(*   - direct ioctls, which take no lock;                                   *)
(*   - the interrupt handler, on another CPU.                               *)
(*                                                                         *)
(* An access to a register is a step, but for the writes of the pulse        *)
(* generators, which only the holder of the lock touches.  What the card     *)
(* does by itself is what the driver relies on: the flag EVENT is up while   *)
(* the FIFO is not empty, and a write of FULL or PULSE clears that flag.     *)
(* PULSE stands for the three flags that are only notified (PULSE, HEARTBEAT *)
(* and VIOLATION).  DataBuffer has the data buffer; the outputs are left out. *)
(***************************************************************************)
EXTENDS Integers, Sequences, FiniteSets

CONSTANTS
  EventCount,     \* EVR_MAPRAM_EVENT_CODES
  Pulsegens,      \* pulse generators
  FifoSize,       \* places of the event FIFO in the card
  FifoEventLimit, \* EVR_FIFO_EVENT_LIMIT
  Callers,        \* threads that use direct ioctls
  Subscriptions,  \* what on_subscribe_change is called with
  Mappings,       \* what PULSE_MAP_RAM_SET (all rows) and .._FOR_EVENT (one) say
  LeftBehind,     \* bound: what the RAM that is not in use may hold at first
  MaxChanges,     \* bound: calls under the devref lock
  InitWhileSubscribed  \* may INIT be called while events are subscribed?

Codes == 1 .. EventCount
Statuses == {"FULL", "PULSE"}

ASSUME HardwareAssumption ==
  /\ EventCount \in Nat \ {0} /\ FifoSize \in Nat \ {0} /\ FifoEventLimit \in Nat \ {0}
  /\ MaxChanges \in Nat
  /\ InitWhileSubscribed \in BOOLEAN
  /\ Subscriptions \subseteq [codes : SUBSET Codes, statuses : SUBSET Statuses]
  /\ \A m \in Mappings : /\ m.mapped \subseteq m.rows
                        /\ m.rows \in {Codes} \cup {{e} : e \in Codes}
  /\ LeftBehind \subseteq [Codes -> [save : BOOLEAN, pulses : SUBSET Pulsegens]]

Rams == {0, 1}
Row == [save : BOOLEAN, pulses : SUBSET Pulsegens]
Blank == [e \in Codes |-> [save |-> FALSE, pulses |-> {}]]

VARIABLES
  select,     \* CTRL: the RAM in use
  ram,        \* the mapping RAMs
  irqen,      \* IRQEN; the master bit is up if anything is subscribed
  fifo, flags,\* the event FIFO, and the flags besides EVENT
  pulse,      \* pulse generators that are programmed
  map_ram,    \* hw_data->map_ram
  subs, status_subs,  \* the subscriptions last asked for: to events, to statuses
  irq_on,     \* the interrupt is requested
  lock,       \* the holder of the devref lock: where it is, what it knows
  direct,     \* per caller: the CTRL it has read, or Nothing
  isr,        \* the handler: where it is, what it knows
  changes,    \* for the bound
  \* history
  committed,  \* the map last switched to
  overwritten,\* somebody wrote an old CTRL back since
  unannounced,\* statuses, and losses of events, not notified yet
  initialised \* pulse generators nobody used since they were initialised

Nothing == -1

cardVars == <<select, ram, irqen, fifo, flags, pulse>>
subsVars == <<subs, status_subs, irq_on>>
isrVars == <<isr, unannounced>>
historyVars == <<committed, overwritten, initialised>>
ehVars == <<cardVars, map_ram, subsVars, lock, direct, isrVars, changes, historyVars>>

EHTypeOK ==
  /\ select \in Rams /\ ram \in [Rams -> [Codes -> Row]]
  /\ irqen \subseteq Statuses \cup {"EVENT"} /\ irq_on \in BOOLEAN
  /\ fifo \in Seq(Codes) /\ Len(fifo) <= FifoSize /\ flags \subseteq Statuses
  /\ pulse \subseteq Pulsegens /\ map_ram \in [Codes -> Row]
  /\ subs \subseteq Codes /\ status_subs \subseteq Statuses
  /\ lock \in [pc : {"idle", "read", "save", "switch", "irqen", "outen", "outen_write"},
               ctrl : Rams, row : 1 .. EventCount + 1, then : {"idle", "irqen", "outen"}]
  /\ direct \in [Callers -> Rams \cup {Nothing}]
  /\ isr \in [pc : {"idle", "clear", "event", "stat", "full", "reset", "full_clear", "notify"},
              flags : SUBSET (Statuses \cup {"EVENT"}), ctrl : Rams,
              left : 0 .. FifoEventLimit]
  /\ changes \in 0 .. MaxChanges
  /\ committed \in [Codes -> Row] /\ overwritten \in BOOLEAN
  /\ unannounced \subseteq Statuses /\ initialised \subseteq Pulsegens

\* After hw_support_evr_init, which flushes a blank map and does no more to the card
\* (evr.c:569): the other RAM and the pulse generators are as it was left.  Interrupts
\* are off, as after a reset and after the last unsubscription.
EHInit ==
  /\ \E r \in Rams, left \in LeftBehind :
       /\ select = r
       /\ ram = [other \in Rams |-> IF other = r THEN Blank ELSE left]
  /\ pulse \in SUBSET Pulsegens
  /\ irqen = {} /\ fifo = <<>> /\ flags = {}
  /\ map_ram = Blank /\ subs = {} /\ status_subs = {} /\ irq_on = FALSE
  /\ lock = [pc |-> "idle", ctrl |-> 0, row |-> 1, then |-> "idle"]
  /\ direct = [c \in Callers |-> Nothing]
  /\ isr = [pc |-> "idle", flags |-> {}, ctrl |-> 0, left |-> 0]
  /\ changes = 0
  /\ committed = Blank /\ overwritten = FALSE /\ unannounced = {}
  /\ initialised = {}

-----------------------------------------------------------------------------
(* The calls under the devref lock.  Each that changes the map ends in a    *)
(* flush; then: where it goes on after that.                               *)

Begin(then) ==
  /\ lock.pc = "idle" /\ changes < MaxChanges
  /\ lock' = [lock EXCEPT !.pc = "read", !.then = then]
  /\ changes' = changes + 1

\* Variant with a fault: events that are no longer wanted go on being saved.
SubscribeChangeAdds(wanted) ==
  /\ Begin("irqen")
  /\ subs' = wanted.codes /\ status_subs' = wanted.statuses
  /\ irq_on' = (wanted.codes # {} \/ wanted.statuses # {})
  /\ irq_on /\ ~irq_on' => isr.pc = "idle"
  /\ map_ram' = [e \in Codes |-> [map_ram[e] EXCEPT !.save = @ \/ e \in wanted.codes]]
  /\ UNCHANGED <<cardVars, direct, isrVars, historyVars>>

\* on_subscribe_change up to the flush.  irq_set(0) waits for the handler.
SubscribeChange(wanted) ==
  /\ Begin("irqen")
  /\ subs' = wanted.codes /\ status_subs' = wanted.statuses
  /\ irq_on' = (wanted.codes # {} \/ wanted.statuses # {})
  /\ irq_on /\ ~irq_on' => isr.pc = "idle"
  /\ map_ram' = [e \in Codes |-> [map_ram[e] EXCEPT !.save = e \in wanted.codes]]
  /\ UNCHANGED <<cardVars, direct, isrVars, historyVars>>

\* on_subscribe_change from the flush on.
WriteIrqEn ==
  /\ lock.pc = "irqen"
  /\ irqen' = (IF subs # {} THEN {"EVENT"} ELSE {}) \cup status_subs
  /\ lock' = [lock EXCEPT !.pc = "idle"]
  /\ UNCHANGED <<select, ram, fifo, flags, pulse, map_ram, subsVars, direct, isrVars,
                 changes, historyVars>>

\* PULSE_MAP_RAM_SET, of all the rows, and .._SET_FOR_EVENT, of one.
MapRamSet(p, m) ==
  /\ Begin("idle")
  /\ map_ram' = [e \in Codes |->
       IF e \in m.rows THEN [map_ram[e] EXCEPT !.pulses = IF e \in m.mapped THEN @ \cup {p}
                                                        ELSE @ \ {p}]
       ELSE map_ram[e]]
  /\ initialised' = initialised \ {p}
  /\ UNCHANGED <<cardVars, subsVars, direct, isrVars, committed, overwritten>>

\* PULSE_PARAM_SET and PULSE_PROP_SET.
PulseSet(p) ==
  /\ lock.pc = "idle" /\ changes < MaxChanges
  /\ pulse' = pulse \cup {p}
  /\ initialised' = initialised \ {p}
  /\ changes' = changes + 1
  /\ UNCHANGED <<select, ram, irqen, fifo, flags, map_ram, subsVars, lock, direct, isrVars,
                 committed, overwritten>>

\* Variant with a fault: the loop over the rows ends too early.
InitResFirstRow(p) ==
  /\ Begin("idle")
  /\ pulse' = pulse \ {p}
  /\ map_ram' = [map_ram EXCEPT ![1].pulses = @ \ {p}]
  /\ initialised' = initialised \cup {p}
  /\ UNCHANGED <<select, ram, irqen, fifo, flags, subsVars, direct, isrVars, committed,
                 overwritten>>

\* init_res of a pulse generator, at the last close.
InitRes(p) ==
  /\ Begin("idle")
  /\ pulse' = pulse \ {p}
  /\ map_ram' = [e \in Codes |-> [map_ram[e] EXCEPT !.pulses = @ \ {p}]]
  /\ initialised' = initialised \cup {p}
  /\ UNCHANGED <<select, ram, irqen, fifo, flags, subsVars, direct, isrVars, committed,
                 overwritten>>

\* INIT, up to evr_output_enable.
InitIoctl ==
  /\ Begin("outen")
  /\ InitWhileSubscribed \/ subs = {}
  /\ pulse' = {} /\ map_ram' = Blank /\ initialised' = Pulsegens
  /\ UNCHANGED <<select, ram, irqen, fifo, flags, subsVars, direct, isrVars, committed,
                 overwritten>>

\* Variant with a fault: it writes the one in use.
TargetInUse == lock.ctrl

\* The flush writes the map into the RAM that is not in use, and switches.
Target == 1 - lock.ctrl

FlushRead ==
  /\ lock.pc = "read"
  /\ lock' = [lock EXCEPT !.pc = "save", !.ctrl = select, !.row = 1]
  /\ UNCHANGED <<cardVars, map_ram, subsVars, direct, isrVars, changes, historyVars>>

\* save_map_ram, a row at a time.
SaveRow ==
  /\ lock.pc = "save"
  /\ ram' = [ram EXCEPT ![Target][lock.row] = map_ram[lock.row]]
  /\ lock' = [lock EXCEPT !.row = @ + 1,
                          !.pc = IF lock.row = EventCount THEN "switch" ELSE "save"]
  /\ UNCHANGED <<select, irqen, fifo, flags, pulse, map_ram, subsVars, direct, isrVars,
                 changes, historyVars>>

FlushSwitch ==
  /\ lock.pc = "switch"
  /\ select' = Target
  /\ lock' = [pc |-> lock.then, ctrl |-> 0, row |-> 1, then |-> "idle"]
  /\ committed' = map_ram /\ overwritten' = FALSE
  /\ UNCHANGED <<ram, irqen, fifo, flags, pulse, map_ram, subsVars, direct, isrVars,
                 changes, initialised>>

-----------------------------------------------------------------------------
(* Those who set another bit of CTRL: a direct ioctl, LATCHED_TIMESTAMP_GET, *)
(* the end of INIT, and the interrupt handler.                              *)

\* They write the rest of the register back as they have read it.
PutBack(ctrl) ==
  /\ select' = ctrl
  /\ overwritten' = (overwritten \/ ctrl # select)

DirectRead(c) ==
  /\ direct[c] = Nothing
  /\ direct' = [direct EXCEPT ![c] = select]
  /\ UNCHANGED <<cardVars, map_ram, subsVars, lock, isrVars, changes, historyVars>>

DirectWrite(c) ==
  /\ direct[c] # Nothing
  /\ PutBack(direct[c])
  /\ direct' = [direct EXCEPT ![c] = Nothing]
  /\ UNCHANGED <<ram, irqen, fifo, flags, pulse, map_ram, subsVars, lock, isrVars,
                 changes, committed, initialised>>

\* evr_output_enable, the end of INIT.
OutputEnableRead ==
  /\ lock.pc = "outen"
  /\ lock' = [lock EXCEPT !.pc = "outen_write", !.ctrl = select]
  /\ UNCHANGED <<cardVars, map_ram, subsVars, direct, isrVars, changes, historyVars>>

OutputEnableWrite ==
  /\ lock.pc = "outen_write"
  /\ PutBack(lock.ctrl)
  /\ lock' = [lock EXCEPT !.pc = "idle", !.ctrl = 0]
  /\ UNCHANGED <<ram, irqen, fifo, flags, pulse, map_ram, subsVars, direct, isrVars,
                 changes, committed, initialised>>

-----------------------------------------------------------------------------
(* What happens in the card.                                               *)

RaisedFlags == flags \cup (IF fifo # <<>> THEN {"EVENT"} ELSE {})

\* An event arrives that the map in use says to save.
ArriveEvent(e) ==
  /\ ram[select][e].save
  /\ IF Len(fifo) < FifoSize
     THEN fifo' = Append(fifo, e) /\ UNCHANGED <<flags, unannounced>>
     ELSE /\ flags' = flags \cup {"FULL"}
          /\ unannounced' = unannounced \cup {"FULL"}
          /\ UNCHANGED fifo
  /\ UNCHANGED <<select, ram, irqen, pulse, map_ram, subsVars, lock, direct, isr, changes,
                 historyVars>>

ArrivePulse ==
  /\ flags' = flags \cup {"PULSE"}
  /\ unannounced' = unannounced \cup {"PULSE"}
  /\ UNCHANGED <<select, ram, irqen, fifo, pulse, map_ram, subsVars, lock, direct, isr,
                 changes, historyVars>>

-----------------------------------------------------------------------------
(* hw_support_evr_isr.                                                     *)

restVars == <<map_ram, subsVars, lock, direct, changes, committed, initialised>>

IsrStart ==
  /\ isr.pc = "idle"
  /\ irq_on /\ RaisedFlags \cap irqen # {}
  /\ isr' = [isr EXCEPT !.pc = "clear", !.flags = RaisedFlags, !.left = FifoEventLimit]
  /\ UNCHANGED <<cardVars, restVars, unannounced, overwritten>>

\* Variant with a fault: all flags are cleared, not those that were read.
IsrClearAll ==
  /\ isr.pc = "clear"
  /\ flags' = {}
  /\ isr' = [isr EXCEPT !.pc = IF "EVENT" \in isr.flags THEN "event" ELSE "full"]
  /\ UNCHANGED <<select, ram, irqen, fifo, pulse, restVars, unannounced, overwritten>>

\* Clear everything that was read but FULL and EVENT.
IsrClear ==
  /\ isr.pc = "clear"
  /\ flags' = flags \ (isr.flags \ {"FULL"})
  /\ isr' = [isr EXCEPT !.pc = IF "EVENT" \in isr.flags THEN "event" ELSE "full"]
  /\ UNCHANGED <<select, ram, irqen, fifo, pulse, restVars, unannounced, overwritten>>

\* Read an event from the FIFO and put it in the queues of its subscribers.
IsrEvent ==
  /\ isr.pc = "event"
  /\ fifo' = Tail(fifo)
  /\ isr' = [isr EXCEPT !.pc = "stat", !.left = @ - 1]
  /\ UNCHANGED <<select, ram, irqen, flags, pulse, restVars, unannounced, overwritten>>

\* Variant with a fault: there is no limit.
IsrStatUnlimited ==
  /\ isr.pc = "stat"
  /\ isr' = [isr EXCEPT !.pc = IF fifo # <<>> THEN "event" ELSE "full"]
  /\ UNCHANGED <<cardVars, restVars, unannounced, overwritten>>

\* Go on while there are more, up to the limit.  The write of EVENT after the loop
\* (evr-irq-events.c:169) changes nothing: that flag follows the FIFO.
IsrStat ==
  /\ isr.pc = "stat"
  /\ isr' = [isr EXCEPT !.pc = IF fifo # <<>> /\ isr.left > 0 THEN "event" ELSE "full"]
  /\ UNCHANGED <<cardVars, restVars, unannounced, overwritten>>

\* FULL: read CTRL ...
IsrFull ==
  /\ isr.pc = "full"
  /\ isr' = IF "FULL" \in isr.flags THEN [isr EXCEPT !.pc = "reset", !.ctrl = select]
            ELSE [isr EXCEPT !.pc = "notify"]
  /\ UNCHANGED <<cardVars, restVars, unannounced, overwritten>>

\* ... and write it back with the bit that empties the FIFO ...
IsrReset ==
  /\ isr.pc = "reset"
  /\ PutBack(isr.ctrl)
  /\ fifo' = <<>>
  /\ unannounced' = IF fifo # <<>> THEN unannounced \cup {"FULL"} ELSE unannounced
  /\ isr' = [isr EXCEPT !.pc = "full_clear"]
  /\ UNCHANGED <<ram, irqen, flags, pulse, restVars>>

\* ... and clear the flag.
IsrFullClear ==
  /\ isr.pc = "full_clear"
  /\ flags' = flags \ {"FULL"}
  /\ isr' = [isr EXCEPT !.pc = "notify"]
  /\ UNCHANGED <<select, ram, irqen, fifo, pulse, restVars, unannounced, overwritten>>

\* Notify ERROR_LOST and the statuses.
IsrNotify ==
  /\ isr.pc = "notify"
  /\ unannounced' = unannounced \ isr.flags
  /\ isr' = [pc |-> "idle", flags |-> {}, ctrl |-> 0, left |-> 0]
  /\ UNCHANGED <<cardVars, restVars, overwritten>>

Isr ==
  \/ IsrStart \/ IsrClear \/ IsrEvent \/ IsrStat
  \/ IsrFull \/ IsrReset \/ IsrFullClear \/ IsrNotify

EHNext ==
  \/ \E wanted \in Subscriptions : SubscribeChange(wanted)
  \/ \E p \in Pulsegens :
       \/ \E m \in Mappings : MapRamSet(p, m)
       \/ PulseSet(p) \/ InitRes(p)
  \/ InitIoctl
  \/ FlushRead \/ SaveRow \/ FlushSwitch
  \/ WriteIrqEn \/ OutputEnableRead \/ OutputEnableWrite
  \/ \E c \in Callers : DirectRead(c) \/ DirectWrite(c)
  \/ \E e \in Codes : ArriveEvent(e)
  \/ ArrivePulse
  \/ Isr

EHSpec == EHInit /\ [][EHNext]_ehVars

-----------------------------------------------------------------------------
(* Properties.                                                             *)

\* "the changes must be written to HW" (evr.c:1204, 1256): the EVR runs the map
\* last flushed, whole, and between calls that is the driver's map, however the
\* accesses interleave, unless an old CTRL was written back since.
MapRamInEffect ==
  ~overwritten => /\ ram[select] = committed
                  /\ lock.pc \notin {"read", "save", "switch"} => committed = map_ram

\* "make the EVR HW produce only the needed events" (evr-irq-events.c:231):
\* between calls the map in use saves, and the interrupt is enabled for, exactly
\* what is subscribed, whatever ioctls, closes and interrupts came in between.
HardwareProduces ==
  lock.pc = "idle" /\ ~overwritten =>
    /\ \A e \in Codes : ram[select][e].save <=> e \in subs
    /\ irqen \cap Statuses = status_subs
    /\ "EVENT" \in irqen <=> subs # {}

\* "the device doesn't do stupid things while it's closed" (mng-dev.c:1359):
\* nothing triggers a pulse generator from its initialisation until it is used
\* again, whatever its neighbours in the same rows of the map do.
InitialisedIsQuiet ==
  lock.pc = "idle" /\ ~overwritten =>
    \A p \in initialised :
      p \notin pulse /\ \A e \in Codes : p \notin ram[select][e].pulses

\* A status, or a loss of events, that was not notified yet is still flagged or
\* known to the handler that runs: none is cleared unseen.
StatusAnnounced == unannounced \subseteq flags \cup isr.flags
=============================================================================
