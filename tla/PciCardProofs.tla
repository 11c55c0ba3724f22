--------------------------- MODULE PciCardProofs ---------------------------
(***************************************************************************)
(* Proofs about PciCard, for any number of cards, slots and devices.  The   *)
(* invariants build on each other: who has which slot; which MNG_DEV is in  *)
(* it; what the interrupt and its handler may do; the references.           *)
(***************************************************************************)
EXTENDS PciCard, TLAPS

\* The types that do not depend on how references are counted.
Types ==
  /\ used \subseteq Slots
  /\ pcidev \in [Slots -> Cards \cup {None}]
  /\ activity \in [Slots -> Int]
  /\ irq_enabled \in [Slots -> BOOLEAN]
  /\ priv \in [Slots -> Devices \cup {NULL}]
  /\ mutex \in Slots \cup {None}
  /\ pc \in [Cards -> {"out", "probe", "created", "bound", "free_irq", "wait",
                       "destroy", "release"}]
  /\ ev_device \in [Cards -> Slots \cup {None}]
  /\ irq_requested \subseteq Slots
  /\ isr \in [Slots -> {"idle", "entered", "counted", "run", "done"}]
  /\ created \in Devices \cup {NULL}
  /\ valid \subseteq 1 .. created
  /\ ref_cnt \in [Devices -> Int]
  /\ files \in [Devices -> 0 .. MaxFiles]
  /\ home \in [Devices -> Slots]

\* A card has a slot from its probe to the end of its removal, and no two cards
\* have the same one.
SlotsOwned ==
  \A c \in Cards :
    IF pc[c] = "out" THEN ev_device[c] = None
    ELSE ev_device[c] \in used /\ pcidev[ev_device[c]] = c

UsedByOne ==
  \A s \in used : /\ pcidev[s] \in Cards
                  /\ pc[pcidev[s]] # "out"
                  /\ ev_device[pcidev[s]] = s

SlotInv == Types /\ SlotsOwned /\ UsedByOne

\* A count that goes up or down by one stays an integer.
LEMMA Counts ==
  ASSUME NEW S, NEW f \in [S -> Int], NEW x
  PROVE  /\ [f EXCEPT ![x] = @ + 1] \in [S -> Int]
         /\ [f EXCEPT ![x] = @ - 1] \in [S -> Int]
<1>1. ASSUME NEW y \in S PROVE f[y] + 1 \in Int /\ f[y] - 1 \in Int OBVIOUS
<1> QED BY <1>1

LEMMA SlotInit == ASSUME PCInit PROVE SlotInv
  BY PciAssumption
  DEF PCInit, SlotInv, Types, SlotsOwned, UsedByOne, Slots, Devices, NULL

LEMMA SlotStep == ASSUME SlotInv, [PCNext]_pciVars PROVE SlotInv'
<1> USE PciAssumption DEF SlotInv, Types, SlotsOwned, UsedByOne, Goto, IsrGoto,
        Devices, NULL
<1>1. ASSUME NEW c \in Cards, Probe(c) PROVE SlotInv'
  <2> PICK s \in Slots \ used :
        /\ used' = used \cup {s}
        /\ pcidev' = [pcidev EXCEPT ![s] = c]
        /\ activity' = [activity EXCEPT ![s] = 0]
        /\ irq_enabled' = [irq_enabled EXCEPT ![s] = FALSE]
        /\ priv' = [priv EXCEPT ![s] = NULL]
        /\ ev_device' = [ev_device EXCEPT ![c] = s]
    BY <1>1 DEF Probe
  <2>1. Types' BY <1>1 DEF Probe, irqVars, deviceVars
  <2>2. SlotsOwned' /\ UsedByOne' BY <1>1 DEF Probe
  <2> QED BY <2>1, <2>2
<1>2. ASSUME NEW c \in Cards, ProbeRefused(c) PROVE SlotInv'
  BY <1>2 DEF ProbeRefused, pciVars, slotVars, irqVars, deviceVars
<1>3. ASSUME NEW c \in Cards, ProbeFails(c) PROVE SlotInv'
  BY <1>3 DEF ProbeFails, irqVars, deviceVars
<1>4. ASSUME NEW c \in Cards, ProbeCreate(c) PROVE SlotInv'
  <2>1. created' \in Devices /\ created' = created + 1
    BY <1>4 DEF ProbeCreate
  <2>2. ref_cnt' \in [Devices -> Int] /\ home' \in [Devices -> Slots]
        /\ priv' \in [Slots -> Devices \cup {NULL}]
    BY <1>4, <2>1 DEF ProbeCreate
  <2>3. valid' \subseteq 1 .. created'
    BY <1>4, <2>1 DEF ProbeCreate
  <2>4. Types' BY <1>4, <2>1, <2>2, <2>3 DEF ProbeCreate, irqVars
  <2>5. SlotsOwned' /\ UsedByOne' BY <1>4 DEF ProbeCreate
  <2> QED BY <2>4, <2>5
<1>5. ASSUME NEW c \in Cards, ProbeActivate(c) PROVE SlotInv'
  <2>1. activity' \in [Slots -> Int] BY <1>5 DEF ProbeActivate
  <2> QED BY <1>5, <2>1 DEF ProbeActivate, irqVars, deviceVars
<1>6. ASSUME NEW c \in Cards, RemoveBegin(c) PROVE SlotInv'
  <2> PICK s \in used :
        /\ pcidev[s] = c
        /\ activity' = [activity EXCEPT ![s] = @ - 2]
        /\ ev_device' = [ev_device EXCEPT ![c] = s]
    BY <1>6 DEF RemoveBegin
  <2>1. Types' BY <1>6 DEF RemoveBegin, irqVars, deviceVars
  <2>2. ev_device[c] = s /\ ev_device' = ev_device
    BY <1>6 DEF RemoveBegin
  <2>3. SlotsOwned' /\ UsedByOne' BY <1>6, <2>2 DEF RemoveBegin
  <2> QED BY <2>1, <2>3
<1>7. ASSUME NEW c \in Cards, Remove(c) PROVE SlotInv'
  <2>1. ASSUME RemoveFreeIrq(c) PROVE SlotInv'
    BY <2>1 DEF RemoveFreeIrq, slotVars, deviceVars
  <2>2. ASSUME RemoveWait(c) PROVE SlotInv'
    BY <2>2 DEF RemoveWait, slotVars, irqVars, deviceVars
  <2>3. ASSUME RemoveDestroy(c) PROVE SlotInv'
    <3>1. ref_cnt' \in [Devices -> Int] BY <2>3, Counts DEF RemoveDestroy
    <3>2. Types' BY <2>3, <3>1 DEF RemoveDestroy, slotVars, irqVars
    <3>3. SlotsOwned' /\ UsedByOne' BY <2>3 DEF RemoveDestroy, slotVars
    <3> QED BY <3>2, <3>3
  <2>4. ASSUME RemoveRelease(c) PROVE SlotInv'
    BY <2>4 DEF RemoveRelease, irqVars, deviceVars
  <2> QED BY <1>7, <2>1, <2>2, <2>3, <2>4 DEF Remove
<1>8. ASSUME NEW s \in Slots, IrqOn(s) PROVE SlotInv'
  BY <1>8 DEF IrqOn, deviceVars
<1>9. ASSUME NEW s \in Slots, IrqOff(s) \/ IrqOffDone(s) PROVE SlotInv'
  BY <1>9 DEF IrqOff, IrqOffDone, slotVars, irqVars, deviceVars
<1>10. ASSUME NEW s \in Slots, IsrEnter(s) \/ Isr(s) PROVE SlotInv'
  <2>1. /\ UNCHANGED <<used, pcidev, irq_enabled, priv, mutex, pc, ev_device,
                       irq_requested, deviceVars>>
        /\ activity' \in [Slots -> Int]
        /\ isr' \in [Slots -> {"idle", "entered", "counted", "run", "done"}]
    <3>1. CASE IsrEnter(s) BY <3>1 DEF IsrEnter, slotVars
    <3>2. CASE IsrCount(s) BY <3>2 DEF IsrCount
    <3>3. CASE IsrCheck(s) BY <3>3 DEF IsrCheck, slotVars
    <3>4. CASE IsrRun(s) BY <3>4 DEF IsrRun, slotVars
    <3>5. CASE IsrLeave(s) BY <3>5 DEF IsrLeave
    <3> QED BY <1>10, <3>1, <3>2, <3>3, <3>4, <3>5 DEF Isr
  <2> QED BY <2>1 DEF deviceVars
<1>11. ASSUME NEW d \in Devices, Open(d) \/ Close(d) PROVE SlotInv'
  <2>1. UNCHANGED <<slotVars, mutex, pc, ev_device, irqVars, created, valid, home>>
    BY <1>11 DEF Open, Close
  <2>2. files' \in [Devices -> 0 .. MaxFiles]
    <3>1. files \in [Devices -> 0 .. MaxFiles] /\ d \in Devices /\ files[d] \in 0 .. MaxFiles
      OBVIOUS
    <3>2. CASE Open(d) 
      <4>1. files' = [files EXCEPT ![d] = files[d] + 1] /\ files[d] + 1 \in 0 .. MaxFiles
        BY <3>1, <3>2 DEF Open
      <4> QED BY <3>1, <4>1
    <3>3. CASE Close(d)
      <4>1. files' = [files EXCEPT ![d] = files[d] - 1] /\ files[d] - 1 \in 0 .. MaxFiles
        BY <3>1, <3>3 DEF Close
      <4> QED BY <3>1, <4>1
    <3> QED BY <1>11, <3>2, <3>3
  <2>3. ref_cnt' \in [Devices -> Int]
    <3>1. CASE Open(d) BY <3>1, Counts DEF Open
    <3>2. CASE Close(d) BY <3>2, Counts DEF Close
    <3> QED BY <1>11, <3>1, <3>2
  <2> QED BY <2>1, <2>2, <2>3 DEF slotVars, irqVars
<1>12. ASSUME UNCHANGED pciVars PROVE SlotInv'
  BY <1>12 DEF pciVars, slotVars, irqVars, deviceVars
<1> QED
  BY <1>1, <1>2, <1>3, <1>4, <1>5, <1>6, <1>7, <1>8, <1>9, <1>10, <1>11, <1>12
  DEF PCNext

-----------------------------------------------------------------------------
(* What the card of a slot is doing; only its own steps change that.       *)

Phase(s) == IF s \in used THEN pc[pcidev[s]] ELSE "out"

LEMMA PhaseOfCard ==
  ASSUME SlotInv, NEW c \in Cards, pc[c] # "out"
  PROVE  ev_device[c] \in Slots /\ ev_device[c] \in used /\ Phase(ev_device[c]) = pc[c]
  BY DEF SlotInv, Types, SlotsOwned, Phase

\* A card that stays in its slot and goes on.
LEMMA PhaseGoto ==
  ASSUME SlotInv, NEW c \in Cards, pc[c] # "out", NEW where, Goto(c, where),
         UNCHANGED <<used, pcidev>>
  PROVE  \A t \in Slots : Phase(t)' = IF t = ev_device[c] THEN where ELSE Phase(t)
  BY DEF SlotInv, Types, SlotsOwned, UsedByOne, Phase, Goto

\* A card that leaves its slot.
LEMMA PhaseLeave ==
  ASSUME SlotInv, NEW c \in Cards, pc[c] # "out", Goto(c, "out"),
         used' = used \ {ev_device[c]}, UNCHANGED pcidev
  PROVE  \A t \in Slots : Phase(t)' = IF t = ev_device[c] THEN "out" ELSE Phase(t)
  BY DEF SlotInv, Types, SlotsOwned, UsedByOne, Phase, Goto

\* A card that comes.
LEMMA PhaseProbe ==
  ASSUME SlotInv, NEW c \in Cards, pc[c] = "out", Goto(c, "probe"),
         NEW s \in Slots \ used, used' = used \cup {s}, pcidev' = [pcidev EXCEPT ![s] = c]
  PROVE  \A t \in Slots : Phase(t)' = IF t = s THEN "probe" ELSE Phase(t)
  BY DEF SlotInv, Types, SlotsOwned, UsedByOne, Phase, Goto

LEMMA PhaseSame ==
  ASSUME UNCHANGED <<used, pcidev, pc>>
  PROVE  \A t \in Slots : Phase(t)' = Phase(t)
  BY DEF Phase

\* The card that remove finds is in the slot it was probed into.
LEMMA RemoveFinds ==
  ASSUME SlotInv, NEW c \in Cards, RemoveBegin(c)
  PROVE  /\ ev_device[c] \in Slots
         /\ UNCHANGED ev_device
         /\ activity' = [activity EXCEPT ![ev_device[c]] = @ - 2]
<1> PICK s \in used : /\ pcidev[s] = c
                      /\ activity' = [activity EXCEPT ![s] = @ - 2]
                      /\ ev_device' = [ev_device EXCEPT ![c] = s]
  BY DEF RemoveBegin
<1>1. ev_device[c] = s BY DEF SlotInv, UsedByOne
<1> QED BY <1>1 DEF SlotInv, Types

-----------------------------------------------------------------------------
(* The interrupt.                                                          *)

Handling == {"counted", "run", "done"}

ActivityOf(s) ==
  activity[s] = (IF Phase(s) = "bound" THEN 2 ELSE 0) + (IF isr[s] \in Handling THEN 1 ELSE 0)

RequestedOf(s) ==
  s \in irq_requested => Phase(s) \in {"bound", "free_irq"} /\ irq_enabled[s]

\* A handler under way is waited for by whoever turns the interrupt off.
HandlerOf(s) ==
  isr[s] # "idle" => Phase(s) \in {"bound", "free_irq", "wait"} /\ irq_enabled[s]

TurningOffOf(s) ==
  mutex = s => Phase(s) = "bound" /\ irq_enabled[s] /\ s \notin irq_requested

IrqInvOf(s) == ActivityOf(s) /\ RequestedOf(s) /\ HandlerOf(s) /\ TurningOffOf(s)

IrqInv == \A s \in Slots : IrqInvOf(s)

LEMMA IrqInit == ASSUME PCInit PROVE IrqInv
  BY PciAssumption
  DEF PCInit, IrqInv, IrqInvOf, ActivityOf, RequestedOf, HandlerOf, TurningOffOf, Phase,
      Handling, Slots

\* What IrqInvOf(s) reads.
LEMMA IrqFrame ==
  ASSUME IrqInv, NEW s \in Slots, Phase(s)' = Phase(s),
         activity'[s] = activity[s], isr'[s] = isr[s], irq_enabled'[s] = irq_enabled[s],
         s \in irq_requested' <=> s \in irq_requested,
         mutex' = s => mutex = s
  PROVE  IrqInvOf(s)'
<1>1. IrqInvOf(s) BY DEF IrqInv
<1> QED BY <1>1 DEF IrqInvOf, ActivityOf, RequestedOf, HandlerOf, TurningOffOf

LEMMA IrqStep == ASSUME SlotInv, IrqInv, [PCNext]_pciVars PROVE IrqInv'
<1> SUFFICES ASSUME NEW t \in Slots PROVE IrqInvOf(t)'
  BY DEF IrqInv
<1>0. IrqInvOf(t) /\ Types BY DEF IrqInv, SlotInv
<1> USE PciAssumption DEF IrqInvOf, ActivityOf, RequestedOf, HandlerOf, TurningOffOf, Handling
<1>1. ASSUME NEW c \in Cards, Probe(c) PROVE IrqInvOf(t)'
  <2> PICK s \in Slots \ used :
        /\ used' = used \cup {s}
        /\ pcidev' = [pcidev EXCEPT ![s] = c]
        /\ activity' = [activity EXCEPT ![s] = 0]
        /\ irq_enabled' = [irq_enabled EXCEPT ![s] = FALSE]
    BY <1>1 DEF Probe
  <2>1. Phase(t)' = IF t = s THEN "probe" ELSE Phase(t)
    BY <1>1, PhaseProbe DEF Probe
  <2>2. Phase(s) = "out" BY DEF Phase
  <2>3. UNCHANGED <<mutex, irq_requested, isr>>
    BY <1>1 DEF Probe, irqVars
  <2>4. CASE t = s
    <3>1. isr[t] = "idle" /\ t \notin irq_requested /\ mutex # t
      BY <1>0, <2>2, <2>4
    <3>2. activity'[t] = 0 BY <2>4, <1>0 DEF Types
    <3>3. Phase(t)' = "probe" /\ isr'[t] = "idle" /\ t \notin irq_requested' /\ mutex' # t
      BY <2>1, <2>3, <2>4, <3>1
    <3> QED BY <3>2, <3>3
  <2>5. CASE t # s
    BY <1>0, <2>1, <2>3, <2>5, IrqFrame DEF Types
  <2> QED BY <2>4, <2>5
<1>2. ASSUME NEW c \in Cards, ProbeFails(c) PROVE IrqInvOf(t)'
  <2>1. Phase(t)' = IF t = ev_device[c] THEN "out" ELSE Phase(t)
    BY <1>2, PhaseLeave DEF ProbeFails
  <2>2. Phase(ev_device[c]) = "probe" BY <1>2, PhaseOfCard DEF ProbeFails
  <2> QED BY <1>0, <1>2, <2>1, <2>2 DEF ProbeFails, irqVars
<1>3. ASSUME NEW c \in Cards, ProbeCreate(c) PROVE IrqInvOf(t)'
  <2>1. Phase(t)' = IF t = ev_device[c] THEN "created" ELSE Phase(t)
    BY <1>3, PhaseGoto DEF ProbeCreate
  <2>2. Phase(ev_device[c]) = "probe" BY <1>3, PhaseOfCard DEF ProbeCreate
  <2> QED BY <1>0, <1>3, <2>1, <2>2 DEF ProbeCreate, irqVars
<1>4. ASSUME NEW c \in Cards, ProbeActivate(c) PROVE IrqInvOf(t)'
  <2>1. Phase(t)' = IF t = ev_device[c] THEN "bound" ELSE Phase(t)
    BY <1>4, PhaseGoto DEF ProbeActivate
  <2>2. Phase(ev_device[c]) = "created" BY <1>4, PhaseOfCard DEF ProbeActivate
  <2> QED BY <1>0, <1>4, <2>1, <2>2 DEF ProbeActivate, irqVars, Types
<1>5. ASSUME NEW c \in Cards, RemoveBegin(c) PROVE IrqInvOf(t)'
  <2>1. Phase(t)' = IF t = ev_device[c] THEN "free_irq" ELSE Phase(t)
    BY <1>5, PhaseGoto DEF RemoveBegin
  <2>2. Phase(ev_device[c]) = "bound" BY <1>5, PhaseOfCard DEF RemoveBegin
  <2>3. activity' = [activity EXCEPT ![ev_device[c]] = @ - 2]
    BY <1>5, RemoveFinds
  <2>4. UNCHANGED <<irq_enabled, mutex, irq_requested, isr>> /\ mutex = None
    BY <1>5 DEF RemoveBegin, irqVars
  <2>5. CASE t = ev_device[c]
    BY <1>0, <2>1, <2>2, <2>3, <2>4, <2>5 DEF Types, Slots
  <2>6. CASE t # ev_device[c]
    BY <2>1, <2>3, <2>4, <2>6, IrqFrame DEF Slots
  <2> QED BY <2>5, <2>6
<1>6. ASSUME NEW c \in Cards, RemoveFreeIrq(c) PROVE IrqInvOf(t)'
  <2>1. Phase(t)' = IF t = ev_device[c] THEN "wait" ELSE Phase(t)
    BY <1>6, PhaseGoto DEF RemoveFreeIrq, slotVars
  <2>2. Phase(ev_device[c]) = "free_irq" BY <1>6, PhaseOfCard DEF RemoveFreeIrq
  <2> QED BY <1>0, <1>6, <2>1, <2>2 DEF RemoveFreeIrq, slotVars
<1>7. ASSUME NEW c \in Cards, RemoveWait(c) PROVE IrqInvOf(t)'
  <2>1. Phase(t)' = IF t = ev_device[c] THEN "destroy" ELSE Phase(t)
    BY <1>7, PhaseGoto DEF RemoveWait, slotVars
  <2>2. Phase(ev_device[c]) = "wait" BY <1>7, PhaseOfCard DEF RemoveWait
  <2> QED BY <1>0, <1>7, <2>1, <2>2 DEF RemoveWait, slotVars, irqVars
<1>8. ASSUME NEW c \in Cards, RemoveDestroy(c) PROVE IrqInvOf(t)'
  <2>1. Phase(t)' = IF t = ev_device[c] THEN "release" ELSE Phase(t)
    BY <1>8, PhaseGoto DEF RemoveDestroy, slotVars
  <2>2. Phase(ev_device[c]) = "destroy" BY <1>8, PhaseOfCard DEF RemoveDestroy
  <2> QED BY <1>0, <1>8, <2>1, <2>2 DEF RemoveDestroy, slotVars, irqVars
<1>9. ASSUME NEW c \in Cards, RemoveRelease(c) PROVE IrqInvOf(t)'
  <2>1. Phase(t)' = IF t = ev_device[c] THEN "out" ELSE Phase(t)
    BY <1>9, PhaseLeave DEF RemoveRelease
  <2>2. Phase(ev_device[c]) = "release" BY <1>9, PhaseOfCard DEF RemoveRelease
  <2> QED BY <1>0, <1>9, <2>1, <2>2 DEF RemoveRelease, irqVars
<1>10. ASSUME NEW s \in Slots, IrqOn(s) PROVE IrqInvOf(t)'
  <2>1. Phase(t)' = Phase(t) BY <1>10, PhaseSame DEF IrqOn
  <2>2. Phase(s) = "bound"
    BY <1>10 DEF IrqOn, IrqInv
  <2> QED BY <1>0, <1>10, <2>1, <2>2 DEF IrqOn, Types
<1>11. ASSUME NEW s \in Slots, IrqOff(s) PROVE IrqInvOf(t)'
  <2>1. Phase(t)' = Phase(t) BY <1>11, PhaseSame DEF IrqOff, slotVars
  <2>2. Phase(s) = "bound"
    BY <1>11 DEF IrqOff, IrqInv
  <2> QED BY <1>0, <1>11, <2>1, <2>2 DEF IrqOff, slotVars
<1>12. ASSUME NEW s \in Slots, IrqOffDone(s) PROVE IrqInvOf(t)'
  <2>1. Phase(t)' = Phase(t) BY <1>12, PhaseSame DEF IrqOffDone
  <2>2. mutex' # t BY <1>12 DEF IrqOffDone, Slots
  <2> QED BY <1>0, <1>12, <2>1, <2>2 DEF IrqOffDone, irqVars, Types
<1>13. ASSUME NEW s \in Slots, IsrEnter(s) \/ Isr(s) PROVE IrqInvOf(t)'
  <2> USE <1>0 DEF IsrGoto, slotVars, Types
  <2>1. CASE IsrEnter(s) BY <2>1, PhaseSame DEF IsrEnter
  <2>2. CASE IsrCount(s) BY <2>2, PhaseSame DEF IsrCount
  <2>3. CASE IsrCheck(s) BY <2>3, PhaseSame DEF IsrCheck
  <2>4. CASE IsrRun(s) BY <2>4, PhaseSame DEF IsrRun
  <2>5. CASE IsrLeave(s) BY <2>5, PhaseSame DEF IsrLeave
  <2> QED BY <1>13, <2>1, <2>2, <2>3, <2>4, <2>5 DEF Isr
<1>14. ASSUME NEW d \in Devices, Open(d) \/ Close(d) PROVE IrqInvOf(t)'
  BY <1>14, IrqFrame, PhaseSame DEF Open, Close, slotVars, irqVars
<1>15. ASSUME UNCHANGED pciVars PROVE IrqInvOf(t)'
  BY <1>15, IrqFrame, PhaseSame DEF pciVars, slotVars, irqVars
<1> QED
  BY <1>1, <1>2, <1>3, <1>4, <1>5, <1>6, <1>7, <1>8, <1>9, <1>10, <1>11, <1>12, <1>13,
     <1>14, <1>15
  DEF PCNext, Remove, ProbeRefused

-----------------------------------------------------------------------------
(* The MNG_DEV in a slot.                                                  *)

Living == {"created", "bound", "free_irq", "wait", "destroy"}

\* A slot points to a valid MNG_DEV exactly from its creation to its destruction,
\* and every MNG_DEV is pointed to by one slot at most.
DeviceOf(s) ==
  /\ priv[s] <= created
  /\ Phase(s) \in Living => priv[s] \in valid
  /\ priv[s] \in valid => home[priv[s]] = s /\ Phase(s) \in Living
  /\ Phase(s) = "probe" => priv[s] = NULL

DeviceInv == \A s \in Slots : DeviceOf(s)

LEMMA DeviceInit == ASSUME PCInit PROVE DeviceInv
  BY DEF PCInit, DeviceInv, DeviceOf, Phase, Living, NULL

\* What DeviceOf(s) reads.
LEMMA DeviceFrame ==
  ASSUME DeviceInv, NEW s \in Slots, priv'[s] = priv[s],
         UNCHANGED <<created, valid, home>>,
         \/ Phase(s)' = Phase(s)
         \/ Phase(s)' \in Living /\ Phase(s) \in Living
         \/ Phase(s)' \notin Living \cup {"probe"} /\ Phase(s) \notin Living
  PROVE  DeviceOf(s)'
<1>1. DeviceOf(s) BY DEF DeviceInv
<1> QED BY <1>1 DEF DeviceOf, Living, NULL

LEMMA DeviceStep == ASSUME SlotInv, DeviceInv, [PCNext]_pciVars PROVE DeviceInv'
<1> SUFFICES ASSUME NEW t \in Slots PROVE DeviceOf(t)'
  BY DEF DeviceInv
<1>0. DeviceOf(t) /\ Types BY DEF DeviceInv, SlotInv
<1> USE DEF Living
<1>1. ASSUME NEW c \in Cards, Probe(c) PROVE DeviceOf(t)'
  <2> PICK s \in Slots \ used :
        /\ used' = used \cup {s}
        /\ pcidev' = [pcidev EXCEPT ![s] = c]
        /\ priv' = [priv EXCEPT ![s] = NULL]
    BY <1>1 DEF Probe
  <2>1. Phase(t)' = IF t = s THEN "probe" ELSE Phase(t)
    BY <1>1, PhaseProbe DEF Probe
  <2>2. UNCHANGED <<created, valid, home>> BY <1>1 DEF Probe, deviceVars
  <2>3. CASE t = s
    BY <1>0, <2>1, <2>2, <2>3 DEF DeviceOf, Types, NULL, Devices
  <2>4. CASE t # s
    BY <2>1, <2>2, <2>4, DeviceFrame
  <2> QED BY <2>3, <2>4
<1>2. ASSUME NEW c \in Cards, ProbeFails(c) PROVE DeviceOf(t)'
  <2>1. Phase(t)' = IF t = ev_device[c] THEN "out" ELSE Phase(t)
    BY <1>2, PhaseLeave DEF ProbeFails
  <2>2. Phase(ev_device[c]) = "probe" BY <1>2, PhaseOfCard DEF ProbeFails
  <2> QED BY <1>2, <2>1, <2>2, DeviceFrame DEF ProbeFails, deviceVars
<1>3. ASSUME NEW c \in Cards, ProbeCreate(c) PROVE DeviceOf(t)'
  <2>1. Phase(t)' = IF t = ev_device[c] THEN "created" ELSE Phase(t)
    BY <1>3, PhaseGoto DEF ProbeCreate
  <2>2. Phase(ev_device[c]) = "probe" BY <1>3, PhaseOfCard DEF ProbeCreate
  <2>3. /\ created' = created + 1 /\ created' \in Devices
        /\ valid' = valid \cup {created'}
        /\ home' = [home EXCEPT ![created'] = ev_device[c]]
        /\ priv' = [priv EXCEPT ![ev_device[c]] = created']
    BY <1>0, <1>3, PciAssumption DEF ProbeCreate, Types, Devices, NULL
  <2>4. CASE t = ev_device[c]
    BY <1>0, <2>1, <2>3, <2>4 DEF DeviceOf, Types, Devices, NULL
  <2>5. CASE t # ev_device[c]
    <3>1. priv'[t] = priv[t] /\ priv[t] <= created /\ priv[t] # created'
      BY <1>0, <2>3, <2>5 DEF DeviceOf, Types, Devices, NULL
    <3>2. Phase(t)' = Phase(t) BY <2>1, <2>5
    <3>3. priv[t] \in valid => priv[t] \in Devices /\ home'[priv[t]] = home[priv[t]]
      BY <1>0, <2>3, <3>1 DEF Types, Devices, NULL
    <3> QED BY <1>0, <2>3, <3>1, <3>2, <3>3 DEF DeviceOf, Types, Devices, NULL
  <2> QED BY <2>4, <2>5
<1>4. ASSUME NEW c \in Cards, ProbeActivate(c) PROVE DeviceOf(t)'
  <2>1. Phase(t)' = IF t = ev_device[c] THEN "bound" ELSE Phase(t)
    BY <1>4, PhaseGoto DEF ProbeActivate
  <2>2. Phase(ev_device[c]) = "created" BY <1>4, PhaseOfCard DEF ProbeActivate
  <2> QED BY <1>4, <2>1, <2>2, DeviceFrame DEF ProbeActivate, deviceVars
<1>5. ASSUME NEW c \in Cards, RemoveBegin(c) PROVE DeviceOf(t)'
  <2>1. Phase(t)' = IF t = ev_device[c] THEN "free_irq" ELSE Phase(t)
    BY <1>5, PhaseGoto DEF RemoveBegin
  <2>2. Phase(ev_device[c]) = "bound" BY <1>5, PhaseOfCard DEF RemoveBegin
  <2> QED BY <1>5, <2>1, <2>2, DeviceFrame DEF RemoveBegin, deviceVars
<1>6. ASSUME NEW c \in Cards, RemoveFreeIrq(c) PROVE DeviceOf(t)'
  <2>1. Phase(t)' = IF t = ev_device[c] THEN "wait" ELSE Phase(t)
    BY <1>6, PhaseGoto DEF RemoveFreeIrq, slotVars
  <2>2. Phase(ev_device[c]) = "free_irq" BY <1>6, PhaseOfCard DEF RemoveFreeIrq
  <2> QED BY <1>6, <2>1, <2>2, DeviceFrame DEF RemoveFreeIrq, slotVars, deviceVars
<1>7. ASSUME NEW c \in Cards, RemoveWait(c) PROVE DeviceOf(t)'
  <2>1. Phase(t)' = IF t = ev_device[c] THEN "destroy" ELSE Phase(t)
    BY <1>7, PhaseGoto DEF RemoveWait, slotVars
  <2>2. Phase(ev_device[c]) = "wait" BY <1>7, PhaseOfCard DEF RemoveWait
  <2> QED BY <1>7, <2>1, <2>2, DeviceFrame DEF RemoveWait, slotVars, deviceVars
<1>8. ASSUME NEW c \in Cards, RemoveDestroy(c) PROVE DeviceOf(t)'
  <2>1. Phase(t)' = IF t = ev_device[c] THEN "release" ELSE Phase(t)
    BY <1>8, PhaseGoto DEF RemoveDestroy, slotVars
  <2>2. Phase(ev_device[c]) = "destroy" /\ ev_device[c] \in Slots
    BY <1>8, PhaseOfCard DEF RemoveDestroy
  <2>3. valid' = valid \ {priv[ev_device[c]]} /\ UNCHANGED <<priv, created, home>>
    BY <1>8 DEF RemoveDestroy, slotVars
  <2>4. CASE t = ev_device[c]
    BY <1>0, <2>1, <2>3, <2>4 DEF DeviceOf
  <2>5. CASE t # ev_device[c]
    <3>1. priv[t] \in valid => priv[t] # priv[ev_device[c]]
      BY <2>2, <2>5 DEF DeviceInv, DeviceOf
    <3> QED BY <1>0, <2>1, <2>3, <2>5, <3>1 DEF DeviceOf
  <2> QED BY <2>4, <2>5
<1>9. ASSUME NEW c \in Cards, RemoveRelease(c) PROVE DeviceOf(t)'
  <2>1. Phase(t)' = IF t = ev_device[c] THEN "out" ELSE Phase(t)
    BY <1>9, PhaseLeave DEF RemoveRelease
  <2>2. Phase(ev_device[c]) = "release" BY <1>9, PhaseOfCard DEF RemoveRelease
  <2> QED BY <1>9, <2>1, <2>2, DeviceFrame DEF RemoveRelease, deviceVars
<1>10. ASSUME NEW s \in Slots, IrqOn(s) \/ IrqOff(s) \/ IrqOffDone(s) \/ IsrEnter(s) \/ Isr(s)
       PROVE DeviceOf(t)'
  <2>1. UNCHANGED <<used, pcidev, pc, priv, deviceVars>>
    BY <1>10 DEF IrqOn, IrqOff, IrqOffDone, IsrEnter, Isr, IsrCount, IsrCheck, IsrRun,
                 IsrLeave, slotVars
  <2> QED BY <2>1, PhaseSame, DeviceFrame DEF deviceVars
<1>11. ASSUME NEW d \in Devices, Open(d) \/ Close(d) PROVE DeviceOf(t)'
  BY <1>11, DeviceFrame, PhaseSame DEF Open, Close, slotVars
<1>12. ASSUME UNCHANGED pciVars PROVE DeviceOf(t)'
  BY <1>12, DeviceFrame, PhaseSame DEF pciVars, slotVars, deviceVars
<1> QED
  BY <1>1, <1>2, <1>3, <1>4, <1>5, <1>6, <1>7, <1>8, <1>9, <1>10, <1>11, <1>12
  DEF PCNext, Remove, ProbeRefused

-----------------------------------------------------------------------------
(* References.                                                             *)

\* A MNG_DEV that is bound is in its slot, and none has fewer references than files.
RefInv ==
  /\ \A d \in Devices : d > created => files[d] = 0 /\ ref_cnt[d] = 0
  /\ \A d \in Devices : files[d] <= ref_cnt[d] /\ (d \in valid => priv[home[d]] = d)
  /\ RefsMatchFiles

LEMMA RefInit == ASSUME PCInit PROVE RefInv
  BY PciAssumption DEF PCInit, RefInv, RefsMatchFiles, Devices, NULL

\* A step that leaves files and references alone, and wipes no slot of a bound one.
LEMMA RefFrame ==
  ASSUME Types, RefInv, UNCHANGED deviceVars,
         \A d \in Devices :
           priv'[home[d]] # priv[home[d]] => d \notin valid /\ priv'[home[d]] = NULL
  PROVE  RefInv'
<1>1. 1 .. created \subseteq Devices BY PciAssumption DEF Types, Devices, NULL
<1>2. UNCHANGED <<created, valid, ref_cnt, files, home>> BY DEF deviceVars
<1>3. RefsMatchFiles' BY <1>1, <1>2 DEF RefInv, RefsMatchFiles
<1>4. \A d \in Devices : files'[d] <= ref_cnt'[d] /\ (d \in valid' => priv'[home'[d]] = d)
  BY <1>2 DEF RefInv
<1> QED BY <1>2, <1>3, <1>4 DEF RefInv

LEMMA RefStep == ASSUME SlotInv, DeviceInv, RefInv, [PCNext]_pciVars PROVE RefInv'
<1>0. Types BY DEF SlotInv
<1>n. 1 .. created \subseteq Devices BY <1>0, PciAssumption DEF Types, Devices, NULL
<1>1. ASSUME NEW c \in Cards, Probe(c) PROVE RefInv'
  <2> PICK s \in Slots \ used : priv' = [priv EXCEPT ![s] = NULL]
    BY <1>1 DEF Probe
  <2>1. ASSUME NEW d \in Devices, home[d] = s
        PROVE  d \notin valid /\ priv'[home[d]] = NULL
    <3>1. d \in valid => priv[s] \in valid BY <1>n, <2>1 DEF RefInv
    <3>2. Phase(s) \notin Living BY DEF Phase, Living
    <3> QED BY <1>0, <2>1, <3>1, <3>2 DEF DeviceInv, DeviceOf, Types
  <2>2. ASSUME NEW d \in Devices, home[d] # s PROVE priv'[home[d]] = priv[home[d]]
    BY <1>0, <2>2 DEF Types
  <2>3. UNCHANGED deviceVars BY <1>1 DEF Probe
  <2> QED BY <1>0, <2>1, <2>2, <2>3, RefFrame
<1>2. ASSUME NEW c \in Cards, ProbeCreate(c) PROVE RefInv'
  <2> DEFINE s == ev_device[c]
             new == created + 1
  <2>1. /\ s \in Slots /\ priv[s] = NULL
    BY <1>2, PhaseOfCard DEF ProbeCreate, DeviceInv, DeviceOf
  <2>2. /\ new \in Devices /\ new \notin valid /\ created' = new
        /\ valid' = valid \cup {new}
        /\ ref_cnt' = [ref_cnt EXCEPT ![new] = 1]
        /\ home' = [home EXCEPT ![new] = s]
        /\ priv' = [priv EXCEPT ![s] = new]
        /\ files' = files
    BY <1>0, <1>2, PciAssumption DEF ProbeCreate, Types, Devices, NULL
  <2>3. /\ files[new] = 0 /\ priv'[home'[new]] = new /\ ref_cnt'[new] = 1
        /\ new \in valid'
    BY <1>0, <2>1, <2>2 DEF Types, RefInv, Devices, NULL
  <2>4. ASSUME NEW d \in Devices, d > created' PROVE files[d] = 0 /\ ref_cnt'[d] = 0
    BY <1>0, <2>2, <2>4 DEF RefInv, Types, Devices, NULL
  <2>5. ASSUME NEW d \in Devices, d <= created'
        PROVE  /\ files'[d] <= ref_cnt'[d]
               /\ d \in valid' => priv'[home'[d]] = d
               /\ \/ /\ priv'[home'[d]] = d
                     /\ ref_cnt'[d] = files'[d] + (IF d \in valid' THEN 1 ELSE 0)
                  \/ /\ d \notin valid'
                     /\ ref_cnt'[d] > 0 => priv'[home'[d]] = NULL
    <3>1. CASE d = new BY <2>2, <2>3, <3>1
    <3>2. CASE d # new
      <4>1. d \in 1 .. created /\ d \in Devices /\ d # NULL
        BY <1>0, <2>2, <2>5, <3>2 DEF Types, Devices, NULL
      <4>2. /\ ref_cnt'[d] = ref_cnt[d] /\ home'[d] = home[d] /\ files'[d] = files[d]
            /\ d \in valid' <=> d \in valid
        BY <1>0, <2>2, <3>2, <4>1 DEF Types
      <4>3. files[d] \in Nat /\ ref_cnt[d] \in Int /\ files[d] <= ref_cnt[d]
        BY <1>0, <4>1, PciAssumption DEF RefInv, Types
      <4>4. CASE home[d] = s
        <5>1. ref_cnt[d] = 0 BY <1>2, <4>1, <4>3, <4>4 DEF ProbeCreate, NameInUse
        <5>2. d \notin valid BY <2>1, <4>1, <4>4 DEF RefInv
        <5> QED BY <4>2, <4>3, <5>1, <5>2
      <4>5. CASE home[d] # s
        <5>1. priv'[home'[d]] = priv[home[d]] BY <1>0, <2>2, <4>1, <4>2, <4>5 DEF Types
        <5> QED BY <4>1, <4>2, <4>3, <5>1 DEF RefInv, RefsMatchFiles
      <4> QED BY <4>4, <4>5
    <3> QED BY <3>1, <3>2
  <2>6. ASSUME NEW d \in Devices, d > created' PROVE d \notin valid'
    BY <1>0, <2>2, <2>6 DEF Types, Devices, NULL
  <2>7. created \in Nat BY <1>0 DEF Types, Devices, NULL
  <2>8. ASSUME NEW d \in Devices
        PROVE files'[d] <= ref_cnt'[d] /\ (d \in valid' => priv'[home'[d]] = d)
    BY <2>2, <2>4, <2>5, <2>6, <2>7, <2>8 DEF Devices
  <2>9. \A d \in 1 .. created' : d \in Devices /\ d <= created'
    BY <2>2, <2>7, PciAssumption DEF Devices
  <2>10. RefsMatchFiles' BY <2>5, <2>9 DEF RefsMatchFiles
  <2> QED BY <2>2, <2>4, <2>8, <2>10 DEF RefInv
<1>3. ASSUME NEW c \in Cards,
             \/ ProbeRefused(c) \/ ProbeFails(c) \/ ProbeActivate(c) \/ RemoveBegin(c)
             \/ RemoveFreeIrq(c) \/ RemoveWait(c) \/ RemoveRelease(c)
      PROVE RefInv'
  <2>1. UNCHANGED priv /\ UNCHANGED deviceVars
    BY <1>3 DEF ProbeRefused, ProbeFails, ProbeActivate, RemoveBegin, RemoveFreeIrq,
                RemoveWait, RemoveRelease, pciVars, slotVars
  <2> QED BY <1>0, <2>1, RefFrame
<1>4. ASSUME NEW c \in Cards, RemoveDestroy(c) PROVE RefInv'
  <2> DEFINE d0 == priv[ev_device[c]]
  <2>1. d0 \in valid /\ d0 \in 1 .. created
    <3>1. ev_device[c] \in Slots /\ Phase(ev_device[c]) \in Living
      BY <1>4, PhaseOfCard DEF RemoveDestroy, Living
    <3> QED BY <1>0, <3>1 DEF DeviceInv, DeviceOf, Types, Devices, NULL
  <2>2. /\ valid' = valid \ {d0}
        /\ ref_cnt' = [ref_cnt EXCEPT ![d0] = @ - 1]
        /\ UNCHANGED <<priv, created, files, home>>
    BY <1>4 DEF RemoveDestroy, slotVars
  <2>3. priv[home[d0]] = d0 /\ ref_cnt[d0] = files[d0] + 1 /\ files[d0] \in Nat
    <3>1. priv[home[d0]] = d0 BY <1>n, <2>1 DEF RefInv
    <3>2. files[d0] \in Nat BY <1>0, <1>n, <2>1, PciAssumption DEF Types
    <3> QED BY <2>1, <3>1, <3>2 DEF RefInv, RefsMatchFiles
  <2>4. ref_cnt'[d0] = files[d0] BY <1>0, <1>n, <2>1, <2>2, <2>3 DEF Types
  <2>5. ASSUME NEW d \in Devices, d # d0
        PROVE  ref_cnt'[d] = ref_cnt[d] /\ (d \in valid' <=> d \in valid)
    BY <1>0, <2>2, <2>5 DEF Types
  <2>6. \A d \in Devices : d > created => files[d] = 0 /\ ref_cnt'[d] = 0
    BY <1>0, <2>1, <2>5 DEF RefInv, Types, Devices, NULL
  <2>7. ASSUME NEW d \in Devices
        PROVE  files[d] <= ref_cnt'[d] /\ (d \in valid' => priv[home[d]] = d)
    <3>1. CASE d = d0 BY <2>2, <2>3, <2>4, <3>1
    <3>2. CASE d # d0 BY <2>5, <3>2 DEF RefInv
    <3> QED BY <3>1, <3>2
  <2>8. ASSUME NEW d \in 1 .. created
        PROVE  \/ /\ priv[home[d]] = d
                  /\ ref_cnt'[d] = files[d] + (IF d \in valid' THEN 1 ELSE 0)
               \/ /\ d \notin valid'
                  /\ ref_cnt'[d] > 0 => priv[home[d]] = NULL
    <3>1. CASE d = d0 BY <2>2, <2>3, <2>4, <3>1
    <3>2. CASE d # d0
      <4>1. ref_cnt'[d] = ref_cnt[d] /\ (d \in valid' <=> d \in valid)
        BY <1>n, <2>5, <3>2
      <4> QED BY <4>1 DEF RefInv, RefsMatchFiles
    <3> QED BY <3>1, <3>2
  <2>9. RefsMatchFiles' BY <2>2, <2>8 DEF RefsMatchFiles
  <2> QED BY <2>2, <2>6, <2>7, <2>9 DEF RefInv
<1>5. ASSUME NEW s \in Slots, IrqOn(s) \/ IrqOff(s) \/ IrqOffDone(s) \/ IsrEnter(s) \/ Isr(s)
      PROVE RefInv'
  <2>1. UNCHANGED priv /\ UNCHANGED deviceVars
    BY <1>5 DEF IrqOn, IrqOff, IrqOffDone, IsrEnter, Isr, IsrCount, IsrCheck, IsrRun,
                IsrLeave, slotVars
  <2> QED BY <1>0, <2>1, RefFrame
<1>6. ASSUME NEW d \in Devices, Open(d) \/ Close(d) PROVE RefInv'
  <2>1. UNCHANGED <<priv, created, valid, home>> /\ 1 .. created = 1 .. created'
    BY <1>6 DEF Open, Close, slotVars
  <2>2. d \in 1 .. created /\ files[d] \in Nat /\ ref_cnt[d] \in Int /\ d # NULL
    <3>1. created \in Nat /\ files[d] \in Nat /\ ref_cnt[d] \in Int /\ d \in Nat \ {0}
      BY <1>0, PciAssumption DEF Types, Devices, NULL
    <3>2. CASE Open(d) BY <1>0, <3>1, <3>2 DEF Open, Types, Devices, NULL
    <3>3. CASE Close(d) BY <3>1, <3>3 DEF Close, RefInv, NULL
    <3> QED BY <1>6, <3>1, <3>2, <3>3 DEF NULL
  <2>3. \/ /\ priv[home[d]] = d
           /\ ref_cnt[d] = files[d] + (IF d \in valid THEN 1 ELSE 0)
           /\ \E k \in {-1, 1} : /\ files' = [files EXCEPT ![d] = files[d] + k]
                                  /\ ref_cnt' = [ref_cnt EXCEPT ![d] = ref_cnt[d] + k]
        \/ /\ priv[home[d]] = NULL /\ d \notin valid
           /\ files' = [files EXCEPT ![d] = files[d] - 1] /\ ref_cnt' = ref_cnt
    <3>1. CASE Open(d)
      <4>1. priv[home[d]] = d BY <2>2, <3>1 DEF Open, RefInv
      <4> QED BY <2>2, <3>1, <4>1 DEF Open, RefInv, RefsMatchFiles, NULL
    <3>2. CASE Close(d)
      <4>1. files[d] > 0 /\ files[d] <= ref_cnt[d] BY <2>2, <3>2 DEF Close, RefInv
      <4>2. CASE priv[home[d]] = d
        <5>1. /\ files' = [files EXCEPT ![d] = files[d] - 1]
              /\ ref_cnt' = [ref_cnt EXCEPT ![d] = ref_cnt[d] - 1]
          BY <2>2, <3>2, <4>2 DEF Close
        <5>2. files[d] - 1 = files[d] + (-1) /\ ref_cnt[d] - 1 = ref_cnt[d] + (-1) BY <2>2
        <5>3. ref_cnt[d] = files[d] + (IF d \in valid THEN 1 ELSE 0)
          BY <2>2, <4>1, <4>2 DEF RefInv, RefsMatchFiles, NULL
        <5> QED BY <4>2, <5>1, <5>2, <5>3
      <4>3. CASE priv[home[d]] # d
        <5>1. priv[home[d]] = NULL /\ d \notin valid
          BY <2>2, <4>1, <4>3 DEF RefInv, RefsMatchFiles
        <5> QED BY <3>2, <5>1 DEF Close
      <4> QED BY <4>2, <4>3
    <3> QED BY <1>6, <3>1, <3>2
  <2>4. ASSUME NEW e \in Devices, e # d
        PROVE  files'[e] = files[e] /\ ref_cnt'[e] = ref_cnt[e]
    BY <1>0, <2>3, <2>4 DEF Types
  <2>5. \A e \in Devices : e > created => files'[e] = 0 /\ ref_cnt'[e] = 0
    BY <1>0, <2>2, <2>4 DEF RefInv, Types, Devices, NULL
  <2>6. /\ files'[d] <= ref_cnt'[d]
        /\ d \in valid => priv[home[d]] = d
        /\ \/ /\ priv[home[d]] = d
              /\ ref_cnt'[d] = files'[d] + (IF d \in valid THEN 1 ELSE 0)
           \/ /\ d \notin valid
              /\ ref_cnt'[d] > 0 => priv[home[d]] = NULL
    <3>1. files[d] <= ref_cnt[d] BY <2>2 DEF RefInv
    <3>2. CASE ref_cnt' = ref_cnt BY <1>0, <2>2, <2>3, <3>1, <3>2 DEF Types
    <3>3. CASE ref_cnt' # ref_cnt BY <1>0, <2>2, <2>3, <3>3 DEF Types
    <3> QED BY <3>2, <3>3
  <2>7. ASSUME NEW e \in Devices
        PROVE  files'[e] <= ref_cnt'[e] /\ (e \in valid => priv[home[e]] = e)
    <3>1. CASE e = d BY <2>6, <3>1
    <3>2. CASE e # d BY <2>4, <3>2 DEF RefInv
    <3> QED BY <3>1, <3>2
  <2>8. ASSUME NEW e \in 1 .. created
        PROVE  \/ /\ priv[home[e]] = e
                  /\ ref_cnt'[e] = files'[e] + (IF e \in valid THEN 1 ELSE 0)
               \/ /\ e \notin valid
                  /\ ref_cnt'[e] > 0 => priv[home[e]] = NULL
    <3>1. CASE e = d BY <2>6, <3>1
    <3>2. CASE e # d
      <4>1. files'[e] = files[e] /\ ref_cnt'[e] = ref_cnt[e] BY <1>n, <2>4, <3>2
      <4> QED BY <4>1 DEF RefInv, RefsMatchFiles
    <3> QED BY <3>1, <3>2
  <2>9. RefsMatchFiles' BY <2>1, <2>8 DEF RefsMatchFiles
  <2> QED BY <2>1, <2>5, <2>7, <2>9 DEF RefInv
<1>7. ASSUME UNCHANGED pciVars PROVE RefInv'
  <2>1. UNCHANGED priv /\ UNCHANGED deviceVars BY <1>7 DEF pciVars, slotVars
  <2> QED BY <1>0, <2>1, RefFrame
<1> QED
  BY <1>1, <1>2, <1>3, <1>4, <1>5, <1>6, <1>7 DEF PCNext, Remove

-----------------------------------------------------------------------------
(* The theorems.                                                           *)

PCInv == SlotInv /\ IrqInv /\ DeviceInv

LEMMA PCInvariant == PCSpec => []PCInv
<1>1. PCInit => PCInv BY SlotInit, IrqInit, DeviceInit DEF PCInv
<1>2. PCInv /\ [PCNext]_pciVars => PCInv' BY SlotStep, IrqStep, DeviceStep DEF PCInv
<1> QED BY <1>1, <1>2, PTL DEF PCSpec

\* While the interrupt handler uses a MNG_DEV, remove has not begun to destroy
\* it (evrma_pci_isr against evrma_pci_remove), for any number of cards.
THEOREM PCIsrOnLivingDevice == PCSpec => []IsrOnLivingDevice
<1>1. PCInv => IsrOnLivingDevice
  <2> SUFFICES ASSUME PCInv, NEW s \in Slots, isr[s] = "run" PROVE priv[s] \in valid
    BY DEF IsrOnLivingDevice
  <2>1. Phase(s) \in Living BY DEF PCInv, IrqInv, IrqInvOf, HandlerOf, Living
  <2> QED BY <2>1 DEF PCInv, DeviceInv, DeviceOf
<1> QED BY <1>1, PCInvariant, PTL

\* activity says exactly whether the card is bound and whether a handler runs
\* (pci-evr.c:136-153).
THEOREM PCActivityExact == PCSpec => []ActivityExact
<1>1. PCInv => ActivityExact
  <2> SUFFICES ASSUME PCInv, NEW s \in Slots
      PROVE  activity[s] =
               (IF \E c \in Cards : pc[c] = "bound" /\ ev_device[c] = s THEN 2 ELSE 0)
                 + (IF isr[s] \in {"counted", "run", "done"} THEN 1 ELSE 0)
    BY DEF ActivityExact
  <2>1. Phase(s) = "bound" <=> \E c \in Cards : pc[c] = "bound" /\ ev_device[c] = s
    BY DEF PCInv, SlotInv, SlotsOwned, UsedByOne, Phase
  <2> QED BY <2>1 DEF PCInv, IrqInv, IrqInvOf, ActivityOf, Handling
<1> QED BY <1>1, PCInvariant, PTL

\* The kernel knows a handler only for a slot whose card has not been removed
\* (evrma_pci_irq_set against evrma_pci_remove).
THEOREM PCNoStrayIrq == PCSpec => []NoStrayIrq
<1>1. PCInv => NoStrayIrq
  <2> SUFFICES ASSUME PCInv, NEW s \in irq_requested
      PROVE  \E c \in Cards : ev_device[c] = s /\ pc[c] \in {"bound", "free_irq"}
    BY DEF NoStrayIrq
  <2>1. s \in Slots BY DEF PCInv, SlotInv, Types
  <2>2. Phase(s) \in {"bound", "free_irq"}
    BY <2>1 DEF PCInv, IrqInv, IrqInvOf, RequestedOf
  <2> QED BY <2>2 DEF PCInv, SlotInv, UsedByOne, Phase
<1> QED BY <1>1, PCInvariant, PTL

\* The references of each device are those its card and its files account for, and
\* so no counter leaves its range.
LEMMA CountsInvariant == PCSpec => [](RefsMatchFiles /\ PCTypeOK)
<1>1. PCInit => PCInv /\ RefInv BY SlotInit, IrqInit, DeviceInit, RefInit DEF PCInv
<1>2. PCInv /\ RefInv /\ [PCNext]_pciVars => PCInv' /\ RefInv'
  BY SlotStep, IrqStep, DeviceStep, RefStep DEF PCInv
<1>3. PCInv /\ RefInv => RefsMatchFiles /\ PCTypeOK
  <2> SUFFICES ASSUME PCInv, RefInv PROVE RefsMatchFiles /\ PCTypeOK OBVIOUS
  <2>1. Types BY DEF PCInv, SlotInv
  <2>2. ASSUME NEW d \in Devices PROVE ref_cnt[d] \in Nat
    <3>1. CASE d > created BY <3>1 DEF RefInv
    <3>2. CASE d \in 1 .. created
      <4>1. files[d] \in Nat /\ ref_cnt[d] \in Int BY <2>1, PciAssumption DEF Types
      <4> QED BY <3>2, <4>1 DEF RefInv
    <3> QED BY <2>1, <3>1, <3>2, PciAssumption DEF Types, Devices, NULL
  <2>3. ref_cnt \in [Devices -> Nat] BY <2>1, <2>2 DEF Types
  <2> QED BY <2>1, <2>3 DEF RefInv, Types, PCTypeOK
<1> QED BY <1>1, <1>2, <1>3, PTL DEF PCSpec

\* References are counted exactly while a MNG_DEV is in its slot, and none is given
\* back to another (devref.h:51-52 with pci-evr.c:660).
THEOREM PCRefsMatchFiles == PCSpec => []RefsMatchFiles
BY CountsInvariant, PTL

\* Slots and cards stay in the states the code names whatever probe, remove, irq_set
\* and files do (pci-evr.c:543-707, 953-992), and no reference is given back twice, for
\* the counts never fall below zero.
THEOREM PCTypeCorrect == PCSpec => []PCTypeOK
BY CountsInvariant, PTL
=============================================================================
