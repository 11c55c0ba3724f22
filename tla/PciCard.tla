------------------------------ MODULE PciCard ------------------------------
(***************************************************************************)
(* The PCI driver of pci-evr.c: cards that come and go, the slots they     *)
(* take, and the interrupt handler that may run on another CPU meanwhile.  *)
(*                                                                         *)
(* The kernel calls probe and remove of one card one after the other, and  *)
(* does not run a handler of one interrupt line twice at a time; calls for *)
(* different cards interleave.  MNG_DEVs are numbered in the order of      *)
(* their creation; of each only what the slots depend on is kept here, the *)
(* rest is in HotUnplug.                                                   *)
(***************************************************************************)
EXTENDS Integers, FiniteSets

CONSTANTS
  Cards,          \* PCI devices
  SlotCount,      \* MAX_PCI_MRF_DEVICES
  None,           \* no card, no slot
  MaxDevices,     \* bound: MNG_DEVs created in all
  MaxFiles        \* bound: files open on the VIRT_DEVs of one MNG_DEV

ASSUME PciAssumption ==
  /\ SlotCount \in Nat \ {0}
  /\ None \notin Cards /\ None \notin Nat
  /\ MaxDevices \in Nat /\ MaxFiles \in Nat

Slots == 0 .. SlotCount - 1
Devices == 1 .. MaxDevices
NULL == 0

VARIABLES
  used, pcidev, activity, irq_enabled,  \* pci_mrf_data[]
  priv,           \* pci_mrf_data[].mngdev_des.priv: the MNG_DEV
  mutex,          \* held by irq_set for this slot, while it waits in free_irq
  pc, ev_device,  \* per card: progress of probe and remove, and their slot
  irq_requested,  \* slots whose handler the kernel knows
  isr,            \* per slot: progress of evrma_pci_isr
  created,        \* MNG_DEVs created so far
  valid,          \* those whose devref pointer is valid
  ref_cnt, files, home   \* per MNG_DEV: references, open files, its slot

slotVars == <<used, pcidev, activity, irq_enabled, priv>>
irqVars == <<irq_requested, isr>>
deviceVars == <<created, valid, ref_cnt, files, home>>
pciVars == <<slotVars, mutex, pc, ev_device, irqVars, deviceVars>>

PCTypeOK ==
  /\ used \subseteq Slots
  /\ pcidev \in [Slots -> Cards \cup {None}]
  /\ activity \in [Slots -> Int]
  /\ irq_enabled \in [Slots -> BOOLEAN]
  /\ priv \in [Slots -> Devices \cup {NULL}]
  /\ mutex \in Slots \cup {None}
  /\ pc \in [Cards -> {"out", "probe", "created", "bound", "free_irq", "wait",
                       "destroy", "release"}]
  /\ ev_device \in [Cards -> Slots \cup {None}]
  /\ irq_requested \subseteq Slots
  /\ isr \in [Slots -> {"idle", "entered", "counted", "run", "done"}]
  /\ created \in Devices \cup {NULL}
  /\ valid \subseteq 1 .. created
  /\ ref_cnt \in [Devices -> Nat]
  /\ files \in [Devices -> 0 .. MaxFiles]
  /\ home \in [Devices -> Slots]

PCInit ==
  /\ used = {}
  /\ pcidev = [s \in Slots |-> None]
  /\ activity = [s \in Slots |-> 0]
  /\ irq_enabled = [s \in Slots |-> FALSE]
  /\ priv = [s \in Slots |-> NULL]
  /\ mutex = None
  /\ pc = [c \in Cards |-> "out"] /\ ev_device = [c \in Cards |-> None]
  /\ irq_requested = {} /\ isr = [s \in Slots |-> "idle"]
  /\ created = 0 /\ valid = {}
  /\ ref_cnt = [d \in Devices |-> 0] /\ files = [d \in Devices |-> 0]
  /\ home = [d \in Devices |-> 0]

Goto(c, where) == pc' = [pc EXCEPT ![c] = where]

-----------------------------------------------------------------------------
(* Probe.                                                                  *)

\* sease_a_slot: the first free slot, wiped.
Probe(c) ==
  /\ pc[c] = "out" /\ mutex = None
  /\ created < MaxDevices
  /\ \E s \in Slots \ used :
       /\ \A t \in Slots \ used : s <= t
       /\ used' = used \cup {s}
       /\ pcidev' = [pcidev EXCEPT ![s] = c]
       /\ activity' = [activity EXCEPT ![s] = 0]
       /\ irq_enabled' = [irq_enabled EXCEPT ![s] = FALSE]
       /\ priv' = [priv EXCEPT ![s] = NULL]
       /\ ev_device' = [ev_device EXCEPT ![c] = s]
  /\ Goto(c, "probe")
  /\ UNCHANGED <<mutex, irqVars, deviceVars>>

\* -EMFILE.
ProbeRefused(c) ==
  /\ pc[c] = "out" /\ mutex = None
  /\ used = Slots
  /\ UNCHANGED pciVars

\* device_create gives a name and a number only once.  Those of a MNG_DEV are of
\* its slot, and are given back when its last reference is.
NameInUse(s) == \E d \in Devices : home[d] = s /\ ref_cnt[d] > 0

\* A later step fails; cleanup undoes those before it.
ProbeFails(c) ==
  /\ pc[c] = "probe"
  /\ used' = used \ {ev_device[c]}
  /\ ev_device' = [ev_device EXCEPT ![c] = None]
  /\ Goto(c, "out")
  /\ UNCHANGED <<pcidev, activity, irq_enabled, priv, mutex, irqVars, deviceVars>>

\* finish_probe: modac_mngdev_create.
ProbeCreate(c) ==
  /\ pc[c] = "probe" /\ created < MaxDevices
  /\ ~NameInUse(ev_device[c])
  /\ created' = created + 1
  /\ valid' = valid \cup {created'}
  /\ ref_cnt' = [ref_cnt EXCEPT ![created'] = 1]
  /\ home' = [home EXCEPT ![created'] = ev_device[c]]
  /\ priv' = [priv EXCEPT ![ev_device[c]] = created']
  /\ Goto(c, "created")
  /\ UNCHANGED <<used, pcidev, activity, irq_enabled, mutex, ev_device, irqVars, files>>

\* finish_probe: the interrupt may proceed.
ProbeActivate(c) ==
  /\ pc[c] = "created"
  /\ activity' = [activity EXCEPT ![ev_device[c]] = 2]
  /\ Goto(c, "bound")
  /\ UNCHANGED <<used, pcidev, irq_enabled, priv, mutex, ev_device, irqVars, deviceVars>>

-----------------------------------------------------------------------------
(* Remove.                                                                 *)

\* Under the mutex: find the slot, and tell the interrupt to stay out.
RemoveBegin(c) ==
  /\ pc[c] = "bound" /\ mutex = None
  /\ \E s \in used :
       /\ pcidev[s] = c
       /\ activity' = [activity EXCEPT ![s] = @ - 2]
       /\ ev_device' = [ev_device EXCEPT ![c] = s]
  /\ Goto(c, "free_irq")
  /\ UNCHANGED <<used, pcidev, irq_enabled, priv, mutex, irqVars, deviceVars>>

\* free_irq begins: the kernel forgets the handler.
RemoveFreeIrq(c) ==
  /\ pc[c] = "free_irq"
  /\ irq_requested' = IF irq_enabled[ev_device[c]]
                      THEN irq_requested \ {ev_device[c]} ELSE irq_requested
  /\ Goto(c, "wait")
  /\ UNCHANGED <<slotVars, mutex, ev_device, isr, deviceVars>>

\* Variant with a fault: nothing waits for the handler.
RemoveWaitSkipped(c) ==
  /\ pc[c] = "wait"
  /\ Goto(c, "destroy")
  /\ UNCHANGED <<slotVars, mutex, ev_device, irqVars, deviceVars>>

\* free_irq returns when the handler has ended; then activity is waited for.
RemoveWait(c) ==
  /\ pc[c] = "wait"
  /\ irq_enabled[ev_device[c]] => isr[ev_device[c]] = "idle"
  /\ activity[ev_device[c]] <= 0
  /\ Goto(c, "destroy")
  /\ UNCHANGED <<slotVars, mutex, ev_device, irqVars, deviceVars>>

\* cleanup: modac_mngdev_destroy of the MNG_DEV in the slot, under its devref
\* lock, which irq_set's caller holds.
RemoveDestroy(c) ==
  /\ pc[c] = "destroy" /\ mutex # ev_device[c]
  /\ LET d == priv[ev_device[c]]
     IN  /\ valid' = valid \ {d}
         /\ ref_cnt' = [ref_cnt EXCEPT ![d] = @ - 1]
  /\ Goto(c, "release")
  /\ UNCHANGED <<slotVars, mutex, ev_device, irqVars, created, files, home>>

\* cleanup: the slot is free; what it holds is left.
RemoveRelease(c) ==
  /\ pc[c] = "release"
  /\ used' = used \ {ev_device[c]}
  /\ ev_device' = [ev_device EXCEPT ![c] = None]
  /\ Goto(c, "out")
  /\ UNCHANGED <<pcidev, activity, irq_enabled, priv, mutex, irqVars, deviceVars>>

-----------------------------------------------------------------------------
(* evrma_pci_irq_set, called under the devref lock of a valid MNG_DEV when  *)
(* subscriptions change.                                                   *)

Subscribes(s) == priv[s] \in valid /\ mutex = None

\* Variant with a fault: activity is not looked at.
IrqOnUnchecked(s) ==
  /\ Subscribes(s)
  /\ irq_enabled' = [irq_enabled EXCEPT ![s] = TRUE]
  /\ irq_requested' = irq_requested \cup {s}
  /\ UNCHANGED <<used, pcidev, activity, priv, mutex, pc, ev_device, isr, deviceVars>>

IrqOn(s) ==
  /\ Subscribes(s)
  /\ activity[s] >= 2
  /\ irq_enabled' = [irq_enabled EXCEPT ![s] = TRUE]
  /\ \/ ~irq_enabled[s] /\ irq_requested' = irq_requested \cup {s}
     \/ UNCHANGED irq_requested   \* enabled already, or request_irq fails
  /\ UNCHANGED <<used, pcidev, activity, priv, mutex, pc, ev_device, isr, deviceVars>>

\* free_irq waits for the handler with the mutex held.
IrqOff(s) ==
  /\ Subscribes(s)
  /\ activity[s] >= 2 /\ irq_enabled[s]
  /\ irq_requested' = irq_requested \ {s}
  /\ mutex' = s
  /\ UNCHANGED <<slotVars, pc, ev_device, isr, deviceVars>>

IrqOffDone(s) ==
  /\ mutex = s
  /\ isr[s] = "idle"
  /\ irq_enabled' = [irq_enabled EXCEPT ![s] = FALSE]
  /\ mutex' = None
  /\ UNCHANGED <<used, pcidev, activity, priv, pc, ev_device, irqVars, deviceVars>>

-----------------------------------------------------------------------------
(* evrma_pci_isr.                                                          *)

IsrGoto(s, where) == isr' = [isr EXCEPT ![s] = where]

\* The line is raised, and it is this card (if not, the handler returns).
IsrEnter(s) ==
  /\ s \in irq_requested /\ isr[s] = "idle"
  /\ IsrGoto(s, "entered")
  /\ UNCHANGED <<slotVars, mutex, pc, ev_device, irq_requested, deviceVars>>

IsrCount(s) ==
  /\ isr[s] = "entered"
  /\ activity' = [activity EXCEPT ![s] = @ + 1]
  /\ IsrGoto(s, "counted")
  /\ UNCHANGED <<used, pcidev, irq_enabled, priv, mutex, pc, ev_device, irq_requested,
                 deviceVars>>

\* Variant with a fault: it returns at once when it must not run.
IsrCheckReturns(s) ==
  /\ isr[s] = "counted"
  /\ IsrGoto(s, IF activity[s] >= 2 THEN "run" ELSE "idle")
  /\ UNCHANGED <<slotVars, mutex, pc, ev_device, irq_requested, deviceVars>>

\* activity >= 2: modac_mngdev_isr runs.
IsrCheck(s) ==
  /\ isr[s] = "counted"
  /\ IsrGoto(s, IF activity[s] >= 2 THEN "run" ELSE "done")
  /\ UNCHANGED <<slotVars, mutex, pc, ev_device, irq_requested, deviceVars>>

IsrRun(s) ==
  /\ isr[s] = "run"
  /\ IsrGoto(s, "done")
  /\ UNCHANGED <<slotVars, mutex, pc, ev_device, irq_requested, deviceVars>>

IsrLeave(s) ==
  /\ isr[s] = "done"
  /\ activity' = [activity EXCEPT ![s] = @ - 1]
  /\ IsrGoto(s, "idle")
  /\ UNCHANGED <<used, pcidev, irq_enabled, priv, mutex, pc, ev_device, irq_requested,
                 deviceVars>>

-----------------------------------------------------------------------------
(* Files of the VIRT_DEVs.  They find their MNG_DEV through the slot:       *)
(* vdev_des->mngdev_des->priv.                                             *)

\* Variant with a fault: no reference is taken.
OpenNoRef(d) ==
  /\ d \in valid /\ files[d] < MaxFiles
  /\ files' = [files EXCEPT ![d] = @ + 1]
  /\ mutex # home[d]
  /\ UNCHANGED <<slotVars, mutex, pc, ev_device, irqVars, created, valid, ref_cnt, home>>

Open(d) ==
  /\ d \in valid /\ files[d] < MaxFiles
  /\ files' = [files EXCEPT ![d] = @ + 1]
  /\ ref_cnt' = [ref_cnt EXCEPT ![priv[home[d]]] = @ + 1]
  /\ mutex # home[d]
  /\ UNCHANGED <<slotVars, mutex, pc, ev_device, irqVars, created, valid, home>>

\* Variant with a fault: the reference is given back twice.
CloseTwoPuts(d) ==
  /\ files[d] > 0
  /\ files' = [files EXCEPT ![d] = @ - 1]
  /\ ref_cnt' = [ref_cnt EXCEPT ![priv[home[d]]] = @ - 2]
  /\ mutex # home[d]
  /\ UNCHANGED <<slotVars, mutex, pc, ev_device, irqVars, created, valid, home>>

\* If the slot has been wiped since, the thread dies on the null pointer.
Close(d) ==
  /\ files[d] > 0
  /\ files' = [files EXCEPT ![d] = @ - 1]
  /\ LET target == priv[home[d]]
     IN  ref_cnt' = IF target = NULL THEN ref_cnt
                    ELSE [ref_cnt EXCEPT ![target] = @ - 1]
  /\ mutex # home[d]
  /\ UNCHANGED <<slotVars, mutex, pc, ev_device, irqVars, created, valid, home>>

Remove(c) ==
  RemoveFreeIrq(c) \/ RemoveWait(c) \/ RemoveDestroy(c) \/ RemoveRelease(c)
Isr(s) == IsrCount(s) \/ IsrCheck(s) \/ IsrRun(s) \/ IsrLeave(s)

PCNext ==
  \/ \E c \in Cards :
       \/ Probe(c) \/ ProbeRefused(c) \/ ProbeFails(c)
       \/ ProbeCreate(c) \/ ProbeActivate(c)
       \/ RemoveBegin(c) \/ Remove(c)
  \/ \E s \in Slots :
       IrqOn(s) \/ IrqOff(s) \/ IrqOffDone(s) \/ IsrEnter(s) \/ Isr(s)
  \/ \E d \in Devices : Open(d) \/ Close(d)

\* A handler ends, free_irq returns, and the kernel carries a removal through.
PCFairness ==
  /\ \A c \in Cards : WF_pciVars(Remove(c))
  /\ \A s \in Slots : WF_pciVars(Isr(s)) /\ WF_pciVars(IrqOffDone(s))

PCSpec == PCInit /\ [][PCNext]_pciVars
PCFairSpec == PCSpec /\ PCFairness

-----------------------------------------------------------------------------
(* Properties.                                                             *)

\* pci-evr.c:137: activity protects the MNG_DEV "in calls from the ISR": while
\* the handler uses it, its destruction has not begun.
IsrOnLivingDevice ==
  \A s \in Slots : isr[s] = "run" => priv[s] \in valid

\* activity is 2 for a card between probe and remove, plus 1 for a handler under
\* way, whatever is probed and removed meanwhile.
ActivityExact ==
  \A s \in Slots :
    activity[s] = (IF \E c \in Cards : pc[c] = "bound" /\ ev_device[c] = s THEN 2 ELSE 0)
                    + (IF isr[s] \in {"counted", "run", "done"} THEN 1 ELSE 0)

\* The kernel forgets the handler before the device is destroyed: irq_set and
\* remove, from different threads, leave none behind for a slot that is free or
\* used by another card.
NoStrayIrq ==
  \A s \in irq_requested :
    \E c \in Cards : ev_device[c] = s /\ pc[c] \in {"bound", "free_irq"}

\* Files find their MNG_DEV through a slot that may be given to another card while
\* they are open.  Yet while a MNG_DEV is in its slot, every file open on it, and the
\* driver while it is bound, hold one reference of it: "open() calls devref_get() and
\* release() calls devref_put()" (devref.h:52).  Once it is not, and while it still
\* exists, the slot holds nothing: no file gives back a reference of another device.
RefsMatchFiles ==
  \A d \in 1 .. created :
    \/ /\ priv[home[d]] = d
       /\ ref_cnt[d] = files[d] + (IF d \in valid THEN 1 ELSE 0)
    \/ /\ d \notin valid
       /\ ref_cnt[d] > 0 => priv[home[d]] = NULL

\* A removal ends, though handlers and irq_set may be in its way.
RemoveEnds == \A c \in Cards : pc[c] = "free_irq" ~> pc[c] = "out"
=============================================================================
