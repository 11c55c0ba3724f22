# A verification project for evrmaDriver

evrmaDriver is a Linux kernel driver for event receivers (EVR), PCI cards of a
timing system. Each card is a *managing device* (MNG_DEV, one device file). Through
it a managing application creates *virtual devices* (VIRT_DEV, one device file each),
gives them hardware resources (pulse generators, outputs) and leaves them to other
applications, which subscribe to events of the timing system and read them.

This directory holds TLA+ modules translated from the driver's source, the TLC
configurations that check them on small instances, and proofs, checked by TLAPS, of
the properties that matter most for instances of every size. `PROJECT.json` maps
each definition to the source lines it stands for.

## 1. The system

| component | state | operations | interacts with |
|---|---|---|---|
| Event queue (`packet-queue.c`) | ring of 1024 entries, `head`, `tail`, `overflow_written` | put (interrupt), get, available (readers) | wait queue of the VIRT_DEV |
| Reading (`virt-dev.c`) | `notified_events`, wait queue, `cb_reader_lock` | read, poll, notify, put | event queue; spin lock of the MNG_DEV |
| Dispatch (`event-list.c`, `mng-dev.c`) | `subs`: per event a row of subscribers | subscribe, unsubscribe, clear, dispatch from the interrupt | hardware (`on_subscribe_change`), VIRT_DEVs |
| Resources (`rm.c`, `mng-dev.c`, `evr.c`) | owner of each resource; each VIRT_DEV's table of its own | CREATE, DESTROY, ALLOC, hardware ioctls, `hw_reset`, open, close | hardware (`suits`, `init_res`, `ioctl`) |
| References (`devref.h`, `mng-dev.c`, `virt-dev.c`) | `ref_cnt`, pointer, list of inodes; two tables; three mutexes; direct-access lock | open, release, ioctl, mmap, removal of the card | everything above: it decides what is still allocated |
| EVR hardware (`evr.c`) | control register, two mapping RAMs and the driver's map | ioctls, `init_res`, flush, direct ioctl | interrupts, resources |
| Outputs (`evr.c`) | a source register for each output | OUTSET of the MNG_DEV, INIT | resources: who owns the output and the pulse generator |
| Interrupts (`evr-irq-events.c`) | event FIFO, interrupt enables, data buffer and its copy in mapped memory | ISR, `on_subscribe_change` | dispatch |
| PCI driver (`pci-evr.c`, `plx.c`) | slots, activity counter, interrupt request | probe, remove, external probe, `irq_set`, ISR | MNG_DEV create and destroy |
| Module entry (`main_evrma.c`, the init and fini of `mng-dev.c` and `virt-dev.c`) | device numbers, two classes, two tables with their character devices, the test device, the PCI driver | load, unload | everything: it decides what there is to stand on |
| Simulator, debug output (`evr-sim.c`, `evr-dbg.c`) | - | printing | - |

What is hard in it:

- *Interrupt against threads.* The event queue has no lock between the interrupt and
  the readers; the dispatch list is walked by the interrupt while ioctls change it in
  two halves (the list, then the hardware).
- *Sleeping.* A reader checks two sources of events under two locks before it sleeps.
- *Hot-unplug.* The card may be pulled while files are open, being opened, mapped or
  read. The device must be freed once, by whoever is last, and never before.
- *Long histories.* Ownership of a resource is recorded twice; subscriptions are kept
  in arrays without gaps; ids and names are reused.
- *Lock order.* Two table mutexes and the devref lock are taken by different paths.
- *Slots.* The interrupt finds its device through a slot of an array, while the card's
  removal, another card's probe and a change of subscriptions work on the same array.
- *Registers.* The control register is read, changed and written back by a flush of the
  mapping RAM, by a direct ioctl and by the interrupt handler, each under another lock
  or none; so is that of the data buffer.
- *Half of a load.* Loading takes many steps of which each may fail and must undo those
  before it; unloading meets files that are still open.

## 2. The modules

    PacketQueue <- VdevRead                     interrupt and readers
    EventDispatch -> Subscriptions (abstract)   subscriptions and hardware
    ResourceManager <- EvrOutputs               VIRT_DEVs, what they own, outputs
    HotUnplug -> DeviceLifetime (abstract)      who may still use what
    PciCard                                     cards, slots and interrupts
    EvrHardware                                 registers, mapping RAM, event FIFO
    DataBuffer                                  data buffer, handler, mapped memory
    ModuleLifecycle                             load, unload, cards and files

An arrow to the left is EXTENDS: the composed system. An arrow to the right is a
refinement: the abstract specification is a PROPERTY of the detailed one's run.
`MC*.tla` instantiate them for TLC, `*Proofs.tla` hold the theorems. Operators whose
comment begins "Variant with a fault" are the same operation with a plausible mistake;
no specification uses them. Replacing the operation by the variant must make the
property that guards against the mistake fail, which shows that the property can fail.

**PacketQueue** (`packet-queue.c`). A put is `PutBegin` (head and tail read, space
computed), `PutStore` (the slot is filled), `PutCommit` (head moves), `PutWake`; a get
is `GetBegin`, `GetCopy`, `GetAdvance` (tail moves) and `GetReturn` (the length is read
from the slot again, as line 114 does). Each is one access to what the two sides
share; the memory barriers of the code justify that they happen in this order. Events
are numbered, so the number stands for code and payload. A slot never written holds
`Uninitialised` and some length; the memory comes from kmalloc, and the model lets the
length be any legal one (an illegal one would only make the finding of section 4
worse). `published`, `received`, `lost` and `whow` are history variables.

**VdevRead** (`virt-dev.c`, 377-560 and 649-680) extends PacketQueue with
`notified_events`, the kernel's wait queue and the program counter of each thread in
`vdev_read` or `vdev_poll`. `Prepare`, `CheckCb`, `CheckNotified`, sleep is what
`wait_event_interruptible(.., read_has_data(..))` and the poll loop do. The interrupt
holds the MNG_DEV spin lock for a whole put, so critical sections under that lock are
steps that need `wpc = "idle"`. `Interrupted` lets a sleep end by a signal or a poll
by its timeout at any moment.

**EventDispatch** (`event-list.c`; `mng-dev.c`, 308-344, 981-1018, 1388-1513). `subs` is
the array of the code, row by row, with the operators `WithSubscriber` and
`WithoutSubscriber` for its two loops. A change takes the devref lock, changes the
list, copies the subscriptions, calls the hardware, and unlocks, in three steps;
`Dispatch` may come between any two. `FinishProbe` is the last call of
`modac_mngdev_create`. A file of a VIRT_DEV is open until it is closed, also when DESTROY
has freed the descriptor under it: it may still subscribe, and its last close still takes
the descriptor off the list. `DestroyWhileOpen` says whether the manager may do that,
`OpenWhileProbing` whether an application may be faster than the probe's last call.

**ResourceManager** (`rm.c`; `mng-dev.c`, 363-494, 575-903, 1328-1463; `virt-dev.c`,
232-375, 699-729; `evr.c`, 248-315). All these calls run under the devref lock, so each
is one step. `owner` is the resource manager's record, `res_alloc_index` the
VIRT_DEV's, which ALLOC fills as far as there is room and no further. An ioctl on the k-th
resource of a VIRT_DEV looks it up in the table and asks the manager for its owner
(`MayUse`). `are_set` is a history variable: the pulse generators that were set since they
were last initialised, by `init_res` or by INIT (`MngInit`). `init_res` does nothing to an
output. The constants of the card are those of any table of `evr.c`: up to 16 pulse
generators, and any number of outputs, which may be more than a table has places.

**EvrOutputs** (`evr.c`, 523-624, 746-762, 795-862) extends ResourceManager with the
output registers. An output of a VIRT_DEV is set to one of the same VIRT_DEV's pulse
generators (`OutSetPulsegen`) or to a source that is none (`OutSetMisc`); INIT puts all
of them low, without regard to owners. Nothing writes them when an owner goes, so an
output keeps its source then (a comment at `evr.c:1260` says so). `configured` is history:
the outputs that were set since their owner has them.

**HotUnplug** (`devref.h`; `mng-dev.c`, 189-232, 499-582, 918-966, 1029-1047, 1684-1737;
`virt-dev.c`, 153-227, 757-883). The mutexes are variables where a thread may block
while it holds another; a section that takes a single mutex is one step. The list of
inodes of devref.h is `l_rcnt`, the count in the node of each inode, with the order left
open; `devref_forall_inodes` is a walk that keeps the next node (`n`) across a callback
that runs unlocked. When the removal has put its reference and others are left,
it reads the device once more for a message (`UnplugPostponed`). `Habits` names five things
applications may do that the code handles badly: opening the MNG_DEV twice, destroying an
open VIRT_DEV, opening a VIRT_DEV while another is created or destroyed, closing the last
file of an inode the removal is about to visit, and closing the last file of all before that
message. The runs differ in them, so that a flaw is shown by itself and the rest
of the protocol is checked without it. The module implements **DeviceLifetime**, which
says what `devref.h` promises: the device is got hold of only while valid, is
invalidated once by its owner, and is freed by the last to let go.

**PciCard** (`pci-evr.c`, 126-177, 295-325, 543-707, 953-992; the closes of `mng-dev.c`).
`probe` takes the first free slot and wipes it (`Probe`), creates the device
(`ProbeCreate`) and lets the interrupt in (`ProbeActivate`, activity 2), or undoes what
it did (`ProbeFails`). `remove` takes the 2 away under the mutex (`RemoveBegin`), frees
the interrupt without it (`RemoveFreeIrq`), polls activity (`RemoveWait`), destroys the
device and gives up the slot. `irq_set` is `IrqOn`, or `IrqOff` and `IrqOffDone`, since
free_irq waits for the handler with the mutex held. The handler is a step per access to
activity. A file of a VIRT_DEV reaches its MNG_DEV through `priv`
of the slot, so `priv` is a pointer that may change under the file; `home` and `files` say
which device it was opened on. A slot is wiped for the next card while such files are
left; `device_create` then refuses the name of the device that still exists
(`ProbeFails`), which is what keeps the files of two devices apart.

**EvrHardware** (`evr.c`, 349-429, 672-681, 746-792, 881-1209, 1230-1266;
`evr-irq-events.c`). The calls under the devref lock change the driver's map and end in a
flush, `FlushRead`, one `SaveRow` per row, `FlushSwitch`; a change of subscriptions goes
on to `WriteIrqEn`, INIT to `evr_output_enable`. The handler's steps are its register
accesses; a direct ioctl is two steps. `PutBack` is what a write of CTRL does that sets
some other bit: `overwritten` remembers that the RAM selected was changed by it, until
the next flush. PULSE stands for the three flags that are cleared and notified the same
way. Registers of pulse generators are one bit each, programmed or not, because only
the holder of the lock writes them. The card's own behaviour (`ArriveEvent`,
`ArrivePulse`, `RaisedFlags`) is what the driver relies on. `InitWhileSubscribed` says
whether INIT may be called while anything is subscribed. At first the RAM in use is blank,
because `hw_support_evr_init` flushes an empty map (`evr.c:569`); the other RAM holds
anything out of `LeftBehind`, any pulse generators may be programmed, and none counts as
initialised. The handler's write of IRQFLAG_EVENT after its loop over the FIFO
(`evr-irq-events.c:169`) changes nothing here: the flag is taken to be up exactly while the
FIFO holds something, which is how the loop uses it.

**DataBuffer** (`evr-irq-events.c`, 78-138 and 263-283). The handler copies the buffer into
the mapped memory a word at a time, reads DATA_BUF_CTRL (`IsrRearm`), writes it back with
LOAD (`IsrLoad`), queues the event and clears the flag; `on_subscribe_change` writes the
same register under another lock (`ChangeBuffer`), then the interrupt enables. An
application takes the event and reads the memory a word at a time. `HandlerInTime` says
that the handler ends before the next buffer is received, `ReaderInTime` that a buffer is
read before. `overtaken` is history: the handler wrote an old MODE back.

**ModuleLifecycle** (`main_evrma.c`; `mng-dev.c`, 1541-1862; `virt-dev.c`, 885-991).
`stage` is how far `evrma_init` or `evrma_fini` is; every acquisition may fail, and
what its error path does is in the same step. A class, a table and the character devices
in it are a layer, built alike by `mng-dev.c` and `virt-dev.c`. Cards are probed
and removed, and files opened and closed, at any time in between. The stage `oops` stands
for what the kernel does after a null or freed pointer was followed.

## 3. The runs that pass

| run | instance | properties |
|---|---|---|
| `packet_queue` | ring of 4, 6 events, 2 readers, payloads of 0 or 1 byte | `NoSlotSharing`, `FifoDelivery`, `LossIsAnnounced` |
| `vdev_read` | ring of 4, 2 events, 1 notification, 2 threads that read (blocking or not) or poll, buffers for one event or two | `NoLostWakeup`, `EveryEventTaken` |
| `event_dispatch` | 3 VIRT_DEVs, 2 events, rows of 2, two opens; no DESTROY of an open VIRT_DEV, no open before the probe ends | `OnlyOpenSubscribed`, `HardwareFollowsList`, `ImplementsSubscriptions` |
| `resource_manager` | 2 ids, 2 names (symmetric), tables of 2, 2 pulse generators, 3 outputs of two kinds, two opens | `TablesAgree`, `OwnPulses`, `LastCloseInitialises`, `PoolTakesShortest` |
| `hot_unplug` | 3 threads, 1 VIRT_DEV, the removal of the card; VIRT_DEVs opened at any time; every habit but `open_while_managing` left out | `RefCountExact`, `NoUseAfterFree`, `MappingsGone`, `ImplementsLifetime`, `EventuallyFreed` |
| `pci_card` | 3 cards, 2 slots, 3 devices in all, 1 file open on each | `IsrOnLivingDevice`, `ActivityExact`, `NoStrayIrq`, `RefsMatchFiles`, `RemoveEnds` |
| `evr_hardware` | 2 rows, 2 pulse generators, the other RAM full of old rows, a FIFO of 1, a limit of 2 events per interrupt, 1 thread with direct ioctls, 3 calls under the lock | `MapRamInEffect`, `HardwareProduces`, `InitialisedIsQuiet`, `StatusAnnounced` |
| `data_buffer` | buffers of 2 words, 3 buffers, 4 changes of subscriptions | `ReceptionGoesOn`, `ReadsOneBuffer` |
| `module_lifecycle` | 3 slots (one of them the test device's), memory for 4 devices, 2 files on each, 2 regions | `NothingLeft`, `NothingDangles` |

Each run also checks the module's type invariant. Why the bounds are enough:

- a ring of 4 has the ordinary slots, the slot of the overflow event and the slot that
  is never filled; with 6 events it fills, is drained and wraps around. The proofs hold
  for every ring size of 2 or more.
- two readers are the least that compete for a slot or for a wake-up; readers are
  interchangeable.
- rows of 2 for 3 VIRT_DEVs make a full row and a removal from its front possible;
  two events let one row change while the other must not.
- two pulse generators of different lengths and two filters, one both satisfy and one
  only the longer does, are the least for which the pool has a choice to make.
- three outputs for tables of two make ALLOC overflow a table, after which one output is
  owned and not listed. One is of the second kind and two of the third, so that the
  start indices are computed and a second register of a kind is; that no two outputs share
  a register, on a card with any number of them, is proved. The run's VIEW takes as one the
  states that differ only in registers nobody reads, those of outputs that were not set
  since they have their owner, and the states after the removal of the card that differ only
  in what no call can reach any more.
- in HotUnplug one thread manages, and two use the same VIRT_DEV, so that a file stays
  open when another is closed. `MaxRefs` matters only with the habit that leaks
  references. The same properties hold with two VIRT_DEVs (209 385 states), which the run
  leaves out for its time.
- with 3 cards for 2 slots a card is refused, two are removed side by side, and one takes
  a slot that another gave up. The proofs hold for any number of each.
- three calls under the lock are enough to subscribe, change the map and take one of them
  back, or to use two pulse generators and close one, with two flushes interrupted; any
  number of events, interrupts and direct ioctls come in between. Both RAMs have been
  written then. With a FIFO of 1 it overflows at once, and the handler still goes round
  its loop when an event arrives while it runs. Two rows tell the row that is written
  from the one that is still to be. Pulse generators are interchangeable, so the run
  uses their symmetry (it checks no liveness).
- in DataBuffer two words are the least a reader can get from two buffers; three buffers
  and four changes let the reception be started, kept, stopped and started again with a
  flag left from before. The proofs hold for any size.
- in ModuleLifecycle three slots are the test device and two cards; with four devices one
  removed device can stay open while its slot is taken again. Two regions are a load that
  fails and keeps its numbers, and the load after it.

Fairness. In VdevRead, an interrupt handler that has begun runs to its end (weak
fairness of its steps), a thread in the driver that can run does, and an application
that has left the driver reads again. Whether more events come is not assumed. That
is what the kernel's scheduler gives; the reader's spin lock is not assumed fair, since
weak fairness of `Inside` is enough for the properties. `EveryEventTaken` needs the
notifications to pause, because `read_get` prefers them. In HotUnplug, steps that wait
for a mutex get strong fairness, because Linux mutexes are handed over to waiters; every
application closes its file in the end (the kernel does it when the process dies), and
the removal, once begun, is carried through. In PciCard a handler that has begun ends,
free_irq returns after it, and the kernel carries a removal through; that interrupts
fire or that cards come is not assumed. The other modules have no
liveness property. Signals and new calls are never assumed.

Deadlock is checked where the system cannot stop. It is off for EventDispatch,
ResourceManager and HotUnplug, which stop once the card is gone and all is closed, for
PciCard and DataBuffer, which stop when the bound on devices, buffers or changes is
reached, and for ModuleLifecycle, which stops at `oops` and when no region may be taken
any more.

`HandlerInTime` and `ReaderInTime` are TRUE in the run: without the first `ReceptionGoesOn`
fails, without the second `ReadsOneBuffer`. `ReaderInTime` is what `linux-evrma.h:341` says
is assumed; `HandlerInTime` is how the code must be read to work at all, see section 4.

## 4. The runs that find a disagreement

| run | property | what TLC shows |
|---|---|---|
| `packet_queue_overflow` | `OnlyPutEntriesReceived` | When the overflow event is already in the queue and a reader frees one slot, the next put writes nothing but still moves the head (`packet-queue.c:79`). The reader gets what the slot held: an old event again, or uninitialised memory. |
| `hot_unplug_unmap` | `NoUseAfterFree` | `devref_forall_inodes` keeps the next node of the list across a callback that runs unlocked (`devref.h:258`). A file closed meanwhile frees that node; the walk goes on from it. |
| `hot_unplug_locks` | `RefLockReleased` | `vdev_open` takes `vdev_table_mutex`, then the devref lock; CREATE and DESTROY take them the other way round, and both wait for ever. |

Seen while modelling, without a run of their own:

- the second open of the MNG_DEV returns -EBUSY and keeps the reference it took
  (`mng-dev.c:545`); the device is never freed. With the habit `two_managers`
  `RefCountExact` and `ImplementsLifetime` fail.
- DESTROY does not look at `usage_counter` and frees a VIRT_DEV that is open
  (`mng-dev.c:822`). With the habit `destroy_open` `NoUseAfterFree` fails. The file left
  open can still SUBSCRIBE, which puts the freed descriptor back on the dispatch list: with
  `DestroyWhileOpen` TRUE `OnlyOpenSubscribed` fails in 8 states, while the other
  properties of EventDispatch hold.
- after the removal has put its reference, `drvdat_put` reads `mngdev->des->name` for a
  message (`mng-dev.c:221-224`), though the lock is released and the last close on another
  CPU may have freed `mngdev`. With the habit `close_while_postponing` `NoUseAfterFree` fails
  in 11 states.
- ALLOC ignores the result of `vdev_on_res_add` (`mng-dev.c:868`). A VIRT_DEV with 32 outputs
  that is given another owns it without listing it: no ioctl can use it, and nobody else
  can have it until DESTROY. Only a PXIe-EVR-300I (74 outputs) or PXIe-EVR-300U (62) has
  that many (`evr.c:168-189`), and `pci-evr.c:771-780` selects neither today.
- the last close of a VIRT_DEV initialises its pulse generators, but `init_res` does nothing
  to its outputs, which keep what OUTSET gave them (`evr.c:1259`).
- once a slot has been wiped for the next card, the files left from the device before
  find a null `priv`, which their close follows (`mng-dev.c:1391`). When a VIRT_DEV left
  from a removed card is destroyed at last, the entry of the table at its id is cleared,
  which may be that of a new VIRT_DEV by now (`virt-dev.c:847-860`).
- loading: when `cdev_add` fails, the table is freed and then searched for character
  devices (`mng-dev.c:1835-1846`, `virt-dev.c:967-978`); when `modac_rm_init` fails, cleanup
  goes through a pointer that is set only later (`mng-dev.c:1633`); unloading destroys the
  test device even if it could not be created; a load that fails at `modac_mngdev_init`
  keeps its device numbers (`main_evrma.c:83`). The first three are `oops` in
  ModuleLifecycle, and `NothingLeft` says nothing of them.
- a data buffer received between the handler's write of LOAD and its write of IRQFLAG has
  its flag cleared unseen, and the reception stops for good (`evr-irq-events.c:111-138`):
  hence `HandlerInTime`. A MODE read before a change of subscriptions and written back after
  it undoes the change (`overtaken`). A flag that was left when the reception stopped makes
  an event with old data after the next subscription.
- events that are in the FIFO when a subscription ends go to whoever subscribes to that
  code before the handler reads them.
- `ret` is still the default -ENOSYS of line 690 when CREATE with an explicit id tests it
  (`mng-dev.c:774`): such a CREATE never succeeds, though `linux-modac.h:84` offers it.
- `modac_mngdev_create` publishes the device, then tells the hardware to deliver nothing,
  without a lock (`mng-dev.c:1678`). A subscription made in between is on the list but not
  in the hardware. `HardwareFollowsList` is checked and proved with `OpenWhileProbing`
  FALSE.
- INIT clears the save bits of events that are subscribed (`evr.c:783`); they come back
  with the next change of subscriptions. `HardwareProduces` is checked with
  `InitWhileSubscribed` FALSE.
- a direct ioctl, or the handler after an overflow, that read CTRL before a flush and
  writes it after it switches the mapping RAM back (`evr.c:676`,
  `evr-irq-events.c:175`): the EVR runs the former map until the next flush. The properties
  of EvrHardware make the exception explicit (`overwritten`).
- `irq_enabled` is set although request_irq failed (`pci-evr.c:615`); activity becomes 2
  only after the device can be opened (`pci-evr.c:704`), so a subscription made in between
  turns no interrupt on; external devices skip the activity counter altogether
  (`pci-evr.c:1052`).
- DESTROY frees resources without `init_res`, so the next owner inherits their settings.
- after the removal of the card read, poll and direct ioctls of an open file still work
  until the last close, and a sleeping reader is not woken.
- between `modac_vdev_table_reset` and `devref_invalidate` a CREATE can enter a new
  VIRT_DEV in the table.
- PULSE_PROP_GET masks with the complement of the bit it asks for (`evr.c:1011`), so what it
  reports as enabled or inverted is something else.

## 5. What is proved

The theorems hold for every value of the constants that the named assumptions allow
(`QueueAssumption`, `ReadAssumption`, `DispatchAssumption`, `ResourceAssumption`,
`OutputAssumption`, `PciAssumption`, `HardwareAssumption`, `BufferAssumption`,
`UnplugAssumption`, `LifecycleAssumption`), which TLC evaluates in every run of their
modules. What a theorem needs of the applications or of the timing besides is in its
statement: constants that say what may happen (`Habits`, `OpenWhileProbing`,
`DestroyWhileOpen`, `InitWhileSubscribed`, `HandlerInTime`, `ReaderInTime`). Each was found necessary by TLC:
without it the property fails.

- **EventQueueProofs.** The queue first: `PQInv` is the type invariant together with: what
  each side
  knows of the indices while it is between two steps (the writer's `whead` is `head`,
  and the space it computed is at most the space there is now; the reader's `rtail` is
  `tail`, and the queue is not empty), that `published` minus `received` is exactly the
  part of the ring from tail to head, and that `overflow_written` records whether an
  overflow event was published since the last stored event. The key fact is that the
  writer's view of the space can only be too small and the reader's view of the count
  likewise. The theorems are `PQTypeCorrect`, `PQNoSlotSharing`, `PQReturnedLength`,
  `PQFifo` and `PQLossAnnounced`.

  Then the reading of a VIRT_DEV. `VDTypeCorrect`: in particular the room left in the
  reader's buffer, a signed int that the code compares with an unsigned size, is never taken
  below zero. Every step of VdevRead is a step of PacketQueue or leaves its variables alone
  (the lemma `VDImplementsQueue`), so its invariant carries over. `VDNoLostWakeup` rests on `WakeInv`: a
  thread that has joined the wait queue and found nothing is either still right, or has
  been taken off the queue, or the put that proves it wrong has its wake-up ahead.
- **EventDispatchProofs.** `EDInv` (type, rows are sets, subscribers have a file open, and
  what `all_subscriptions` says while a change is under way) gives `EDTypeCorrect`,
  `EDRowsAreSets` and `EDSubscribersHaveFiles`, whatever is destroyed. If no open VIRT_DEV is
  (`DestroyWhileOpen` FALSE), whoever has a file open exists: `EDOnlyOpenSubscribed`. With `ProbeInv`, and if nobody opens
  the device before the probe ends, `EDHardwareFollowsList`. `EDImplementsSubscriptions` is the refinement of
  Subscriptions: a row stands for the set of its members, and the walk of a row without
  gap or duplicate calls each of them once.
- **ResourceManagerProofs.** `RMInv`, the type invariant with `TablesAgree`, is inductive.
  The step that needs an argument is ALLOC, whose result of `vdev_on_res_add` the code
  ignores: the new resource is listed, or the table is full and stays so. From it follow
  `RMTablesAgree`, `RMNeverTakenAway` and `RMOpenKeepsResources`. A table lists different
  existing resources, so by the pigeonhole lemma `RoomForOne` a table that has a place for
  every resource of its type is not full while one is missing (`OwnedIsListed`). That holds
  of the pulse generators of every card (`ResourceAssumption`: evr.c defines 16 at most), so
  the last close, which goes by the table, initialises all the VIRT_DEV owns
  (`RMLastCloseInitialises`); and of the outputs on a card with at most 32, where owners and
  tables agree exactly (`RMTablesExact`). Every step of EvrOutputs is one of ResourceManager
  (the lemma `OUImplementsRM`), so all of this holds with the outputs as well
  (`OUKeepsPromises`). `OUOwnPulses` needs
  three things more: no two outputs share a register (`OutRegOne`, from the places of the
  three kinds in the map), sources other than pulse generators are told from them by their
  number, and a resource is never taken from an owner that stays (`NeverTakenStep`).
  `OUTypeCorrect` comes from the same invariant.
  `RMPoolTakesShortest` is arithmetic: a pulse generator is suitable only if each property
  is at least as long as is wanted and by no more than 32 bits longer (`SuitsExact`), and of
  two the shorter has the larger sum (`ShorterSuitsBetter`), whether or not the longer one
  is suitable at all.

- **PciCardProofs.** The invariant is in four parts. `SlotInv`: the cards between probe and
  the end of their removal and the slots in use correspond one to one, so that the phase
  of a slot is the progress of its card (`Phase`). `IrqInv`: by phase and progress of the
  handler, what activity is and whether the interrupt can be requested or a handler be
  inside; it gives `PCActivityExact` and `PCNoStrayIrq`. `DeviceInv`: by phase, what `priv`
  points to; with `IrqInv` it gives `PCIsrOnLivingDevice`. `RefInv`:
  no device has fewer references than files, and one that is valid is still the one its
  slot points to. That no new device enters a slot while the old one exists is
  `NameInUse` in `ProbeCreate`; so a close gives back the reference that its open took, or
  finds a null pointer, which is `PCRefsMatchFiles`.

- **EvrHardwareProofs.** The types of the records need to know that the handler reads the
  FIFO only while something is in it and its limit is not reached (`IsrInv`), and that the
  flush's row stays in the map (`LockInv`). `StatusAnnounced` is inductive with `IsrInv`,
  because the handler resets and clears FULL only if it has read it:
  `EHStatusAnnounced`. `FlushInv` adds which rows of the RAM not in use are already those
  of the driver's map, and that this RAM is still the one not in use unless CTRL was
  written back: `EHMapRamInEffect`. What the driver's map says is in `ProducesInv` (the save
  bits are the subscriptions; needs that INIT is not called while anything is subscribed)
  and `QuietInv` (an initialised pulse generator is in no row). Each carries over to the
  map in use by `FlushInv`: `EHHardwareProduces` and `EHInitialisedIsQuiet`.

- **DataBufferProofs.** `CardInv`: while MODE is up the card is armed, or its flag is up
  and the handler has yet to write LOAD for it; `ChangeInv`: the progress of a change says
  which of the mode and the enables already follow the subscriptions, unless an old MODE
  was written back. With `HandlerInTime` they give `DBReceptionGoesOn`.
  `SlotInv`: the words below the handler's are those of the last buffer received, and while
  a DBUF_DATA event is queued or being read all of them are; with both constants TRUE it
  gives `DBReadsOneBuffer`. `DBTypeCorrect` needs neither.

- **HotUnplugProofs.** Five invariants; the last three need the first two.
  - `PlaceInv`: which file and which VIRT_DEV a thread has at each place of the code, which
    mutex it holds, and what the tables and the pointer say while the mutexes allow it. It
    excludes no habit.
  - `RefInv`: no reference is used that is not counted (`RefsCovered`, an inequality), and one
    thread at most destroys the device, when the count is 0 (`OneReaper`). It excludes no
    habit either, for a count that is too high never frees too early. `StepRefs` sorts the
    steps by what they do to the references: take one, give one back, leak one, or keep all.
  - `VdevInv`: an open file has its VIRT_DEV, and the count of direct calls is exact.
  - `WalkInv`: the walk's saved node stays in the list, every mapping belongs to an
    inode still to be visited, and none is left when the walk is over.
  - `PostponedInv`: while the removal has its message before it, somebody holds a reference,
    so the device is not freed.

  From these follow `HUTypeCorrect`, `HUNoUseAfterFree` and `HUMappingsGone`. The exact count,
  `HURefCountExact`, needs that the MNG_DEV is not opened twice (`OneManager`), since the
  second open forgets its reference; `HUImplementsLifetime` needs the exact count, for the
  abstract device is freed by the last holder, and a forgotten reference has none. The
  refinement is proved per step: the holders are the threads with a reference, the driver
  until it puts its own, and whoever is freeing the device.

  | theorem | excludes | because |
  |---|---|---|
  | `HUTypeCorrect` | `destroy_open` | a VIRT_DEV destroyed while open and created again starts its count of direct calls afresh |
  | `HUNoUseAfterFree` | `destroy_open`, `close_while_unmapping`, `close_while_postponing` | the first frees what a file uses, the second the node the walk goes on from, the third what the removal reads after its put |
  | `HUMappingsGone` | `close_while_unmapping` | the walk may miss what follows the freed node (seen with two VIRT_DEVs and three threads) |
  | `HURefCountExact`, `HUImplementsLifetime` | `two_managers` | the second open leaks a reference |

  `open_while_managing` (the lock order) is excluded by none: it can only make threads
  wait. So a leaked reference breaks the count and the refinement, but never leads to a use
  after free.

- **ModuleLifecycleProofs.** `LifeInv` says what exists at each stage of a load and an
  unload, as long as no bad pointer was followed: how far each layer is built (`LayersInv`);
  that a MNG_DEV exists as a whole or not at all, and only in the stages where both layers
  are complete (`DevicesInv`); that the region and the driver are held while they are needed
  (`StageInv`). `LifeTypeCorrect` and `LifeNothingDangles` come from it at once;
  `LifeNothingLeft` because the stage `absent` is one where no layer is built and no MNG_DEV can
  exist. A load or an unload that followed a bad pointer never gets there, so the theorem
  is about those that did not: a failing `cdev_add` or `modac_rm_init`, and an unload without
  the test device, are outside it.

Theorems about formulas that no run checks, because the runs' properties imply or
supersede them, or because they are about more or fewer cards or habits than the run:
`PQReturnedLength`, `EDRowsAreSets`, `EDSubscribersHaveFiles`, `RMTablesExact`,
`RMNeverTakenAway`, `RMOpenKeepsResources`.

Only model-checked: liveness (`EveryEventTaken`, `EventuallyFreed`, `RemoveEnds`), because
TLAPS does not prove properties that rest on fairness or ENABLED; and the runs of section
4, whose properties do not hold. Every other property of the runs is a theorem.

## 6. Not modelled, and the plan

Not modelled: formats of ioctl arguments, `copy_from_user` failures before any state is
touched, memory allocation failures in the open paths other than that of the inode's
node.

- `evr-sim.c` is a test double of the hardware, without logic of its own.
- `evr-dbg.c` prints registers: pure I/O. The sysfs attributes print as well, or set debug
  values; the one that changes state, `store_config`, is in ResourceManager.
- `plx.c` and the other bridge code set registers once and read nothing back.
- External devices (`evrma_core_api_external_*`): the driver that calls them is not in this
  repository. Whether its interrupts may meet its removal, and whether it requested the
  interrupt that `pci-evr.c:1052` gives back, is up to it.
- The detection of the card's kind picks one of the tables of `evr.c`; the constants of
  the modules stand for any of them, those with 74 and 62 outputs included.
- What an application does with a file left open on a destroyed VIRT_DEV, beyond the
  subscriptions of EventDispatch: in ResourceManager DESTROY forgets the descriptor, and in
  HotUnplug the use of it is where `NoUseAfterFree` fails.
- `DBG_MEASURE_TIME_FROM_IRQ_TO_USER` is off.

Next, in this order:

1. PciCard and HotUnplug composed: slots and the references behind them, with the proof
   that what each assumes of the other (`NameInUse`, the device freed at the
   last close) is what the other does.
2. EventDispatch and VdevRead composed: an event of the interrupt reaches the queue of each
   subscriber, with the proof that the dispatch is a writer as PacketQueue describes it.
