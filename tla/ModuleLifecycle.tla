--------------------------- MODULE ModuleLifecycle ---------------------------
(***************************************************************************)
(* Loading and unloading the driver: evrma_init and evrma_fini of          *)
(* main_evrma.c and the init and fini functions they call, of which each   *)
(* may fail and must undo what was done before it, against cards that are  *)
(* probed and removed and applications that open their files.              *)
(*                                                                         *)
(* mng-dev.c and virt-dev.c build the same three things, a class, a table  *)
(* and the character devices embedded in it: a layer here.  What happens   *)
(* to an open device is in HotUnplug, to the slots of cards and to the     *)
(* files of VIRT_DEVs, which depend on them, in PciCard.                   *)
(***************************************************************************)
EXTENDS Integers, Sequences, FiniteSets

CONSTANTS
  SlotCount,   \* mngdev_table_size = vdev_table_size = MAX_MNG_DEVS
  Objects,     \* the memory of struct mngdev_data that kmalloc can give
  NULL,        \* no object
  MaxRegions,  \* bound: device number regions taken and not given back
  MaxFiles     \* bound: files open on one MNG_DEV

ASSUME LifecycleAssumption ==
  /\ SlotCount \in Nat \ {0, 1}
  /\ NULL \notin Objects
  /\ MaxRegions \in Nat /\ MaxFiles \in Nat

Slots == 0 .. SlotCount - 1
TestSlot == SlotCount - 1     \* of test_mngdev_des
CardSlots == Slots \ {TestSlot}
Layers == {"mng", "vdev"}

\* What modac_mngdev_create acquires, in this order.
Parts == <<"priv", "hw", "rm", "dev">>
AllParts == {"priv", "hw", "rm", "dev"}
FirstParts(i) == {Parts[j] : j \in 1 .. i}

VARIABLES
  stage,          \* how far evrma_init or evrma_fini is
  region,         \* regions of device numbers held
  class, table,   \* per layer: times created minus times destroyed
  cdevs,          \* per layer: slots whose character device is registered
  driver,         \* the PCI driver is registered
  parts,          \* per object: what of the MNG_DEV exists
  home,           \* per object: its slot
  mngdev_table,   \* per slot: the MNG_DEV that open finds
  priv,           \* per slot: the devdes->priv that destroy uses
  files           \* per object: files of the MNG_DEV open on it

layerVars == <<class, table, cdevs>>
deviceVars == <<parts, home, mngdev_table, priv, files>>
lifeVars == <<stage, region, layerVars, driver, deviceVars>>

\* "oops": a null, freed or uninitialised pointer has been followed, and what
\* the kernel does next is undefined.
LoadStages == {"mng_class", "mng_table", "mng_cdev", "vdev_class", "vdev_table",
               "vdev_cdev", "mng_undo", "test", "pci"}
UnloadStages == {"pci_fini", "test_fini", "vdev_fini", "mng_fini", "region_fini"}
Stages == LoadStages \cup UnloadStages \cup {"absent", "live", "oops"}

LifeTypeOK ==
  /\ stage \in Stages
  /\ region \in 0 .. MaxRegions
  /\ class \in [Layers -> Int] /\ table \in [Layers -> Int]
  /\ cdevs \in [Layers -> SUBSET Slots]
  /\ driver \in BOOLEAN
  /\ parts \in [Objects -> SUBSET AllParts]
  /\ home \in [Objects -> Slots]
  /\ mngdev_table \in [Slots -> Objects \cup {NULL}]
  /\ priv \in [Slots -> Objects \cup {NULL}]
  /\ files \in [Objects -> 0 .. MaxFiles]

LifeInit ==
  /\ stage = "absent"
  /\ region = 0
  /\ class = [k \in Layers |-> 0] /\ table = [k \in Layers |-> 0]
  /\ cdevs = [k \in Layers |-> {}]
  /\ driver = FALSE
  /\ parts = [d \in Objects |-> {}]
  /\ home = [d \in Objects |-> 0]
  /\ mngdev_table = [s \in Slots |-> NULL]
  /\ priv = [s \in Slots |-> NULL]
  /\ files = [d \in Objects |-> 0]

-----------------------------------------------------------------------------
(* One layer: modac_mngdev_init or modac_vdev_init, and cleanup_sys.       *)

\* cleanup_sys falls through from the case named to the class.
CleanSys(k, what) ==
  /\ cdevs' = IF what = "cdev" THEN [cdevs EXCEPT ![k] = {}] ELSE cdevs
  /\ table' = IF what \in {"cdev", "table"} THEN [table EXCEPT ![k] = @ - 1] ELSE table
  /\ class' = [class EXCEPT ![k] = @ - 1]

InitClass(k, here, next, failed) ==
  /\ stage = here
  /\ \/ class' = [class EXCEPT ![k] = @ + 1] /\ stage' = next
     \/ UNCHANGED class /\ stage' = failed
  /\ UNCHANGED <<region, table, cdevs, driver, deviceVars>>

InitTable(k, here, next, failed) ==
  /\ stage = here
  /\ \/ table' = [table EXCEPT ![k] = @ + 1] /\ stage' = next /\ UNCHANGED <<class, cdevs>>
     \/ CleanSys(k, "class") /\ stage' = failed
  /\ UNCHANGED <<region, driver, deviceVars>>

\* cdev_add, a slot at a time.
InitCdev(k, here, next) ==
  /\ stage = here
  /\ \E s \in Slots \ cdevs[k] :
       /\ \A t \in Slots \ cdevs[k] : s <= t
       /\ cdevs' = [cdevs EXCEPT ![k] = @ \cup {s}]
       /\ stage' = IF s = SlotCount - 1 THEN next ELSE here
  /\ UNCHANGED <<region, class, table, driver, deviceVars>>

\* When cdev_add fails cleanup_sys is called twice: CLEAN_SYS_TABLE frees the
\* table, and CLEAN_SYS_CDEV then looks for character devices in it.
CdevFails(k, here) ==
  /\ stage = here
  /\ CleanSys(k, "table")
  /\ stage' = "oops"
  /\ UNCHANGED <<region, driver, deviceVars>>

MngInitClass == InitClass("mng", "mng_class", "mng_table", "absent")
MngInitTable == InitTable("mng", "mng_table", "mng_cdev", "absent")
MngInitCdev == InitCdev("mng", "mng_cdev", "vdev_class")
MngCdevFails == CdevFails("mng", "mng_cdev")
VdevInitClass == InitClass("vdev", "vdev_class", "vdev_table", "mng_undo")
VdevInitTable == InitTable("vdev", "vdev_table", "vdev_cdev", "mng_undo")
VdevInitCdev == InitCdev("vdev", "vdev_cdev", "test")
VdevCdevFails == CdevFails("vdev", "vdev_cdev")

\* modac_vdev_init has failed.
MngUndo ==
  /\ stage = "mng_undo"
  /\ CleanSys("mng", "cdev")
  /\ stage' = "absent"
  /\ UNCHANGED <<region, driver, deviceVars>>

-----------------------------------------------------------------------------
(* modac_mngdev_create and modac_mngdev_destroy.                           *)

\* The name and number of a device stay taken until device_destroy.
NameInUse(s) == \E d \in Objects : "dev" \in parts[d] /\ home[d] = s

Create(s, d) ==
  /\ parts[d] = {} /\ ~NameInUse(s) /\ mngdev_table[s] = NULL
  /\ parts' = [parts EXCEPT ![d] = AllParts]
  /\ home' = [home EXCEPT ![d] = s]
  /\ mngdev_table' = [mngdev_table EXCEPT ![s] = d]
  /\ priv' = [priv EXCEPT ![s] = d]
  /\ UNCHANGED files

\* Variant with a fault: cleanup does not fall through.
CleanupBreaks(i) == FirstParts(i) \ FirstParts(i - 1)

\* cleanup of a part falls through to those acquired before it.
Cleanup(i) == FirstParts(i)

\* Part i cannot be had: the name of the device may be taken, all others may
\* fail at any time.
CreateFails(s, d, i) ==
  /\ parts[d] = {}
  /\ parts' = [parts EXCEPT ![d] = FirstParts(i - 1) \ Cleanup(i - 1)]
  /\ priv' = [priv EXCEPT ![s] = NULL]
  /\ UNCHANGED <<home, mngdev_table, files>>

\* When modac_rm_init fails, cleanup calls hw_support->end through mngdev->des,
\* which nobody has set yet (it is set at line 1641).
CreateOops(s, d) ==
  /\ parts[d] = {}
  /\ parts' = [parts EXCEPT ![d] = FirstParts(2)]
  /\ priv' = [priv EXCEPT ![s] = NULL]
  /\ UNCHANGED <<home, mngdev_table, files>>

\* Destroyed now, or by the last close.
Destroy(s) ==
  LET d == priv[s] IN
    /\ mngdev_table' = [mngdev_table EXCEPT ![s] = NULL]
    /\ parts' = IF files[d] = 0 THEN [parts EXCEPT ![d] = {}] ELSE parts
    /\ UNCHANGED <<home, priv, files>>

-----------------------------------------------------------------------------
(* evrma_init and evrma_fini.                                              *)

InitRegion ==
  /\ stage = "absent" /\ region < MaxRegions
  /\ region' = region + 1
  /\ stage' = "mng_class"
  /\ UNCHANGED <<layerVars, driver, deviceVars>>

\* The test device; a failure is only reported.
InitTest ==
  /\ stage = "test"
  /\ \E d \in Objects :
       \/ Create(TestSlot, d) /\ stage' = "pci"
       \/ \E i \in {1, 2, 4} : CreateFails(TestSlot, d, i) /\ stage' = "pci"
       \/ CreateOops(TestSlot, d) /\ stage' = "oops"
  /\ UNCHANGED <<region, layerVars, driver>>

\* The result of evrma_pci_init is ignored.
InitPci ==
  /\ stage = "pci"
  /\ driver' \in BOOLEAN
  /\ stage' = "live"
  /\ UNCHANGED <<region, layerVars, deviceVars>>

\* Variant with a fault: the character devices have no owner.
ModuleRefsNone == {}

\* The character devices belong to the module (cdev.owner): an open file keeps it.
ModuleRefs == {d \in Objects : files[d] > 0}

\* The kernel unloads a module nobody uses.
Rmmod ==
  /\ stage = "live" /\ ModuleRefs = {}
  /\ stage' = "pci_fini"
  /\ UNCHANGED <<region, layerVars, driver, deviceVars>>

Bound(s) == mngdev_table[s] # NULL

\* pci_unregister_driver removes every card first.
PciFini ==
  /\ stage = "pci_fini"
  /\ \/ /\ \E s \in CardSlots : Bound(s) /\ Destroy(s)
        /\ UNCHANGED <<stage, driver>>
     \/ /\ ~ \E s \in CardSlots : Bound(s)
        /\ driver' = FALSE /\ stage' = "test_fini"
        /\ UNCHANGED deviceVars
  /\ UNCHANGED <<region, layerVars>>

\* Nothing remembers whether the test device was created.
TestFini ==
  /\ stage = "test_fini"
  /\ \/ priv[TestSlot] # NULL /\ Destroy(TestSlot) /\ stage' = "vdev_fini"
     \/ priv[TestSlot] = NULL /\ stage' = "oops" /\ UNCHANGED deviceVars
  /\ UNCHANGED <<region, layerVars, driver>>

LayerFini(k, here, next) ==
  /\ stage = here
  /\ CleanSys(k, "cdev")
  /\ stage' = next
  /\ UNCHANGED <<region, driver, deviceVars>>

VdevFini == LayerFini("vdev", "vdev_fini", "mng_fini")
MngFini == LayerFini("mng", "mng_fini", "region_fini")

RegionFini ==
  /\ stage = "region_fini"
  /\ region' = region - 1
  /\ stage' = "absent"
  /\ UNCHANGED <<layerVars, driver, deviceVars>>

-----------------------------------------------------------------------------
(* Cards and applications.                                                 *)

\* A card is put into a free slot while the driver is registered.
CardProbed(s) ==
  /\ stage = "live" /\ driver /\ ~Bound(s)
  /\ \E d \in Objects :
       \/ Create(s, d) /\ UNCHANGED stage
       \/ \E i \in {1, 2, 4} : CreateFails(s, d, i) /\ UNCHANGED stage
       \/ CreateOops(s, d) /\ stage' = "oops"
  /\ UNCHANGED <<region, layerVars, driver>>

CardRemoved(s) ==
  /\ stage = "live" /\ driver /\ Bound(s)
  /\ Destroy(s)
  /\ UNCHANGED <<stage, region, layerVars, driver>>

\* A character device can be opened from cdev_add on, but not during an unload.
Open(s) ==
  /\ stage \notin UnloadStages \cup {"oops"}
  /\ s \in cdevs["mng"] /\ Bound(s)
  /\ files[mngdev_table[s]] < MaxFiles
  /\ files' = [files EXCEPT ![mngdev_table[s]] = @ + 1]
  /\ UNCHANGED <<stage, region, layerVars, driver, parts, home, mngdev_table, priv>>

\* Variant with a fault: release is called for an open that failed.
CloseUnbalanced(d) ==
  /\ stage # "oops"
  /\ files' = [files EXCEPT ![d] = @ - 1]
  /\ UNCHANGED <<stage, region, layerVars, driver, parts, home, mngdev_table, priv>>

\* The last close of a device that has been removed destroys it.
Close(d) ==
  /\ stage # "oops" /\ files[d] > 0
  /\ files' = [files EXCEPT ![d] = @ - 1]
  /\ parts' = IF files[d] = 1 /\ mngdev_table[home[d]] # d
              THEN [parts EXCEPT ![d] = {}] ELSE parts
  /\ UNCHANGED <<stage, region, layerVars, driver, home, mngdev_table, priv>>

Load ==
  \/ InitRegion
  \/ MngInitClass \/ MngInitTable \/ MngInitCdev \/ MngCdevFails
  \/ VdevInitClass \/ VdevInitTable \/ VdevInitCdev \/ VdevCdevFails
  \/ MngUndo \/ InitTest \/ InitPci
Unload == Rmmod \/ PciFini \/ TestFini \/ VdevFini \/ MngFini \/ RegionFini

LifeNext ==
  \/ Load \/ Unload
  \/ \E s \in CardSlots : CardProbed(s) \/ CardRemoved(s)
  \/ \E s \in Slots : Open(s)
  \/ \E d \in Objects : Close(d)

LifeSpec == LifeInit /\ [][LifeNext]_lifeVars

-----------------------------------------------------------------------------
(* Properties.                                                             *)

\* When the driver is not loaded, after an unload as after a load that failed where
\* the error path survives, nothing of it is left but the region, which evrma_init
\* does not give back when modac_mngdev_init fails (main_evrma.c:80).  A cdev_add
\* or modac_rm_init that fails and an unload without the test device end in "oops",
\* not in "absent": of them nothing is said.
NothingLeft ==
  stage = "absent" =>
    /\ \A k \in Layers : class[k] = 0 /\ table[k] = 0 /\ cdevs[k] = {}
    /\ ~driver
    /\ \A d \in Objects : parts[d] = {}

\* Nothing outlives what it stands on: a character device the table it is embedded
\* in; a MNG_DEV, which the last close of a removed card may destroy at any time,
\* the class and the tables; an open file its MNG_DEV.
NothingDangles ==
  stage # "oops" =>
    /\ \A k \in Layers :
         /\ class[k] \in {0, 1} /\ table[k] \in {0, class[k]}
         /\ cdevs[k] # {} => table[k] = 1
    /\ \A d \in Objects :
         /\ parts[d] # {} => \A k \in Layers : table[k] = 1 /\ cdevs[k] = Slots
         /\ files[d] > 0 => parts[d] = AllParts
    /\ \A s \in Slots :
         Bound(s) => parts[mngdev_table[s]] = AllParts /\ priv[s] = mngdev_table[s]
=============================================================================
