----------------------- MODULE ModuleLifecycleProofs -----------------------
(***************************************************************************)
(* Proofs about ModuleLifecycle, for any number of slots and MNG_DEVs.  The *)
(* invariant says what exists at each stage of a load and an unload; what a *)
(* kernel does that has followed a bad pointer is left open.               *)
(***************************************************************************)
EXTENDS ModuleLifecycle, TLAPS

\* The stages in which nothing of a layer exists, and those in which it is being
\* built.
Unbuilt(k) == IF k = "mng" THEN {"absent", "mng_class", "region_fini"}
             ELSE {"absent", "mng_class", "mng_table", "mng_cdev", "vdev_class",
                   "mng_undo", "mng_fini", "region_fini"}
AtTable(k) == IF k = "mng" THEN "mng_table" ELSE "vdev_table"
AtCdev(k) == IF k = "mng" THEN "mng_cdev" ELSE "vdev_cdev"

\* A layer is built and taken down in order.
LayersInv ==
  \A k \in Layers :
    IF stage \in Unbuilt(k)
    THEN class[k] = 0 /\ table[k] = 0 /\ cdevs[k] = {}
    ELSE /\ class[k] = 1
         /\ table[k] = (IF stage = AtTable(k) THEN 0 ELSE 1)
         /\ stage = AtTable(k) => cdevs[k] = {}
         /\ stage \notin {AtTable(k), AtCdev(k)} => cdevs[k] = Slots

\* The stages in which MNG_DEVs exist.
Populated == {"pci", "live", "pci_fini", "test_fini"}

\* A MNG_DEV exists as a whole or not at all, and is in its slot or open; what a
\* slot says is there is.  No file is open during an unload, and the cards are gone
\* when the test device is destroyed.
DevicesInv ==
  /\ \A d \in Objects :
       \/ parts[d] = {} /\ files[d] = 0
       \/ /\ parts[d] = AllParts /\ stage \in Populated
          /\ mngdev_table[home[d]] = d \/ files[d] > 0
  /\ \A s \in Slots :
       Bound(s) => /\ parts[mngdev_table[s]] = AllParts
                   /\ priv[s] = mngdev_table[s] /\ home[mngdev_table[s]] = s
  /\ stage \in Populated => (Bound(TestSlot) <=> priv[TestSlot] # NULL)
  /\ stage \in UnloadStages => \A d \in Objects : files[d] = 0
  /\ stage = "test_fini" => \A s \in CardSlots : ~Bound(s)

\* The region is held and the PCI driver registered while they are needed.
StageInv ==
  /\ stage # "absent" => region > 0
  /\ driver => stage \in {"live", "pci_fini"}

LifeInv == LifeTypeOK /\ (stage # "oops" => LayersInv /\ DevicesInv /\ StageInv)

-----------------------------------------------------------------------------
LEMMA LifeInitial == ASSUME LifeInit PROVE LifeInv
<1> USE LifecycleAssumption DEF LifeInit, Layers, Slots
<1>0. 0 \in Slots /\ 0 \in 0 .. MaxFiles /\ 0 \in 0 .. MaxRegions OBVIOUS
<1>1. LifeTypeOK
  <2> HIDE DEF Slots
  <2>1. home \in [Objects -> Slots] /\ files \in [Objects -> 0 .. MaxFiles]
    BY <1>0
  <2>2. class \in [Layers -> Int] /\ table \in [Layers -> Int]
        /\ cdevs \in [Layers -> SUBSET Slots]
    OBVIOUS
  <2> QED BY <1>0, <2>1, <2>2 DEF LifeTypeOK, Stages
<1>2. LayersInv BY DEF LayersInv, Unbuilt
<1>3. DevicesInv
  BY DEF DevicesInv, Bound, Populated, UnloadStages, TestSlot, CardSlots
<1>4. StageInv BY DEF StageInv
<1> QED BY <1>1, <1>2, <1>3, <1>4 DEF LifeInv

\* A count of classes or tables stays an integer.
LEMMA CountTypes ==
  ASSUME NEW f \in [Layers -> Int], NEW k
  PROVE  /\ [f EXCEPT ![k] = @ + 1] \in [Layers -> Int]
         /\ [f EXCEPT ![k] = @ - 1] \in [Layers -> Int]
<1>1. ASSUME NEW j \in Layers PROVE f[j] + 1 \in Int /\ f[j] - 1 \in Int OBVIOUS
<1> QED BY <1>1

LEMMA CleanTypes ==
  ASSUME LifeTypeOK, NEW k \in Layers, NEW what, CleanSys(k, what)
  PROVE  /\ class' \in [Layers -> Int] /\ table' \in [Layers -> Int]
         /\ cdevs' \in [Layers -> SUBSET Slots]
<1>1. /\ class \in [Layers -> Int] /\ table \in [Layers -> Int]
      /\ cdevs \in [Layers -> SUBSET Slots]
  BY DEF LifeTypeOK
<1>2. class' \in [Layers -> Int] /\ table' \in [Layers -> Int]
  BY <1>1, CountTypes DEF CleanSys
<1>3. cdevs' \in [Layers -> SUBSET Slots] BY <1>1 DEF CleanSys
<1> QED BY <1>2, <1>3

LEMMA PartsOf == FirstParts(2) \subseteq AllParts
<1>1. Parts[1] = "priv" /\ Parts[2] = "hw" BY DEF Parts
<1> QED BY <1>1 DEF FirstParts, AllParts

\* A MNG_DEV is created, fails to be, or is destroyed: the types.
LEMMA DeviceTypes ==
  ASSUME LifeTypeOK, NEW s \in Slots,
         \/ Destroy(s)
         \/ \E d \in Objects : \/ Create(s, d) \/ CreateOops(s, d)
                               \/ \E i \in {1, 2, 4} : CreateFails(s, d, i)
  PROVE  /\ parts' \in [Objects -> SUBSET AllParts] /\ home' \in [Objects -> Slots]
         /\ mngdev_table' \in [Slots -> Objects \cup {NULL}]
         /\ priv' \in [Slots -> Objects \cup {NULL}]
         /\ files' \in [Objects -> 0 .. MaxFiles]
<1> USE DEF LifeTypeOK
<1>1. CASE Destroy(s) BY <1>1 DEF Destroy
<1>2. ASSUME NEW d \in Objects, Create(s, d) PROVE parts' \in [Objects -> SUBSET AllParts]
  BY <1>2 DEF Create
<1>3. ASSUME NEW d \in Objects, Create(s, d)
      PROVE  /\ home' \in [Objects -> Slots]
             /\ mngdev_table' \in [Slots -> Objects \cup {NULL}]
             /\ priv' \in [Slots -> Objects \cup {NULL}]
             /\ files' \in [Objects -> 0 .. MaxFiles]
  BY <1>3 DEF Create
<1>4. ASSUME NEW d \in Objects, CreateOops(s, d)
      PROVE  /\ parts' \in [Objects -> SUBSET AllParts]
             /\ priv' \in [Slots -> Objects \cup {NULL}]
             /\ UNCHANGED <<home, mngdev_table, files>>
  BY <1>4, PartsOf DEF CreateOops
<1>5. ASSUME NEW d \in Objects, NEW i \in {1, 2, 4}, CreateFails(s, d, i)
      PROVE  /\ parts' \in [Objects -> SUBSET AllParts]
             /\ priv' \in [Slots -> Objects \cup {NULL}]
             /\ UNCHANGED <<home, mngdev_table, files>>
  <2>1. FirstParts(i - 1) \ Cleanup(i - 1) = {} BY DEF Cleanup
  <2> QED BY <1>5, <2>1 DEF CreateFails
<1> QED BY <1>1, <1>2, <1>3, <1>4, <1>5

LEMMA TypesStep ==
  ASSUME LifeInv, [LifeNext]_lifeVars
  PROVE  LifeTypeOK'
<1> USE LifecycleAssumption
    DEF LifeTypeOK, Stages, LoadStages, UnloadStages, layerVars, deviceVars
<1>0. LifeTypeOK /\ (stage = "region_fini" => region > 0) BY DEF LifeInv, StageInv
<1>t. TestSlot \in Slots /\ CardSlots \subseteq Slots
  BY DEF TestSlot, Slots, CardSlots
<1>1. ASSUME NEW k \in Layers, NEW here, NEW next \in Stages, NEW failed \in Stages,
             InitClass(k, here, next, failed) \/ InitTable(k, here, next, failed)
      PROVE  LifeTypeOK'
  <2>1. CASE InitClass(k, here, next, failed)
    <3>1. class' \in [Layers -> Int] BY <1>0, <2>1, CountTypes DEF InitClass
    <3> QED BY <1>0, <2>1, <3>1 DEF InitClass
  <2>2. CASE InitTable(k, here, next, failed)
    <3>1. /\ class' \in [Layers -> Int] /\ table' \in [Layers -> Int]
          /\ cdevs' \in [Layers -> SUBSET Slots]
      BY <1>0, <2>2, CountTypes, CleanTypes DEF InitTable
    <3> QED BY <1>0, <2>2, <3>1 DEF InitTable
  <2> QED BY <1>1, <2>1, <2>2
<1>2. ASSUME NEW k \in Layers, NEW here \in Stages, NEW next \in Stages,
             InitCdev(k, here, next)
      PROVE  LifeTypeOK'
  <2>1. cdevs' \in [Layers -> SUBSET Slots] BY <1>0, <1>2 DEF InitCdev
  <2> QED BY <1>0, <1>2, <2>1 DEF InitCdev
<1>3. ASSUME NEW k \in Layers, NEW what, CleanSys(k, what), stage' \in Stages,
             UNCHANGED <<region, driver, deviceVars>>
      PROVE  LifeTypeOK'
  BY <1>0, <1>3, CleanTypes
<1>4. /\ "mng" \in Layers /\ "vdev" \in Layers
      /\ LoadStages \cup {"absent", "oops", "mng_fini", "region_fini"} \subseteq Stages
  BY DEF Layers
<1>5. ASSUME Load PROVE LifeTypeOK'
  <2>1. CASE InitRegion
    <3>1. region' \in 0 .. MaxRegions BY <1>0, <2>1 DEF InitRegion
    <3> QED BY <1>0, <2>1, <3>1 DEF InitRegion
  <2>2. CASE MngInitClass \/ VdevInitClass BY <1>1, <1>4, <2>2 DEF MngInitClass, VdevInitClass
  <2>3. CASE MngInitTable \/ VdevInitTable BY <1>1, <1>4, <2>3 DEF MngInitTable, VdevInitTable
  <2>4. CASE MngInitCdev \/ VdevInitCdev BY <1>2, <1>4, <2>4 DEF MngInitCdev, VdevInitCdev
  <2>5. CASE MngCdevFails \/ VdevCdevFails \/ MngUndo
    BY <1>3, <1>4, <2>5 DEF MngCdevFails, VdevCdevFails, CdevFails, MngUndo
  <2>6. CASE InitTest BY <1>0, <1>t, <2>6, DeviceTypes DEF InitTest
  <2>7. CASE InitPci BY <1>0, <2>7 DEF InitPci
  <2> QED BY <1>5, <2>1, <2>2, <2>3, <2>4, <2>5, <2>6, <2>7 DEF Load
<1>6. ASSUME Unload PROVE LifeTypeOK'
  <2>1. CASE Rmmod BY <1>0, <2>1 DEF Rmmod
  <2>2. CASE PciFini BY <1>0, <1>t, <2>2, DeviceTypes DEF PciFini
  <2>3. CASE TestFini BY <1>0, <1>t, <2>3, DeviceTypes DEF TestFini
  <2>4. CASE VdevFini \/ MngFini BY <1>3, <1>4, <2>4 DEF VdevFini, MngFini, LayerFini
  <2>5. CASE RegionFini
    <3>1. region' \in 0 .. MaxRegions BY <1>0, <2>5 DEF RegionFini
    <3> QED BY <1>0, <2>5, <3>1 DEF RegionFini
  <2> QED BY <1>6, <2>1, <2>2, <2>3, <2>4, <2>5 DEF Unload
<1>7. ASSUME NEW s \in CardSlots, CardProbed(s) \/ CardRemoved(s) PROVE LifeTypeOK'
  BY <1>0, <1>t, <1>7, DeviceTypes DEF CardProbed, CardRemoved
<1>8. ASSUME NEW s \in Slots, Open(s) PROVE LifeTypeOK'
  <2>1. files' \in [Objects -> 0 .. MaxFiles]
    <3> PICK d \in Objects : mngdev_table[s] = d BY <1>0, <1>8 DEF Open, Bound
    <3>1. files[d] + 1 \in 0 .. MaxFiles BY <1>0, <1>8 DEF Open
    <3> QED BY <1>0, <1>8, <3>1 DEF Open
  <2> QED BY <1>0, <1>8, <2>1 DEF Open
<1>9. ASSUME NEW d \in Objects, Close(d) PROVE LifeTypeOK'
  <2>1. files' \in [Objects -> 0 .. MaxFiles]
    <3>1. files[d] - 1 \in 0 .. MaxFiles BY <1>0, <1>9 DEF Close
    <3> QED BY <1>0, <1>9, <3>1 DEF Close
  <2>2. parts' \in [Objects -> SUBSET AllParts] BY <1>0, <1>9 DEF Close
  <2> QED BY <1>0, <1>9, <2>1, <2>2 DEF Close
<1>10. CASE UNCHANGED lifeVars BY <1>0, <1>10 DEF lifeVars
<1> QED BY <1>5, <1>6, <1>7, <1>8, <1>9, <1>10 DEF LifeNext

\* The layers.
LEMMA LayersStep ==
  ASSUME LifeTypeOK, LayersInv, [LifeNext]_lifeVars, stage # "oops", stage' # "oops"
  PROVE  LayersInv'
<1> USE LifecycleAssumption
    DEF LayersInv, Unbuilt, AtTable, AtCdev, layerVars
<1>0. /\ Layers = {"mng", "vdev"}
      /\ class \in [Layers -> Int] /\ table \in [Layers -> Int]
      /\ cdevs \in [Layers -> SUBSET Slots]
  BY DEF Layers, LifeTypeOK
<1>1. CASE MngInitClass BY <1>0, <1>1 DEF MngInitClass, InitClass
<1>2. CASE VdevInitClass BY <1>0, <1>2 DEF VdevInitClass, InitClass
<1>3. CASE MngInitTable BY <1>0, <1>3 DEF MngInitTable, InitTable, CleanSys
<1>4. CASE VdevInitTable BY <1>0, <1>4 DEF VdevInitTable, InitTable, CleanSys
<1>5. ASSUME NEW k \in Layers, NEW here, NEW next, InitCdev(k, here, next),
             stage = AtCdev(k)
      PROVE  /\ \A j \in Layers \ {k} : cdevs'[j] = cdevs[j]
             /\ (stage' = next /\ cdevs'[k] = Slots) \/ stage' = here
             /\ UNCHANGED <<class, table>>
  <2> PICK s \in Slots \ cdevs[k] :
        /\ \A t \in Slots \ cdevs[k] : s <= t
        /\ cdevs' = [cdevs EXCEPT ![k] = @ \cup {s}]
        /\ stage' = IF s = SlotCount - 1 THEN next ELSE here
    BY <1>0, <1>5 DEF InitCdev
  <2>1. CASE s = SlotCount - 1
    <3>1. \A t \in Slots \ cdevs[k] : t = s BY <2>1 DEF Slots
    <3>2. cdevs'[k] = Slots BY <1>0, <3>1
    <3> QED BY <1>0, <1>5, <2>1, <3>2 DEF InitCdev
  <2>2. CASE s # SlotCount - 1 BY <1>0, <1>5, <2>2 DEF InitCdev
  <2> QED BY <2>1, <2>2
<1>6. CASE MngInitCdev
  <2>1. /\ cdevs'["vdev"] = cdevs["vdev"]
        /\ (stage' = "vdev_class" /\ cdevs'["mng"] = Slots) \/ stage' = "mng_cdev"
        /\ UNCHANGED <<class, table>> /\ stage = "mng_cdev"
    <3>1. stage = "mng_cdev" /\ InitCdev("mng", "mng_cdev", "vdev_class")
      BY <1>6 DEF MngInitCdev, InitCdev
    <3>2. AtCdev("mng") = "mng_cdev" OBVIOUS
    <3> QED BY <1>0, <1>5, <3>1, <3>2
  <2> QED BY <1>0, <2>1
<1>7. CASE VdevInitCdev
  <2>1. /\ cdevs'["mng"] = cdevs["mng"]
        /\ (stage' = "test" /\ cdevs'["vdev"] = Slots) \/ stage' = "vdev_cdev"
        /\ UNCHANGED <<class, table>> /\ stage = "vdev_cdev"
    <3>1. stage = "vdev_cdev" /\ InitCdev("vdev", "vdev_cdev", "test")
      BY <1>7 DEF VdevInitCdev, InitCdev
    <3>2. AtCdev("vdev") = "vdev_cdev" OBVIOUS
    <3> QED BY <1>0, <1>5, <3>1, <3>2
  <2> QED BY <1>0, <2>1
<1>8. CASE MngCdevFails \/ VdevCdevFails
  BY <1>8 DEF MngCdevFails, VdevCdevFails, CdevFails
<1>9. CASE MngUndo BY <1>0, <1>9 DEF MngUndo, CleanSys
<1>10. CASE VdevFini BY <1>0, <1>10 DEF VdevFini, LayerFini, CleanSys
<1>11. CASE MngFini BY <1>0, <1>11 DEF MngFini, LayerFini, CleanSys
<1>12. CASE InitRegion \/ RegionFini BY <1>0, <1>12 DEF InitRegion, RegionFini
<1>13. ASSUME UNCHANGED layerVars,
              {stage, stage'} \subseteq {"test", "pci", "live", "pci_fini", "test_fini",
                                         "vdev_fini"}
       PROVE  LayersInv'
  BY <1>0, <1>13
<1>14. CASE InitTest \/ InitPci BY <1>13, <1>14 DEF InitTest, InitPci
<1>15. CASE Rmmod \/ PciFini \/ TestFini BY <1>13, <1>15 DEF Rmmod, PciFini, TestFini
<1>16. ASSUME NEW s \in CardSlots, CardProbed(s) \/ CardRemoved(s) PROVE LayersInv'
  BY <1>13, <1>16 DEF CardProbed, CardRemoved
<1>17. ASSUME UNCHANGED <<layerVars, stage>> PROVE LayersInv' BY <1>17
<1>18. ASSUME \/ \E s \in Slots : Open(s)
              \/ \E d \in Objects : Close(d)
              \/ UNCHANGED lifeVars
       PROVE  LayersInv'
  BY <1>17, <1>18 DEF Open, Close, lifeVars
<1> HIDE DEF LayersInv
<1> QED
  BY <1>1, <1>2, <1>3, <1>4, <1>6, <1>7, <1>8, <1>9, <1>10, <1>11, <1>12, <1>14, <1>15, <1>16,
     <1>18
  DEF LifeNext, Load, Unload

\* The MNG_DEVs.  An object is whole, or it is nothing.
LEMMA PartsDiffer == AllParts # {} /\ \A i : FirstParts(i) \ Cleanup(i) = {}
  BY DEF AllParts, Cleanup

LEMMA CreateStep ==
  ASSUME LifeTypeOK, DevicesInv, NEW s \in Slots, NEW d \in Objects,
         Create(s, d) \/ \E i \in {1, 2, 4} : CreateFails(s, d, i), ~Bound(s),
         stage' \in {"pci", "live"}, stage \in {"test", stage'},
         s # TestSlot => stage \in Populated
  PROVE  DevicesInv'
<1> USE LifecycleAssumption DEF LifeTypeOK, Bound, Populated, UnloadStages
<1>1. CASE Create(s, d)
  <2>1. ASSUME NEW e \in Objects
        PROVE  \/ parts'[e] = {} /\ files'[e] = 0
               \/ /\ parts'[e] = AllParts /\ stage' \in Populated
                  /\ mngdev_table'[home'[e]] = e \/ files'[e] > 0
    BY <1>1 DEF DevicesInv, Create
  <2>2. ASSUME NEW t \in Slots, mngdev_table'[t] # NULL
        PROVE  /\ parts'[mngdev_table'[t]] = AllParts
               /\ priv'[t] = mngdev_table'[t] /\ home'[mngdev_table'[t]] = t
    BY <1>1, <2>2, PartsDiffer DEF DevicesInv, Create
  <2>3. stage' \in Populated => (mngdev_table'[TestSlot] # NULL <=> priv'[TestSlot] # NULL)
    <3>1. TestSlot \in Slots BY DEF TestSlot, Slots
    <3> QED BY <1>1, <3>1 DEF DevicesInv, Create
  <2> QED BY <2>1, <2>2, <2>3 DEF DevicesInv
<1>2. ASSUME NEW i \in {1, 2, 4}, CreateFails(s, d, i) PROVE DevicesInv'
  <2>1. UNCHANGED <<parts, home, mngdev_table, files>> /\ priv' = [priv EXCEPT ![s] = NULL]
    <3>1. parts' = [parts EXCEPT ![d] = {}] /\ parts[d] = {}
      BY <1>2, PartsDiffer DEF CreateFails
    <3> QED BY <1>2, <3>1 DEF CreateFails
  <2>2. TestSlot \in Slots BY DEF TestSlot, Slots
  <2> QED BY <2>1, <2>2 DEF DevicesInv
<1> QED BY <1>1, <1>2

LEMMA DestroyStep ==
  ASSUME LifeTypeOK, DevicesInv, NEW s \in Slots, Destroy(s), Bound(s)
  PROVE  /\ \A d \in Objects :
              \/ parts'[d] = {} /\ files'[d] = 0
              \/ /\ parts'[d] = AllParts /\ stage \in Populated
                 /\ mngdev_table'[home'[d]] = d \/ files'[d] > 0
         /\ \A t \in Slots :
              Bound(t)' => /\ parts'[mngdev_table'[t]] = AllParts
                           /\ priv'[t] = mngdev_table'[t] /\ home'[mngdev_table'[t]] = t
         /\ UNCHANGED <<files, priv>>
         /\ \A t \in Slots : Bound(t)' <=> Bound(t) /\ t # s
<1> USE DEF LifeTypeOK, Bound
<1> PICK d \in Objects : mngdev_table[s] = d OBVIOUS
<1>1. priv[s] = d /\ parts[d] = AllParts /\ home[d] = s BY DEF DevicesInv
<1>2. /\ mngdev_table' = [mngdev_table EXCEPT ![s] = NULL]
      /\ parts' = IF files[d] = 0 THEN [parts EXCEPT ![d] = {}] ELSE parts
      /\ UNCHANGED <<home, priv, files>>
  BY <1>1 DEF Destroy
<1>3. \A t \in Slots : Bound(t)' <=> Bound(t) /\ t # s BY <1>2
<1>4. ASSUME NEW e \in Objects
      PROVE  \/ parts'[e] = {} /\ files'[e] = 0
             \/ /\ parts'[e] = AllParts /\ stage \in Populated
                /\ mngdev_table'[home'[e]] = e \/ files'[e] > 0
  <2>1. CASE e = d BY <1>1, <1>2, <2>1, PartsDiffer DEF DevicesInv
  <2>2. CASE e # d
    <3>1. mngdev_table'[home'[e]] = e \/ mngdev_table[home[e]] # e BY <1>2, <2>2
    <3> QED BY <1>2, <2>2, <3>1 DEF DevicesInv
  <2> QED BY <2>1, <2>2
<1>5. ASSUME NEW t \in Slots, Bound(t)'
      PROVE  /\ parts'[mngdev_table'[t]] = AllParts
             /\ priv'[t] = mngdev_table'[t] /\ home'[mngdev_table'[t]] = t
  <2>1. t # s /\ mngdev_table'[t] = mngdev_table[t] /\ mngdev_table[t] # NULL BY <1>2, <1>5
  <2>2. mngdev_table[t] # d BY <1>1, <2>1 DEF DevicesInv
  <2> QED BY <1>2, <2>1, <2>2 DEF DevicesInv
<1> QED BY <1>2, <1>3, <1>4, <1>5

LEMMA DevicesStep ==
  ASSUME LifeTypeOK, DevicesInv, [LifeNext]_lifeVars, stage # "oops", stage' # "oops"
  PROVE  DevicesInv'
<1> USE LifecycleAssumption DEF Populated, UnloadStages, deviceVars, layerVars
<1>0. /\ TestSlot \in Slots /\ CardSlots = Slots \ {TestSlot}
      /\ \A s \in Slots : mngdev_table[s] \in Objects \cup {NULL}
      /\ NULL \notin Objects
      /\ files \in [Objects -> 0 .. MaxFiles]
  BY DEF TestSlot, Slots, CardSlots, LifeTypeOK
<1>1. ASSUME stage \notin Populated
      PROVE  /\ \A d \in Objects : parts[d] = {} /\ files[d] = 0
             /\ \A s \in Slots : ~Bound(s)
  <2>1. \A d \in Objects : parts[d] = {} /\ files[d] = 0 BY <1>1 DEF DevicesInv
  <2> QED BY <1>0, <2>1, PartsDiffer DEF DevicesInv, Bound
<1>2. ASSUME stage \notin Populated, stage' \notin Populated, UNCHANGED deviceVars
      PROVE  DevicesInv'
  BY <1>1, <1>2 DEF DevicesInv, Bound
<1>3. CASE \/ InitRegion \/ MngUndo
           \/ MngInitClass \/ MngInitTable \/ MngInitCdev \/ MngCdevFails
           \/ VdevInitClass \/ VdevInitTable \/ VdevInitCdev \/ VdevCdevFails
           \/ VdevFini \/ MngFini \/ RegionFini
  BY <1>2, <1>3
  DEF InitRegion, MngUndo, MngInitClass, MngInitTable, MngInitCdev, MngCdevFails,
      VdevInitClass, VdevInitTable, VdevInitCdev, VdevCdevFails, InitClass, InitTable,
      InitCdev, CdevFails, VdevFini, MngFini, LayerFini, RegionFini
<1>4. CASE InitTest
  <2>1. /\ stage = "test" /\ stage' = "pci"
        /\ \E d \in Objects : \/ Create(TestSlot, d)
                              \/ \E i \in {1, 2, 4} : CreateFails(TestSlot, d, i)
    BY <1>4 DEF InitTest
  <2> QED BY <1>0, <1>1, <2>1, CreateStep
<1>5. CASE InitPci BY <1>5 DEF InitPci, DevicesInv, Bound
<1>6. CASE Rmmod
  <2>1. \A d \in Objects : files[d] = 0 BY <1>0, <1>6 DEF Rmmod, ModuleRefs
  <2> QED BY <1>6, <2>1 DEF Rmmod, DevicesInv, Bound
<1>7. CASE PciFini
  <2>1. ASSUME NEW s \in CardSlots, Bound(s), Destroy(s), UNCHANGED stage PROVE DevicesInv'
    BY <1>0, <1>7, <2>1, DestroyStep DEF PciFini, DevicesInv
  <2>2. CASE /\ ~ \E s \in CardSlots : Bound(s)
             /\ stage = "pci_fini" /\ stage' = "test_fini" /\ UNCHANGED deviceVars
    BY <1>0, <2>2 DEF DevicesInv, Bound
  <2> QED BY <1>7, <2>1, <2>2 DEF PciFini
<1>8. CASE TestFini
  <2>1. /\ stage = "test_fini" /\ stage' = "vdev_fini" /\ Destroy(TestSlot)
        /\ priv[TestSlot] # NULL
    BY <1>8 DEF TestFini
  <2>2. Bound(TestSlot) /\ \A d \in Objects : files[d] = 0 BY <2>1 DEF DevicesInv
  <2>3. \A s \in Slots : ~Bound(s)' BY <1>0, <2>1, <2>2, DestroyStep DEF DevicesInv
  <2>4. \A d \in Objects : parts'[d] = {} /\ files'[d] = 0
    <3>1. ASSUME NEW d \in Objects, mngdev_table'[home'[d]] = d PROVE FALSE
      <4>1. home'[d] \in Slots BY <2>1 DEF Destroy, LifeTypeOK
      <4> QED BY <1>0, <2>3, <3>1, <4>1 DEF Bound
    <3>2. \A d \in Objects : files'[d] = 0 BY <2>1, <2>2 DEF Destroy
    <3> QED BY <1>0, <2>1, <2>2, <3>1, <3>2, DestroyStep
  <2> QED BY <2>1, <2>3, <2>4 DEF DevicesInv
<1>9. ASSUME NEW s \in CardSlots, CardProbed(s) PROVE DevicesInv'
  <2>1. /\ stage = "live" /\ stage' = "live" /\ ~Bound(s)
        /\ \E d \in Objects : Create(s, d) \/ \E i \in {1, 2, 4} : CreateFails(s, d, i)
    BY <1>9 DEF CardProbed
  <2> QED BY <1>0, <2>1, CreateStep
<1>10. ASSUME NEW s \in CardSlots, CardRemoved(s) PROVE DevicesInv'
  BY <1>0, <1>10, DestroyStep DEF CardRemoved, DevicesInv
<1>11. ASSUME NEW s \in Slots, Open(s) PROVE DevicesInv'
  <2> PICK d \in Objects : mngdev_table[s] = d BY <1>0, <1>11 DEF Open, Bound
  <2>1. parts[d] = AllParts BY <1>0, <1>11 DEF Open, DevicesInv
  <2>2. /\ files' = [files EXCEPT ![d] = @ + 1] /\ stage \notin UnloadStages
        /\ UNCHANGED <<stage, parts, home, mngdev_table, priv>>
    BY <1>11 DEF Open
  <2>3. ASSUME NEW e \in Objects
        PROVE  \/ parts'[e] = {} /\ files'[e] = 0
               \/ /\ parts'[e] = AllParts /\ stage' \in Populated
                  /\ mngdev_table'[home'[e]] = e \/ files'[e] > 0
    BY <1>0, <2>1, <2>2, PartsDiffer DEF DevicesInv
  <2> QED BY <2>2, <2>3 DEF DevicesInv, Bound
<1>12. ASSUME NEW d \in Objects, Close(d) PROVE DevicesInv'
  <2>1. /\ files[d] > 0 /\ files' = [files EXCEPT ![d] = @ - 1]
        /\ parts' = IF files[d] = 1 /\ mngdev_table[home[d]] # d
                    THEN [parts EXCEPT ![d] = {}] ELSE parts
        /\ UNCHANGED <<stage, home, mngdev_table, priv>>
    BY <1>12 DEF Close
  <2>2. parts[d] = AllParts /\ stage \in Populated /\ stage \notin UnloadStages
    BY <2>1 DEF DevicesInv
  <2>3. ASSUME NEW e \in Objects
        PROVE  \/ parts'[e] = {} /\ files'[e] = 0
               \/ /\ parts'[e] = AllParts /\ stage' \in Populated
                  /\ mngdev_table'[home'[e]] = e \/ files'[e] > 0
    <3>1. CASE e = d BY <1>0, <2>1, <2>2, <3>1 DEF DevicesInv, LifeTypeOK
    <3>2. CASE e # d BY <1>0, <2>1, <2>2, <3>2 DEF DevicesInv, LifeTypeOK
    <3> QED BY <3>1, <3>2
  <2>4. ASSUME NEW t \in Slots, Bound(t)' PROVE parts'[mngdev_table'[t]] = AllParts
    <3>1. CASE mngdev_table[t] = d
      <4>1. mngdev_table[home[d]] = d BY <1>0, <2>1, <2>4, <3>1 DEF DevicesInv, Bound
      <4> QED BY <2>1, <2>2, <3>1, <4>1
    <3>2. CASE mngdev_table[t] # d BY <2>1, <2>4, <3>2 DEF DevicesInv, Bound, LifeTypeOK
    <3> QED BY <3>1, <3>2
  <2> QED BY <2>1, <2>2, <2>3, <2>4 DEF DevicesInv, Bound
<1>13. CASE UNCHANGED lifeVars BY <1>13 DEF lifeVars, DevicesInv, Bound
<1> QED
  BY <1>3, <1>4, <1>5, <1>6, <1>7, <1>8, <1>9, <1>10, <1>11, <1>12, <1>13
  DEF LifeNext, Load, Unload

\* The region and the PCI driver.
LEMMA StageStep ==
  ASSUME LifeTypeOK, StageInv, DevicesInv, [LifeNext]_lifeVars, stage # "oops", stage' # "oops"
  PROVE  StageInv'
<1> USE DEF StageInv, layerVars, deviceVars
<1>0. region \in Nat BY LifecycleAssumption DEF LifeTypeOK
<1>1. CASE InitRegion \/ RegionFini BY <1>0, <1>1 DEF InitRegion, RegionFini
<1>2. CASE \/ MngUndo
           \/ MngInitClass \/ MngInitTable \/ MngInitCdev \/ MngCdevFails
           \/ VdevInitClass \/ VdevInitTable \/ VdevInitCdev \/ VdevCdevFails
  BY <1>2
  DEF MngUndo, MngInitClass, MngInitTable, MngInitCdev, MngCdevFails, VdevInitClass,
      VdevInitTable, VdevInitCdev, VdevCdevFails, InitClass, InitTable, InitCdev, CdevFails
<1>3. CASE InitTest \/ InitPci BY <1>3 DEF InitTest, InitPci
<1>4. CASE Rmmod \/ PciFini \/ TestFini \/ VdevFini \/ MngFini
  BY <1>4 DEF Rmmod, PciFini, TestFini, VdevFini, MngFini, LayerFini
<1>5. ASSUME NEW s \in CardSlots, CardProbed(s) \/ CardRemoved(s) PROVE StageInv'
  BY <1>5 DEF CardProbed, CardRemoved
<1>6. ASSUME \/ \E s \in Slots : Open(s)
             \/ \E d \in Objects : Close(d)
             \/ UNCHANGED lifeVars
      PROVE  StageInv'
  BY <1>6 DEF Open, Close, lifeVars
<1> HIDE DEF StageInv
<1> QED BY <1>1, <1>2, <1>3, <1>4, <1>5, <1>6 DEF LifeNext, Load, Unload

\* Nothing happens after an oops.
LEMMA OopsStays == ASSUME [LifeNext]_lifeVars, stage = "oops" PROVE stage' = "oops"
  BY DEF LifeNext, Load, Unload, InitRegion, MngInitClass, MngInitTable, MngInitCdev,
         MngCdevFails, VdevInitClass, VdevInitTable, VdevInitCdev, VdevCdevFails, InitClass,
         InitTable, InitCdev, CdevFails, MngUndo, InitTest, InitPci, Rmmod, PciFini, TestFini,
         VdevFini, MngFini, LayerFini, RegionFini, CardProbed, CardRemoved, Open, Close,
         UnloadStages, lifeVars

LEMMA LifeHolds == LifeSpec => []LifeInv
<1>1. LifeInit => LifeInv BY LifeInitial
<1>2. LifeInv /\ [LifeNext]_lifeVars => LifeInv'
  <2> SUFFICES ASSUME LifeInv, [LifeNext]_lifeVars PROVE LifeInv' OBVIOUS
  <2>1. LifeTypeOK' BY TypesStep
  <2>2. ASSUME stage' # "oops" PROVE LayersInv' /\ DevicesInv' /\ StageInv'
    <3>1. stage # "oops" BY <2>2, OopsStays
    <3> QED BY <2>2, <3>1, LayersStep, DevicesStep, StageStep DEF LifeInv
  <2> QED BY <2>1, <2>2 DEF LifeInv
<1> QED BY <1>1, <1>2, PTL DEF LifeSpec

\* Every variable keeps its type.  The region of device numbers is given back only
\* when it is held, and a file is closed only when it is open, so the two counts
\* stay within their bounds.
THEOREM LifeTypeCorrect == LifeSpec => []LifeTypeOK
<1>1. LifeInv => LifeTypeOK BY DEF LifeInv
<1> QED BY <1>1, LifeHolds, PTL

\* evrma_init and evrma_fini undo what was done: when the driver is not loaded,
\* after an unload as after a load whose error path survived (not that of cdev_add
\* or modac_rm_init, which end in "oops"), no class, table or character device is
\* left, the PCI driver is not registered, and no part of any MNG_DEV exists,
\* whatever cards were probed and removed and files opened and closed in between.
THEOREM LifeNothingLeft == LifeSpec => []NothingLeft
<1>1. LifeInv => NothingLeft
  <2> SUFFICES ASSUME LifeInv, stage = "absent" PROVE NothingLeft BY DEF NothingLeft
  <2>1. LayersInv /\ DevicesInv /\ StageInv BY DEF LifeInv
  <2>2. \A k \in Layers : class[k] = 0 /\ table[k] = 0 /\ cdevs[k] = {}
    BY <2>1 DEF LayersInv, Unbuilt
  <2>3. ~driver BY <2>1 DEF StageInv
  <2>4. \A d \in Objects : parts[d] = {} BY <2>1 DEF DevicesInv, Populated
  <2> QED BY <2>2, <2>3, <2>4 DEF NothingLeft
<1> QED BY <1>1, LifeHolds, PTL

\* Nothing outlives what it stands on: whatever the order of loading, unloading,
\* cards and files, a MNG_DEV, which the last close of a removed card may destroy at
\* any time, has the classes and the tables of both layers, a character device its
\* table, an open file its MNG_DEV, and a slot leads to a whole one.
THEOREM LifeNothingDangles == LifeSpec => []NothingDangles
<1>1. LifeInv => NothingDangles
  <2> SUFFICES ASSUME LifeInv, stage # "oops" PROVE NothingDangles BY DEF NothingDangles
  <2>1. LayersInv /\ DevicesInv BY DEF LifeInv
  <2>2. ASSUME NEW k \in Layers
        PROVE  /\ class[k] \in {0, 1} /\ table[k] \in {0, class[k]}
               /\ cdevs[k] # {} => table[k] = 1
    BY <2>1 DEF LayersInv
  <2>3. ASSUME NEW d \in Objects
        PROVE  /\ parts[d] # {} => \A k \in Layers : table[k] = 1 /\ cdevs[k] = Slots
               /\ files[d] > 0 => parts[d] = AllParts
    <3>1. stage \in Populated => \A k \in Layers : table[k] = 1 /\ cdevs[k] = Slots
      BY <2>1 DEF LayersInv, Populated, Unbuilt, AtTable, AtCdev
    <3> QED BY <2>1, <3>1 DEF DevicesInv
  <2>4. \A s \in Slots :
          Bound(s) => parts[mngdev_table[s]] = AllParts /\ priv[s] = mngdev_table[s]
    BY <2>1 DEF DevicesInv
  <2> QED BY <2>2, <2>3, <2>4 DEF NothingDangles
<1> QED BY <1>1, LifeHolds, PTL
=============================================================================
