-------------------------- MODULE HotUnplugProofs --------------------------
(***************************************************************************)
(* Proofs about HotUnplug, for any number of threads and VIRT_DEVs.  What   *)
(* a theorem needs of the applications is in its statement: the Habits that *)
(* it excludes, and no others.                                             *)
(*                                                                         *)
(* The invariants build on each other: where each thread is and which       *)
(* mutex it has; the references and who destroys the device; the VIRT_DEVs  *)
(* of the open files; the walk of the inodes.                              *)
(***************************************************************************)
EXTENDS HotUnplug, Integers, FiniteSetTheorems, TLAPS

Threads == Procs \cup {Driver}

\* The types that do not depend on how references are counted.
Types ==
  /\ mngdev_table \in BOOLEAN /\ vdev_table \subseteq Vdevs
  /\ mngdev_table_mutex \in Threads \cup {None}
  /\ vdev_table_mutex \in Procs \cup {None}
  /\ ref_mtx \in Threads \cup {None}
  /\ ref_ptr \in BOOLEAN /\ ref_cnt \in Int /\ l_rcnt \in [Files -> Int]
  /\ allocated \in BOOLEAN /\ vdev_list \subseteq Vdevs
  /\ pid \in Procs \cup {None}
  /\ file \in [Procs -> Files \cup {None}]
  /\ mapped \subseteq Procs
  /\ direct_access_denied \subseteq Vdevs
  /\ direct_access_active_count \in [Vdevs -> Int]
  /\ {l, n} \subseteq Files \cup {None} /\ left \subseteq Files
  /\ pc \in [Threads -> ProcPc \cup DriverPc]
  /\ arg \in [Procs -> Vdevs \cup {None}]

\* A thread has a file open, and a VIRT_DEV in hand, where the code says it has.
Places ==
  /\ pc[Driver] \in DriverPc
  /\ \A p \in Procs :
       /\ pc[p] \in ProcPc
       /\ pc[p] \in {"mng_get", "mng_pid", "vdev_get", "vdev_use", "drain", "reap"}
            => file[p] = None
       /\ pc[p] \in {"create", "destroy"} => file[p] = Mng
       /\ pc[p] \in {"direct", "sleep"} => file[p] \in Vdevs
       /\ IF pc[p] \in {"create", "destroy", "vdev_get", "vdev_use", "drain"}
          THEN arg[p] \in Vdevs ELSE arg[p] = None

\* Who has which mutex.
Mutexes ==
  /\ \A p \in Procs :
       /\ mngdev_table_mutex = p <=> pc[p] = "mng_get"
       /\ vdev_table_mutex = p <=> pc[p] \in {"vdev_get", "vdev_use"}
       /\ ref_mtx = p <=> pc[p] \in {"create", "destroy"}
  /\ mngdev_table_mutex = Driver <=> pc[Driver] = "vdevs"
  /\ ref_mtx = Driver => pc[Driver] = "relock" /\ n = None

\* What the tables and the pointer say while the mutexes allow it.
Tables ==
  /\ mngdev_table <=> pc[Driver] = "plugged"
  /\ ref_ptr <=> pc[Driver] \in {"plugged", "vdevs", "invalidate"}
  /\ pc[Driver] \in {"plugged", "vdevs", "invalidate"} => n = None
  /\ vdev_table \subseteq vdev_list
  /\ \A p \in Procs :
       /\ pc[p] = "mng_get" => mngdev_table
       /\ pc[p] \in {"vdev_get", "vdev_use"} => arg[p] \in vdev_list

PlaceInv == Types /\ Places /\ Mutexes /\ Tables

-----------------------------------------------------------------------------
\* Who holds a reference, and which inode it is counted in.
Holding == {p \in Procs : Holds(p)}
OnInode(f) == {p \in Procs : HeldInode(p) = f}

\* No reference is used that is not counted.
RefsCovered ==
  /\ ref_cnt >= Cardinality(Holding) + (IF DriverHolds THEN 1 ELSE 0)
  /\ \A f \in Files : l_rcnt[f] >= Cardinality(OnInode(f))

Reaping(x) == pc[x] \in {"drain", "reap"}

\* One thread at most destroys the device, when no reference is left; once it is
\* freed none of it is.
OneReaper ==
  /\ \A x \in Threads : Reaping(x) => ref_cnt = 0 /\ allocated
  /\ \A x, y \in Threads : Reaping(x) /\ Reaping(y) => x = y
  /\ ~allocated => ref_cnt = 0 /\ vdev_list = {}

RefInv == RefsCovered /\ OneReaper

\* One thread at most has the MNG_DEV open or is about to, and pid is that thread:
\* true of applications that do not open it twice, and needed for an exact count.
OneManager ==
  /\ \A p, q \in Procs : Manages(p) /\ Manages(q) => p = q
  /\ \A p \in Procs : pid = p <=> file[p] = Mng

-----------------------------------------------------------------------------
\* Threads in a direct call to v.
Callers(v) == {p \in Procs : pc[p] = "direct" /\ file[p] = v}

\* An open VIRT_DEV is in the list, one about to be created is not, one about to be
\* destroyed is not open.
OpenVdevs ==
  \A p \in Procs :
    /\ file[p] \in Vdevs => file[p] \in vdev_list
    /\ pc[p] = "create" => arg[p] \notin vdev_list
    /\ pc[p] = "destroy" => \A q \in Procs : file[q] # arg[p]

\* The direct-access lock counts the calls inside.
VdevInv ==
  /\ OpenVdevs
  /\ \A v \in Vdevs : direct_access_active_count[v] = Cardinality(Callers(v))

\* While the inodes are walked a mapping belongs to an inode still to be visited.
WalkInv ==
  /\ \A p \in mapped : file[p] # None
  /\ n = None => left = {}
  /\ \A f \in Files : Saved(f) => f \in ref_lhd
  /\ pc[Driver] = "unmap" => \A p \in mapped : file[p] \in {l, n} \cup left
  /\ pc[Driver] = "relock" => \A p \in mapped : file[p] \in {n} \cup left
  /\ pc[Driver] \in {"postponed", "reap", "done"} => mapped = {}

\* While the removal prints the name of the device somebody else holds it.
PostponedInv == At(Driver, "postponed") => ref_cnt > 0

-----------------------------------------------------------------------------
(* Where the threads are.                                                  *)

\* A count that goes up or down by one stays an integer.
LEMMA Counts ==
  ASSUME NEW S, NEW f \in [S -> Int], NEW x
  PROVE  /\ [f EXCEPT ![x] = @ + 1] \in [S -> Int]
         /\ [f EXCEPT ![x] = @ - 1] \in [S -> Int]
<1>1. ASSUME NEW y \in S PROVE f[y] + 1 \in Int /\ f[y] - 1 \in Int OBVIOUS
<1> QED BY <1>1

LEMMA PlaceInit == ASSUME HUInit PROVE PlaceInv
  BY UnplugAssumption
  DEF HUInit, PlaceInv, Types, Places, Mutexes, Tables, Threads, Files, ProcPc, DriverPc

LEMMA PlaceStep == ASSUME PlaceInv, [HUNext]_huVars PROVE PlaceInv'
<1> USE UnplugAssumption
    DEF PlaceInv, Types, Places, Mutexes, Tables, Threads, Goto, At, ProcPc, DriverPc,
        Files, mutexes, tables, memory, direct, counts, walk
<1>1. ASSUME NEW p \in Procs, MngOpen(p) PROVE PlaceInv'
  BY <1>1 DEF MngOpen
<1>2. ASSUME NEW p \in Procs, MngGet(p) PROVE PlaceInv'
  <2>1. ref_cnt' \in Int /\ l_rcnt' \in [Files -> Int] BY <1>2, Counts DEF MngGet, GetRef
  <2> QED BY <1>2, <2>1 DEF MngGet
<1>3. ASSUME NEW p \in Procs, MngPid(p) PROVE PlaceInv'
  BY <1>3 DEF MngPid
<1>4. ASSUME NEW p \in Procs, NEW v \in Vdevs, CreateIoctl(p, v) \/ DestroyIoctl(p, v)
      PROVE  PlaceInv'
  <2> PICK where \in {"create", "destroy"} : MngIoctl(p, v, where)
    BY <1>4 DEF CreateIoctl, DestroyIoctl
  <2> QED BY <1>4 DEF MngIoctl
<1>5. ASSUME NEW p \in Procs, CreateInsert(p) PROVE PlaceInv'
  BY <1>5 DEF CreateInsert
<1>6. ASSUME NEW p \in Procs, DestroyRemove(p) PROVE PlaceInv'
  BY <1>6 DEF DestroyRemove
<1>7. ASSUME NEW p \in Procs, Mmap(p) PROVE PlaceInv'
  BY <1>7 DEF Mmap
<1>8. ASSUME NEW p \in Procs, NEW v \in Vdevs, VdevOpen(p, v) PROVE PlaceInv'
  BY <1>8 DEF VdevOpen
<1>9. ASSUME NEW p \in Procs, VdevGet(p) PROVE PlaceInv'
  <2>1. ref_cnt' \in Int /\ l_rcnt' \in [Files -> Int] BY <1>9, Counts DEF VdevGet, GetRef
  <2> QED BY <1>9, <2>1 DEF VdevGet
<1>10. ASSUME NEW p \in Procs, VdevUse(p) PROVE PlaceInv'
  BY <1>10 DEF VdevUse
<1>11. ASSUME NEW p \in Procs, DirectCall(p) \/ ReadWoken(p) PROVE PlaceInv'
  <2>1. direct_access_active_count' \in [Vdevs -> Int]
    BY <1>11, Counts DEF DirectCall, ReadWoken, LockDirectCall
  <2> QED BY <1>11, <2>1 DEF DirectCall, ReadWoken, LockDirectCall
<1>12. ASSUME NEW p \in Procs, DirectDone(p) \/ ReadSleep(p) PROVE PlaceInv'
  <2>1. direct_access_active_count' \in [Vdevs -> Int]
    BY <1>12, Counts DEF DirectDone, ReadSleep, UnlockDirectCall
  <2> QED BY <1>12, <2>1 DEF DirectDone, ReadSleep, UnlockDirectCall
<1>13. ASSUME NEW p \in Procs, ReadEnds(p) PROVE PlaceInv'
  BY <1>13 DEF ReadEnds
<1>14. ASSUME NEW p \in Procs, Close(p) PROVE PlaceInv'
  <2>1. ref_cnt' \in Int /\ l_rcnt' \in [Files -> Int] BY <1>14, Counts DEF Close, PutRef
  <2> QED BY <1>14, <2>1 DEF Close, LastPut
<1>15. ASSUME NEW p \in Procs, Drain(p) PROVE PlaceInv'
  BY <1>15 DEF Drain
<1>16. ASSUME NEW x \in Threads, NEW v \in Vdevs, ReapVdev(x, v) PROVE PlaceInv'
  BY <1>16 DEF ReapVdev
<1>17. ASSUME NEW x \in Threads, ReapMngdev(x) PROVE PlaceInv'
  <2>1. pc' = [pc EXCEPT ![x] = IF x = Driver THEN "done" ELSE "user"] /\ pc[x] = "reap"
    BY <1>17 DEF ReapMngdev
  <2>0. /\ UNCHANGED <<walk, tables, mutexes, ref_ptr, counts, vdev_list, pid, file, mapped,
                       direct, arg>>
        /\ allocated' \in BOOLEAN
    BY <1>17 DEF ReapMngdev
  <2>2. CASE x = Driver
    <3>1. pc' = [pc EXCEPT ![Driver] = "done"] BY <2>1, <2>2
    <3>2. Types' BY <2>0, <3>1
    <3>3. \A p \in Procs : pc'[p] = pc[p] BY <3>1
    <3>4. Places' BY <2>0, <3>1, <3>3
    <3>5. Mutexes' BY <2>0, <2>1, <2>2, <3>1, <3>3
    <3>6. Tables' BY <2>0, <2>1, <2>2, <3>1, <3>3
    <3> QED BY <3>2, <3>4, <3>5, <3>6
  <2>3. CASE x \in Procs
    <3>1. pc' = [pc EXCEPT ![x] = "user"] BY <2>1, <2>3
    <3>2. Types' BY <2>0, <3>1
    <3>3. Places' BY <2>0, <2>1, <2>3, <3>1
    <3>4. Mutexes' BY <2>0, <2>1, <2>3, <3>1
    <3>5. Tables' BY <2>0, <2>1, <2>3, <3>1
    <3> QED BY <3>2, <3>3, <3>4, <3>5
  <2> QED BY <2>2, <2>3
<1>18. CASE UnplugTable
  <2>1. \A p \in Procs : pc'[p] = pc[p] /\ pc[p] # "mng_get" BY <1>18 DEF UnplugTable
  <2>2. Types' /\ Places' /\ Mutexes' BY <1>18, <2>1 DEF UnplugTable
  <2>3. Tables' BY <1>18, <2>1 DEF UnplugTable
  <2> QED BY <2>2, <2>3
<1>19. CASE UnplugVdevs BY <1>19 DEF UnplugVdevs
<1>20. CASE UnplugInvalidate
  <2>1. \A p \in Procs : pc'[p] = pc[p] BY <1>20 DEF UnplugInvalidate
  <2>2. CASE ref_lhd = {} /\ ref_mtx' = Driver /\ pc' = [pc EXCEPT ![Driver] = "relock"]
             /\ UNCHANGED walk
    BY <1>20, <2>1, <2>2 DEF UnplugInvalidate
  <2>3. CASE \E f \in ref_lhd :
               /\ l' = f /\ left' = ref_lhd \ {f}
               /\ n' \in NodesAfter(f, left')
               /\ pc' = [pc EXCEPT ![Driver] = "unmap"]
               /\ UNCHANGED ref_mtx
    <3>1. l' \in Files /\ left' \subseteq Files /\ n' \in Files \cup {None}
      BY <2>3 DEF NodesAfter, ref_lhd
    <3>2. Types'
      <4>1. pc' \in [Threads -> ProcPc \cup DriverPc] BY <2>3
      <4>2. UNCHANGED <<tables, mutexes, counts, memory, pid, file, mapped, direct, arg>>
            /\ ref_ptr' \in BOOLEAN
        BY <1>20, <2>3 DEF UnplugInvalidate
      <4> QED BY <3>1, <4>1, <4>2
    <3>3. Places' BY <1>20, <2>1, <2>3, <3>1 DEF UnplugInvalidate
    <3>4. Mutexes' BY <1>20, <2>1, <2>3, <3>1 DEF UnplugInvalidate
    <3>5. Tables' BY <1>20, <2>1, <2>3, <3>1 DEF UnplugInvalidate
    <3> QED BY <3>2, <3>3, <3>4, <3>5
  <2> QED BY <1>20, <2>2, <2>3 DEF UnplugInvalidate
<1>21. CASE UnplugUnmap BY <1>21 DEF UnplugUnmap
<1>22. CASE UnplugNext BY <1>22 DEF UnplugNext, NodesAfter
<1>23. CASE UnplugPut BY <1>23 DEF UnplugPut
<1>24. CASE UNCHANGED huVars BY <1>24 DEF huVars
<1>25. CASE UnplugPostponed BY <1>25 DEF UnplugPostponed
<1> QED
  BY <1>1, <1>2, <1>3, <1>4, <1>5, <1>6, <1>7, <1>8, <1>9, <1>10, <1>11, <1>12, <1>13,
     <1>14, <1>15, <1>16, <1>17, <1>18, <1>19, <1>20, <1>21, <1>22, <1>23, <1>24, <1>25
  DEF HUNext, Call, Work, Unplug, Reap

LEMMA PlacesHold == HUSpec => []PlaceInv
<1>1. HUInit => PlaceInv BY PlaceInit
<1>2. PlaceInv /\ [HUNext]_huVars => PlaceInv' BY PlaceStep
<1> QED BY <1>1, <1>2, PTL DEF HUSpec

-----------------------------------------------------------------------------
(* The references.                                                         *)

\* Who holds a reference holds it through an inode.
LEMMA HeldThroughInode ==
  ASSUME PlaceInv
  PROVE  \A p \in Procs : /\ HeldInode(p) \in Files \cup {None}
                          /\ Holds(p) <=> HeldInode(p) # None
  BY UnplugAssumption
  DEF PlaceInv, Types, Places, Holds, HeldInode, Files, Threads, ProcPc, DriverPc

\* What a step does to the references: one is taken, given back or forgotten, the
\* driver's is given back, or all stay where they are.
SameRefs(S) == \A q \in S : HeldInode(q)' = HeldInode(q)

Takes(p, f) ==
  /\ ref_ptr /\ HeldInode(p) = None /\ HeldInode(p)' = f
  /\ SameRefs(Procs \ {p})
  /\ GetRef(f) /\ UNCHANGED pc[Driver]

Gives(p, f) ==
  /\ HeldInode(p) = f /\ HeldInode(p)' = None
  /\ SameRefs(Procs \ {p})
  /\ PutRef(f) /\ UNCHANGED pc[Driver]

\* The second open of the MNG_DEV fails with -EBUSY and keeps its reference.
Leaks(p, f) ==
  /\ HeldInode(p) = f /\ HeldInode(p)' = None
  /\ SameRefs(Procs \ {p})
  /\ pc[p] = "mng_pid" /\ pid # None
  /\ UNCHANGED <<counts, pc[Driver]>>

DriverGives ==
  /\ DriverHolds /\ ~DriverHolds'
  /\ SameRefs(Procs)
  /\ ref_cnt' = ref_cnt - 1 /\ UNCHANGED l_rcnt

KeepsRefs ==
  /\ DriverHolds' <=> DriverHolds
  /\ SameRefs(Procs)
  /\ UNCHANGED counts

LEMMA StepRefs ==
  ASSUME PlaceInv, [HUNext]_huVars
  PROVE  \/ KeepsRefs \/ DriverGives
         \/ \E p \in Procs, f \in Files : Takes(p, f) \/ Gives(p, f) \/ Leaks(p, f)
<1> USE UnplugAssumption
    DEF PlaceInv, Types, Places, Threads, Goto, At, Files, HeldInode, SameRefs,
        DriverHolds, mutexes, tables, memory, direct, counts, walk
<1>1. ASSUME NEW p \in Procs, MngGet(p) PROVE KeepsRefs \/ Takes(p, Mng)
  BY <1>1 DEF MngGet, KeepsRefs, Takes
<1>2. ASSUME NEW p \in Procs, VdevGet(p) PROVE KeepsRefs \/ Takes(p, arg[p])
  BY <1>2 DEF VdevGet, KeepsRefs, Takes
<1>3. ASSUME NEW p \in Procs, Close(p) PROVE Gives(p, file[p])
  BY <1>3 DEF Close, LastPut, Gives
<1>4. ASSUME UnplugPut PROVE DriverGives
  BY <1>4 DEF UnplugPut, DriverGives
<1>5. ASSUME NEW p \in Procs, MngPid(p) PROVE KeepsRefs \/ Leaks(p, Mng)
  BY <1>5 DEF MngPid, KeepsRefs, Leaks
<1>6. ASSUME NEW p \in Procs, VdevUse(p) PROVE KeepsRefs
  BY <1>6 DEF VdevUse, KeepsRefs
<1>7. ASSUME NEW p \in Procs, MngOpen(p) \/ Mmap(p) PROVE KeepsRefs
  BY <1>7 DEF MngOpen, Mmap, KeepsRefs
<1>8. ASSUME NEW p \in Procs, NEW v \in Vdevs,
             CreateIoctl(p, v) \/ DestroyIoctl(p, v) \/ VdevOpen(p, v)
      PROVE  KeepsRefs
  BY <1>8 DEF CreateIoctl, DestroyIoctl, MngIoctl, VdevOpen, KeepsRefs
<1>9. ASSUME NEW p \in Procs, CreateInsert(p) \/ DestroyRemove(p) PROVE KeepsRefs
  BY <1>9 DEF CreateInsert, DestroyRemove, KeepsRefs
<1>10. ASSUME NEW p \in Procs,
              DirectCall(p) \/ DirectDone(p) \/ ReadSleep(p) \/ ReadWoken(p) \/ ReadEnds(p)
                \/ Drain(p)
       PROVE  KeepsRefs
  BY <1>10 DEF DirectCall, DirectDone, ReadSleep, ReadWoken, LockDirectCall,
               UnlockDirectCall, ReadEnds, Drain, KeepsRefs
<1>11. ASSUME NEW x \in Threads, Reap(x) PROVE KeepsRefs
  BY <1>11 DEF Reap, ReapMngdev, ReapVdev, KeepsRefs
<1>12. ASSUME UnplugTable \/ UnplugVdevs \/ UnplugInvalidate \/ UnplugUnmap \/ UnplugNext
                \/ UnplugPostponed
       PROVE  KeepsRefs
  BY <1>12 DEF UnplugTable, UnplugVdevs, UnplugInvalidate, UnplugUnmap, UnplugNext,
               UnplugPostponed, KeepsRefs
<1>13. CASE UNCHANGED huVars BY <1>13 DEF huVars, KeepsRefs
<1>14. ASSUME NEW p \in Procs, VdevGet(p) PROVE arg[p] \in Files BY <1>14 DEF VdevGet
<1>15. ASSUME NEW p \in Procs, Close(p) PROVE file[p] \in Files BY <1>15 DEF Close
<1> HIDE DEF PlaceInv, HeldInode, SameRefs, DriverHolds
<1> QED
  BY <1>1, <1>2, <1>3, <1>4, <1>5, <1>6, <1>7, <1>8, <1>9, <1>10, <1>11, <1>12, <1>13,
     <1>14, <1>15
  DEF HUNext, Call, Work, Unplug

LEMMA FiniteHolders ==
  /\ \A f : IsFiniteSet(OnInode(f)) /\ Cardinality(OnInode(f)) \in Nat
  /\ IsFiniteSet(Holding) /\ Cardinality(Holding) \in Nat
<1>1. ASSUME NEW S \in SUBSET Procs PROVE IsFiniteSet(S) /\ Cardinality(S) \in Nat
  BY FS_Subset, FS_CardinalityType, UnplugAssumption
<1>2. \A f : OnInode(f) \in SUBSET Procs BY DEF OnInode
<1>3. Holding \in SUBSET Procs BY DEF Holding
<1> QED BY <1>1, <1>2, <1>3

\* Whoever holds a reference keeps the count above 0.
LEMMA CoverBounds ==
  ASSUME PlaceInv, RefsCovered
  PROVE  /\ ref_cnt \in Nat /\ \A f \in Files : l_rcnt[f] \in Nat
         /\ \A p \in Procs : Holds(p) => ref_cnt > 0
         /\ \A p \in Procs : HeldInode(p) \in Files => l_rcnt[HeldInode(p)] > 0
         /\ DriverHolds => ref_cnt > 0
<1>1. ref_cnt \in Int /\ l_rcnt \in [Files -> Int] BY DEF PlaceInv, Types
<1>2. ref_cnt \in Nat /\ \A f \in Files : l_rcnt[f] \in Nat
  BY <1>1, FiniteHolders DEF RefsCovered
<1>3. Cardinality(Holding) = 0 <=> Holding = {} BY FiniteHolders, FS_EmptySet
<1>4. \A f : Cardinality(OnInode(f)) = 0 <=> OnInode(f) = {} BY FiniteHolders, FS_EmptySet
<1>5. \A p \in Procs : Holds(p) => ref_cnt > 0
  <2>1. \A p \in Procs : Holds(p) => Cardinality(Holding) > 0
    BY <1>3, FiniteHolders DEF Holding
  <2> QED BY <1>1, <2>1, FiniteHolders DEF RefsCovered
<1>6. \A p \in Procs : HeldInode(p) \in Files => l_rcnt[HeldInode(p)] > 0
  <2>1. \A p \in Procs : p \in OnInode(HeldInode(p)) BY DEF OnInode
  <2>2. \A p \in Procs : Cardinality(OnInode(HeldInode(p))) > 0
    BY <1>4, <2>1, FiniteHolders
  <2> QED BY <1>1, <2>2, FiniteHolders DEF RefsCovered
<1>7. DriverHolds => ref_cnt > 0 BY <1>1, FiniteHolders DEF RefsCovered
<1> QED BY <1>2, <1>5, <1>6, <1>7

\* What taking or giving one reference does to the sets of holders.
LEMMA HoldersAfter ==
  ASSUME PlaceInv, PlaceInv', NEW p \in Procs, NEW f \in Files, SameRefs(Procs \ {p})
  PROVE  /\ HeldInode(p) = None /\ HeldInode(p)' = f
              => /\ Cardinality(Holding') = Cardinality(Holding) + 1
                 /\ Cardinality(OnInode(f)') = Cardinality(OnInode(f)) + 1
         /\ HeldInode(p) = f /\ HeldInode(p)' = None
              => /\ Cardinality(Holding') = Cardinality(Holding) - 1
                 /\ Cardinality(OnInode(f)') = Cardinality(OnInode(f)) - 1
         /\ HeldInode(p) \in {None, f} /\ HeldInode(p)' \in {None, f}
              => \A g \in Files \ {f} : OnInode(g)' = OnInode(g)
<1>0. None \notin Files BY UnplugAssumption DEF Files
<1>1. \A q \in Procs : Holds(q) <=> HeldInode(q) # None BY HeldThroughInode
<1>2. \A q \in Procs : Holds(q)' <=> HeldInode(q)' # None
  BY UnplugAssumption DEF PlaceInv, Types, Places, Holds, HeldInode, ProcPc
<1>3. ASSUME HeldInode(p) = None, HeldInode(p)' = f
      PROVE  /\ Cardinality(Holding') = Cardinality(Holding) + 1
             /\ Cardinality(OnInode(f)') = Cardinality(OnInode(f)) + 1
  <2>1. Holding' = Holding \cup {p} /\ p \notin Holding
    BY <1>0, <1>1, <1>2, <1>3 DEF SameRefs, Holding
  <2>2. OnInode(f)' = OnInode(f) \cup {p} /\ p \notin OnInode(f)
    BY <1>0, <1>3 DEF SameRefs, OnInode
  <2> QED BY <2>1, <2>2, FiniteHolders, FS_AddElement
<1>4. ASSUME HeldInode(p) = f, HeldInode(p)' = None
      PROVE  /\ Cardinality(Holding') = Cardinality(Holding) - 1
             /\ Cardinality(OnInode(f)') = Cardinality(OnInode(f)) - 1
  <2>1. Holding' = Holding \ {p} /\ p \in Holding
    BY <1>0, <1>1, <1>2, <1>4 DEF SameRefs, Holding
  <2>2. OnInode(f)' = OnInode(f) \ {p} /\ p \in OnInode(f)
    BY <1>0, <1>4 DEF SameRefs, OnInode
  <2> QED BY <2>1, <2>2, FiniteHolders, FS_RemoveElement
<1>5. ASSUME HeldInode(p) \in {None, f}, HeldInode(p)' \in {None, f}
      PROVE  \A g \in Files \ {f} : OnInode(g)' = OnInode(g)
  BY <1>0, <1>5 DEF SameRefs, OnInode
<1> QED BY <1>3, <1>4, <1>5

LEMMA SameHolders ==
  ASSUME PlaceInv, PlaceInv', SameRefs(Procs)
  PROVE  Holding' = Holding /\ \A f : OnInode(f)' = OnInode(f)
<1>1. \A q \in Procs : Holds(q) <=> HeldInode(q) # None BY HeldThroughInode
<1>2. \A q \in Procs : Holds(q)' <=> HeldInode(q)' # None
  BY UnplugAssumption DEF PlaceInv, Types, Places, Holds, HeldInode, ProcPc
<1> QED BY <1>1, <1>2 DEF SameRefs, Holding, OnInode

\* A reference that is forgotten stays counted.
LEMMA CoverStep ==
  ASSUME PlaceInv, PlaceInv', RefsCovered, [HUNext]_huVars
  PROVE  RefsCovered'
<1>1. l_rcnt \in [Files -> Int] /\ ref_cnt \in Int BY DEF PlaceInv, Types
<1>2. /\ Cardinality(Holding) \in Nat /\ Cardinality(Holding') \in Nat
      /\ \A f : Cardinality(OnInode(f)) \in Nat
  <2>1. Holding' \in SUBSET Procs BY DEF Holding
  <2> QED BY <2>1, FiniteHolders, FS_Subset, FS_CardinalityType, UnplugAssumption
<1>3. CASE KeepsRefs
  BY <1>3, SameHolders DEF KeepsRefs, counts, RefsCovered
<1>4. CASE DriverGives
  BY <1>1, <1>2, <1>4, SameHolders DEF DriverGives, RefsCovered
<1>5. ASSUME NEW p \in Procs, NEW f \in Files,
             Takes(p, f) \/ Gives(p, f) \/ Leaks(p, f)
      PROVE  RefsCovered'
  <2>1. SameRefs(Procs \ {p}) /\ (DriverHolds' <=> DriverHolds)
    BY <1>5 DEF Takes, Gives, Leaks, DriverHolds
  <2>2. \A g \in Files \ {f} : OnInode(g)' = OnInode(g)
    BY <1>5, <2>1, HoldersAfter DEF Takes, Gives, Leaks
  <2>3. CASE Takes(p, f)
    <3>1. /\ Cardinality(Holding') = Cardinality(Holding) + 1
          /\ Cardinality(OnInode(f)') = Cardinality(OnInode(f)) + 1
      BY <2>1, <2>3, HoldersAfter DEF Takes
    <3> QED BY <1>1, <1>2, <2>1, <2>2, <2>3, <3>1 DEF Takes, GetRef, RefsCovered
  <2>4. CASE Gives(p, f) \/ Leaks(p, f)
    <3>1. /\ Cardinality(Holding') = Cardinality(Holding) - 1
          /\ Cardinality(OnInode(f)') = Cardinality(OnInode(f)) - 1
      BY <2>1, <2>4, HoldersAfter DEF Gives, Leaks
    <3>2. CASE Gives(p, f)
      BY <1>1, <1>2, <2>1, <2>2, <3>1, <3>2 DEF Gives, PutRef, RefsCovered
    <3>3. CASE Leaks(p, f)
      BY <1>1, <1>2, <2>1, <2>2, <3>1, <3>3 DEF Leaks, counts, RefsCovered
    <3> QED BY <2>4, <3>2, <3>3
  <2> QED BY <1>5, <2>3, <2>4
<1> QED BY <1>3, <1>4, <1>5, StepRefs


LEMMA ReaperStep ==
  ASSUME PlaceInv, RefsCovered, OneReaper, [HUNext]_huVars
  PROVE  OneReaper'
<1> DEFINE Same == /\ UNCHANGED ref_cnt
                   /\ allocated' \/ UNCHANGED allocated
                   /\ \A x \in Threads : Reaping(x)' => Reaping(x)
                   /\ vdev_list' \subseteq vdev_list
           Held == /\ ref_cnt > 0 /\ allocated'
                   /\ \A x \in Threads : ~Reaping(x)'
<1>0. /\ Driver \notin Procs
      /\ \A x \in Threads : Reaping(x) => ref_cnt = 0 /\ allocated
      /\ \A x, y \in Threads : Reaping(x) /\ Reaping(y) => x = y
      /\ ref_cnt > 0 => allocated /\ \A x \in Threads : ~Reaping(x)
      /\ ref_cnt \in Int
  BY UnplugAssumption DEF OneReaper, PlaceInv, Types
<1>1. ASSUME Same PROVE OneReaper'
  BY <1>1 DEF OneReaper
<1>2. ASSUME Held PROVE OneReaper'
  BY <1>2 DEF OneReaper
<1>3. /\ \A p \in Procs : Holds(p) => ref_cnt > 0
      /\ DriverHolds => ref_cnt > 0
  BY CoverBounds
<1>4. ref_ptr => ref_cnt > 0 BY <1>3 DEF PlaceInv, Tables, DriverHolds
<1> USE DEF PlaceInv, Types, Places, Threads, Goto, At, Reaping, mutexes, tables, memory,
            direct, counts, walk
<1>5. ASSUME NEW p \in Procs, MngGet(p) \/ VdevGet(p) PROVE OneReaper'
  <2>1. \A x \in Threads : Reaping(x)' => Reaping(x) BY <1>5 DEF MngGet, VdevGet
  <2>2. UNCHANGED <<allocated, vdev_list>> BY <1>5 DEF MngGet, VdevGet
  <2>3. CASE ref_ptr
    <3>1. Held BY <1>0, <1>4, <2>1, <2>2, <2>3
    <3> QED BY <1>2, <3>1
  <2>4. CASE UNCHANGED counts
    <3>1. Same BY <2>1, <2>2, <2>4
    <3> QED BY <1>1, <3>1
  <2> QED BY <1>5, <2>3, <2>4 DEF MngGet, VdevGet
<1>6. ASSUME NEW p \in Procs, CreateInsert(p) PROVE OneReaper'
  <2>1. ref_cnt > 0 BY <1>3, <1>6, UnplugAssumption DEF CreateInsert, Holds
  <2>2. UNCHANGED allocated /\ \A x \in Threads : Reaping(x)' => Reaping(x)
    BY <1>6 DEF CreateInsert
  <2>3. Held BY <1>0, <2>1, <2>2
  <2> QED BY <1>2, <2>3
<1>7. ASSUME NEW p \in Procs, Close(p) PROVE OneReaper'
  <2>1. ref_cnt > 0 BY <1>3, <1>7 DEF Close, Holds
  <2>2. ref_cnt' = ref_cnt - 1 /\ UNCHANGED allocated BY <1>7 DEF Close, PutRef
  <2>3. allocated /\ \A x \in Threads : ~Reaping(x) BY <1>0, <2>1
  <2>4. CASE ref_cnt = 1
    <3>1. \A x \in Threads : Reaping(x)' => x = p BY <1>7, <2>3, <2>4 DEF Close, LastPut
    <3> QED BY <2>2, <2>3, <2>4, <3>1 DEF OneReaper
  <2>5. CASE ref_cnt # 1
    <3>1. \A x \in Threads : ~Reaping(x)' BY <1>7, <2>3, <2>5 DEF Close
    <3> QED BY <2>2, <2>3, <3>1 DEF OneReaper
  <2> QED BY <2>4, <2>5
<1>8. ASSUME UnplugPut PROVE OneReaper'
  <2>1. ref_cnt > 0 BY <1>3, <1>8 DEF UnplugPut, DriverHolds
  <2>2. ref_cnt' = ref_cnt - 1 /\ UNCHANGED allocated BY <1>8 DEF UnplugPut
  <2>3. allocated /\ \A x \in Threads : ~Reaping(x) BY <1>0, <2>1
  <2>4. CASE ref_cnt = 1
    <3>1. \A x \in Threads : Reaping(x)' => x = Driver BY <1>8, <2>3, <2>4 DEF UnplugPut
    <3> QED BY <2>2, <2>3, <2>4, <3>1 DEF OneReaper
  <2>5. CASE ref_cnt # 1
    <3>1. \A x \in Threads : ~Reaping(x)' BY <1>8, <2>3, <2>5 DEF UnplugPut
    <3> QED BY <2>2, <2>3, <3>1 DEF OneReaper
  <2> QED BY <2>4, <2>5
<1>9. ASSUME NEW x \in Threads, ReapMngdev(x) PROVE OneReaper'
  <2>1. Reaping(x) /\ ref_cnt = 0 /\ UNCHANGED ref_cnt BY <1>0, <1>9 DEF ReapMngdev
  <2>2. \A y \in Threads : ~Reaping(y)' BY <1>0, <1>9, <2>1 DEF ReapMngdev
  <2>3. vdev_list' = {} BY <1>9 DEF ReapMngdev
  <2> QED BY <2>1, <2>2, <2>3 DEF OneReaper
<1>10. ASSUME NEW x \in Threads, NEW v \in Vdevs, ReapVdev(x, v) PROVE Same
  BY <1>10 DEF ReapVdev
<1>11. ASSUME NEW p \in Procs, MngOpen(p) \/ Mmap(p) \/ MngPid(p) \/ VdevUse(p) PROVE Same
  BY <1>11 DEF MngOpen, Mmap, MngPid, VdevUse
<1>12. ASSUME NEW p \in Procs, NEW v \in Vdevs,
             CreateIoctl(p, v) \/ DestroyIoctl(p, v) \/ VdevOpen(p, v)
      PROVE  Same
  BY <1>12 DEF CreateIoctl, DestroyIoctl, MngIoctl, VdevOpen
<1>13. ASSUME NEW p \in Procs, DestroyRemove(p) \/ Drain(p) PROVE Same
  BY <1>13 DEF DestroyRemove, Drain
<1>14. ASSUME NEW p \in Procs,
              DirectCall(p) \/ DirectDone(p) \/ ReadSleep(p) \/ ReadWoken(p) \/ ReadEnds(p)
       PROVE  Same
  BY <1>14 DEF DirectCall, DirectDone, ReadSleep, ReadWoken, LockDirectCall,
               UnlockDirectCall, ReadEnds
<1>15. ASSUME UnplugTable \/ UnplugVdevs \/ UnplugInvalidate \/ UnplugUnmap \/ UnplugNext
                \/ UnplugPostponed
       PROVE  Same
  BY <1>15 DEF UnplugTable, UnplugVdevs, UnplugInvalidate, UnplugUnmap, UnplugNext,
               UnplugPostponed
<1>16. CASE UNCHANGED huVars BY <1>1, <1>16 DEF huVars
<1> HIDE DEF PlaceInv, Reaping, Same, Held
<1> QED
  BY <1>1, <1>5, <1>6, <1>7, <1>8, <1>9, <1>10, <1>11, <1>12, <1>13, <1>14, <1>15, <1>16
  DEF HUNext, Call, Work, Unplug, Reap

LEMMA RefInit == ASSUME HUInit PROVE RefInv
<1> USE UnplugAssumption DEF HUInit, Threads
<1>1. OneReaper BY DEF OneReaper, Reaping
<1>2. \A p \in Procs : ~Holds(p) /\ HeldInode(p) = None BY DEF Holds, HeldInode
<1>3. Holding = {} /\ \A f \in Files : OnInode(f) = {}
  BY <1>2 DEF Holding, OnInode, Files
<1>4. RefsCovered BY <1>3, FS_EmptySet DEF RefsCovered, DriverHolds
<1> QED BY <1>1, <1>4 DEF RefInv

LEMMA RefsHold == HUSpec => []RefInv
<1>1. HUInit => RefInv BY RefInit
<1>2. PlaceInv /\ PlaceInv' /\ RefInv /\ [HUNext]_huVars => RefInv'
  BY CoverStep, ReaperStep DEF RefInv
<1> QED BY <1>1, <1>2, PlacesHold, PTL DEF HUSpec

-----------------------------------------------------------------------------
(* The VIRT_DEVs of the open files, and the direct-access lock.            *)

LEMMA FiniteCallers ==
  \A v : IsFiniteSet(Callers(v)) /\ Cardinality(Callers(v)) \in Nat
<1>1. \A v : Callers(v) \in SUBSET Procs BY DEF Callers
<1> QED BY <1>1, FS_Subset, FS_CardinalityType, UnplugAssumption

LEMMA VdevInit == ASSUME HUInit PROVE VdevInv
<1>1. \A v \in Vdevs : Callers(v) = {} BY UnplugAssumption DEF HUInit, Callers
<1> QED BY <1>1, FS_EmptySet, UnplugAssumption DEF HUInit, VdevInv, OpenVdevs

\* Where the calls inside are the same, so is their count.
LEMMA SameCallers ==
  ASSUME VdevInv, UNCHANGED direct_access_active_count,
         \A p \in Procs : pc'[p] = "direct" <=> pc[p] = "direct",
         \A p \in Procs : pc[p] = "direct" => file'[p] = file[p]
  PROVE  \A v \in Vdevs : direct_access_active_count'[v] = Cardinality(Callers(v)')
<1>1. \A v : Callers(v)' = Callers(v) BY DEF Callers
<1> QED BY <1>1 DEF VdevInv

LEMMA CallersStep ==
  ASSUME PlaceInv, VdevInv, [HUNext]_huVars
  PROVE  \A v \in Vdevs : direct_access_active_count'[v] = Cardinality(Callers(v)')
<1> DEFINE Same == /\ UNCHANGED direct_access_active_count
                   /\ \A p \in Procs : pc'[p] = "direct" <=> pc[p] = "direct"
                   /\ \A p \in Procs : pc[p] = "direct" => file'[p] = file[p]
           Exact == \A v \in Vdevs : direct_access_active_count'[v] = Cardinality(Callers(v)')
<1>0. Same => Exact BY SameCallers
<1> USE UnplugAssumption
    DEF PlaceInv, Types, Places, Threads, Goto, At, mutexes, tables, memory, direct, counts,
        walk
<1>1. ASSUME NEW p \in Procs, DirectCall(p) \/ ReadWoken(p) PROVE Exact
  <2> PICK v \in Vdevs : file[p] = v
    BY <1>1 DEF DirectCall, ReadWoken, LockDirectCall
  <2>1. pc[p] # "direct" /\ pc' = [pc EXCEPT ![p] = "direct"] /\ UNCHANGED file
    BY <1>1 DEF DirectCall, ReadWoken, LockDirectCall
  <2>2. direct_access_active_count' = [direct_access_active_count EXCEPT ![v] = @ + 1]
    BY <1>1 DEF DirectCall, ReadWoken, LockDirectCall
  <2>3. Callers(v)' = Callers(v) \cup {p} /\ p \notin Callers(v) BY <2>1 DEF Callers
  <2>4. \A w \in Vdevs \ {v} : Callers(w)' = Callers(w) BY <2>1 DEF Callers
  <2>5. Cardinality(Callers(v)') = Cardinality(Callers(v)) + 1
    <3>1. IsFiniteSet(Callers(v)) BY FiniteCallers
    <3> HIDE DEF PlaceInv, Types, Exact, Same
    <3> QED BY <2>3, <3>1, FS_AddElement
  <2>6. \A w \in Vdevs : direct_access_active_count[w] = Cardinality(Callers(w))
    BY DEF VdevInv
  <2>7. direct_access_active_count \in [Vdevs -> Int] OBVIOUS
  <2> HIDE DEF PlaceInv, Types
  <2> QED BY <2>1, <2>2, <2>4, <2>5, <2>6, <2>7
<1>2. ASSUME NEW p \in Procs, DirectDone(p) \/ ReadSleep(p) PROVE Exact
  <2> PICK v \in Vdevs : file[p] = v
    BY <1>2 DEF DirectDone, ReadSleep, UnlockDirectCall
  <2>1. /\ pc[p] = "direct" /\ UNCHANGED file
        /\ \E where \in {"user", "sleep"} : pc' = [pc EXCEPT ![p] = where]
    BY <1>2 DEF DirectDone, ReadSleep, UnlockDirectCall
  <2>2. direct_access_active_count' = [direct_access_active_count EXCEPT ![v] = @ - 1]
    BY <1>2 DEF DirectDone, ReadSleep, UnlockDirectCall
  <2>3. Callers(v)' = Callers(v) \ {p} /\ p \in Callers(v) BY <2>1 DEF Callers
  <2>4. \A w \in Vdevs \ {v} : Callers(w)' = Callers(w) BY <2>1 DEF Callers
  <2>5. Cardinality(Callers(v)') = Cardinality(Callers(v)) - 1
    <3>1. IsFiniteSet(Callers(v)) BY FiniteCallers
    <3> HIDE DEF PlaceInv, Types, Exact, Same
    <3> QED BY <2>3, <3>1, FS_RemoveElement
  <2>6. \A w \in Vdevs : direct_access_active_count[w] = Cardinality(Callers(w))
    BY DEF VdevInv
  <2>7. direct_access_active_count \in [Vdevs -> Int] OBVIOUS
  <2> HIDE DEF PlaceInv, Types
  <2> QED BY <2>1, <2>2, <2>4, <2>5, <2>6, <2>7
<1>3. ASSUME NEW p \in Procs, CreateInsert(p) PROVE Exact
  <2> PICK v \in Vdevs : arg[p] = v BY <1>3 DEF CreateInsert
  <2>1. /\ v \notin vdev_list
        /\ \A q \in Procs : (pc'[q] = "direct" <=> pc[q] = "direct") /\ file'[q] = file[q]
        /\ direct_access_active_count' = [direct_access_active_count EXCEPT ![v] = 0]
    BY <1>3 DEF CreateInsert, VdevInv, OpenVdevs
  <2>2. \A w : Callers(w)' = Callers(w) BY <2>1 DEF Callers
  <2>3. Callers(v) = {} BY <2>1 DEF Callers, VdevInv, OpenVdevs
  <2> QED BY <2>1, <2>2, <2>3, FS_EmptySet DEF VdevInv
<1>4. ASSUME NEW p \in Procs, Close(p) PROVE Same BY <1>4 DEF Close, LastPut
<1>5. ASSUME NEW p \in Procs, VdevUse(p) \/ MngPid(p) PROVE Same BY <1>5 DEF VdevUse, MngPid
<1>6. ASSUME NEW p \in Procs, MngOpen(p) \/ Mmap(p) \/ MngGet(p) \/ VdevGet(p) PROVE Same
  BY <1>6 DEF MngOpen, Mmap, MngGet, VdevGet
<1>7. ASSUME NEW p \in Procs, NEW v \in Vdevs,
             CreateIoctl(p, v) \/ DestroyIoctl(p, v) \/ VdevOpen(p, v)
      PROVE  Same
  BY <1>7 DEF CreateIoctl, DestroyIoctl, MngIoctl, VdevOpen
<1>8. ASSUME NEW p \in Procs, DestroyRemove(p) \/ ReadEnds(p) \/ Drain(p) PROVE Same
  BY <1>8 DEF DestroyRemove, ReadEnds, Drain
<1>9. ASSUME NEW x \in Threads, Reap(x) PROVE Same
  BY <1>9 DEF Reap, ReapMngdev, ReapVdev
<1>10. ASSUME Unplug PROVE Same
  BY <1>10 DEF Unplug, UnplugTable, UnplugVdevs, UnplugInvalidate, UnplugUnmap, UnplugNext,
               UnplugPut, UnplugPostponed
<1>11. ASSUME UNCHANGED huVars PROVE Same BY <1>11 DEF huVars
<1> HIDE DEF PlaceInv, Same, Exact
<1>12. Exact
  BY <1>0, <1>1, <1>2, <1>3, <1>4, <1>5, <1>6, <1>7, <1>8, <1>9, <1>10, <1>11
  DEF HUNext, Call, Work
<1> QED BY <1>12 DEF Exact

LEMMA OpenVdevsStep ==
  ASSUME "destroy_open" \notin Habits, PlaceInv, RefInv, OpenVdevs, [HUNext]_huVars
  PROVE  OpenVdevs'
<1> USE UnplugAssumption
    DEF PlaceInv, Types, Places, Threads, Goto, At, OpenVdevs, mutexes, tables, memory,
        direct, counts, walk, Files
<1> DEFINE Same == /\ UNCHANGED <<file, vdev_list>>
                   /\ \A p \in Procs : pc'[p] \in {"create", "destroy"}
                                         => pc'[p] = pc[p] /\ arg'[p] = arg[p]
<1>1. ASSUME Same PROVE OpenVdevs' BY <1>1
<1>2. ASSUME NEW p \in Procs, NEW v \in Vdevs, CreateIoctl(p, v) PROVE OpenVdevs'
  BY <1>2 DEF CreateIoctl, MngIoctl
<1>3. ASSUME NEW p \in Procs, NEW v \in Vdevs, DestroyIoctl(p, v) PROVE OpenVdevs'
  BY <1>3 DEF DestroyIoctl, MngIoctl
<1>4. ASSUME NEW p \in Procs, CreateInsert(p) \/ DestroyRemove(p) PROVE OpenVdevs'
  <2>1. \A q \in Procs : pc[q] \in {"create", "destroy"} => q = p
    BY <1>4 DEF CreateInsert, DestroyRemove, Mutexes
  <2>2. \A q \in Procs : pc'[q] \notin {"create", "destroy"} /\ file'[q] = file[q]
    BY <1>4, <2>1 DEF CreateInsert, DestroyRemove
  <2>3. \A q \in Procs : file[q] \in vdev_list => file[q] \in vdev_list'
    BY <1>4 DEF CreateInsert, DestroyRemove
  <2> QED BY <2>2, <2>3
<1>5. ASSUME NEW p \in Procs, VdevUse(p) PROVE OpenVdevs'
  <2>1. \A q \in Procs : pc[q] \notin {"create", "destroy"} BY <1>5 DEF VdevUse, Mutexes
  <2>2. arg[p] \in vdev_list BY <1>5 DEF VdevUse, Tables
  <2> QED BY <1>5, <2>1, <2>2 DEF VdevUse
<1>6. ASSUME NEW p \in Procs, MngPid(p) PROVE OpenVdevs'
  BY <1>6 DEF MngPid
<1>7. ASSUME NEW p \in Procs, Close(p) PROVE OpenVdevs'
  BY <1>7 DEF Close, LastPut
<1>8. ASSUME NEW x \in Threads, NEW v \in Vdevs, ReapVdev(x, v) PROVE OpenVdevs'
  <2>1. ref_cnt = 0 BY <1>8 DEF ReapVdev, RefInv, OneReaper, Reaping
  <2>2. \A p \in Procs : file[p] = None BY <2>1, CoverBounds DEF RefInv, Holds
  <2> QED BY <1>8, <2>2 DEF ReapVdev
<1>9. ASSUME NEW x \in Threads, ReapMngdev(x) PROVE Same BY <1>9 DEF ReapMngdev
<1>10. ASSUME NEW p \in Procs, MngOpen(p) \/ Mmap(p) \/ MngGet(p) \/ VdevGet(p) PROVE Same
  BY <1>10 DEF MngOpen, Mmap, MngGet, VdevGet
<1>11. ASSUME NEW p \in Procs, NEW v \in Vdevs, VdevOpen(p, v) PROVE Same
  BY <1>11 DEF VdevOpen
<1>12. ASSUME NEW p \in Procs,
              DirectCall(p) \/ DirectDone(p) \/ ReadSleep(p) \/ ReadWoken(p) \/ ReadEnds(p)
                \/ Drain(p)
       PROVE  Same
  BY <1>12 DEF DirectCall, DirectDone, ReadSleep, ReadWoken, LockDirectCall,
               UnlockDirectCall, ReadEnds, Drain
<1>13. ASSUME Unplug PROVE Same
  BY <1>13 DEF Unplug, UnplugTable, UnplugVdevs, UnplugInvalidate, UnplugUnmap, UnplugNext,
               UnplugPut, UnplugPostponed
<1>14. ASSUME UNCHANGED huVars PROVE Same BY <1>14 DEF huVars
<1> HIDE DEF PlaceInv, OpenVdevs, Same
<1> QED
  BY <1>1, <1>2, <1>3, <1>4, <1>5, <1>6, <1>7, <1>8, <1>9, <1>10, <1>11, <1>12, <1>13, <1>14
  DEF HUNext, Call, Work, Reap

-----------------------------------------------------------------------------
(* The walk of the inodes.                                                 *)

\* A file that is open has a node in the list.
LEMMA OpenIsLinked ==
  ASSUME PlaceInv, RefsCovered
  PROVE  \A p \in Procs : file[p] # None => file[p] \in ref_lhd
<1>1. \A p \in Procs : file[p] # None => HeldInode(p) = file[p] /\ file[p] \in Files
  BY DEF PlaceInv, Types, Places, HeldInode
<1> QED BY <1>1, CoverBounds DEF ref_lhd

LEMMA WalkInit == ASSUME HUInit PROVE WalkInv
  BY UnplugAssumption DEF HUInit, WalkInv, Saved

LEMMA WalkStep ==
  ASSUME "close_while_unmapping" \notin Habits, PlaceInv, RefsCovered, WalkInv,
         [HUNext]_huVars
  PROVE  WalkInv'
<1> USE UnplugAssumption
    DEF PlaceInv, Types, Places, Threads, Goto, At, WalkInv, Saved, mutexes, tables, memory,
        direct, counts, walk, Files
<1> DEFINE Same == /\ UNCHANGED <<walk, pc[Driver], mapped, l_rcnt>>
                   /\ \A p \in mapped : file'[p] = file[p]
<1>0. /\ \A p \in Procs : file[p] # None => file[p] \in ref_lhd
      /\ \A f \in Files : l_rcnt[f] \in Nat
  BY OpenIsLinked, CoverBounds
<1>1. ASSUME Same PROVE WalkInv' BY <1>1 DEF ref_lhd
<1>2. ASSUME NEW p \in Procs, MngGet(p) \/ VdevGet(p) PROVE WalkInv'
  <2>1. UNCHANGED <<walk, pc[Driver], mapped, file>> BY <1>2 DEF MngGet, VdevGet
  <2>2. ref_lhd \subseteq ref_lhd' BY <1>0, <1>2 DEF MngGet, VdevGet, GetRef, ref_lhd
  <2> QED BY <2>1, <2>2
<1>3. ASSUME NEW p \in Procs, Close(p) PROVE WalkInv'
  <2>1. /\ UNCHANGED <<walk, pc[Driver]>> /\ mapped' = mapped \ {p}
        /\ \A q \in mapped' : file'[q] = file[q]
    BY <1>3 DEF Close, LastPut
  <2>2. \A f \in Files : Saved(f) /\ f \in ref_lhd => f \in ref_lhd'
    BY <1>0, <1>3 DEF Close, PutRef, ref_lhd
  <2>3. \A f \in Files : Saved(f)' <=> Saved(f) BY <2>1
  <2> HIDE DEF Saved
  <2> QED BY <2>1, <2>2, <2>3
<1>4. ASSUME NEW p \in Procs, Mmap(p) PROVE WalkInv'
  BY <1>4 DEF Mmap, Tables, ref_lhd
<1>5. ASSUME UnplugInvalidate PROVE WalkInv'
  <2>1. \A p \in mapped : file[p] \in ref_lhd BY <1>0
  <2>2. CASE ref_lhd = {} /\ pc' = [pc EXCEPT ![Driver] = "relock"] /\ UNCHANGED walk
    <3>1. n = None /\ UNCHANGED <<mapped, file>> BY <1>5 DEF UnplugInvalidate, Tables
    <3> QED BY <2>1, <2>2, <3>1
  <2>3. CASE \E f \in ref_lhd :
               /\ l' = f /\ left' = ref_lhd \ {f}
               /\ n' \in NodesAfter(f, left')
               /\ pc' = [pc EXCEPT ![Driver] = "unmap"]
    <3>1. PICK f \in ref_lhd : /\ l' = f /\ left' = ref_lhd \ {f}
                               /\ n' \in NodesAfter(f, left')
                               /\ pc' = [pc EXCEPT ![Driver] = "unmap"]
      BY <2>3
    <3>2. UNCHANGED <<mapped, file, ref_lhd>> BY <1>5 DEF UnplugInvalidate, ref_lhd
    <3>3. (n' = None /\ left' = {}) \/ n' \in left' BY <3>1 DEF NodesAfter
    <3>4. None \notin left' BY <3>1 DEF ref_lhd
    <3>5. \A g \in Files : Saved(g)' => g \in ref_lhd'
      <4>1. left' \subseteq ref_lhd' /\ None \notin Files BY <3>1, <3>2
      <4> QED BY <3>3, <4>1
    <3>6. \A p \in mapped' : file'[p] \in {l', n'} \cup left' BY <2>1, <3>1, <3>2
    <3>7. \A p \in mapped' : file'[p] # None BY <3>2
    <3> QED BY <3>1, <3>3, <3>4, <3>5, <3>6, <3>7
  <2> QED BY <1>5, <2>2, <2>3 DEF UnplugInvalidate
<1>6. ASSUME UnplugUnmap PROVE WalkInv'
  BY <1>6 DEF UnplugUnmap, ref_lhd
<1>7. ASSUME UnplugNext PROVE WalkInv'
  <2>1. /\ pc[Driver] = "relock" /\ pc' = [pc EXCEPT ![Driver] = "unmap"]
        /\ n # None /\ l' = n /\ left' = (left \ {n}) \cap ref_lhd
        /\ n' \in NodesAfter(n, left')
        /\ UNCHANGED <<mapped, file, l_rcnt>>
    BY <1>7 DEF UnplugNext
  <2>2. n \in ref_lhd /\ ref_lhd' = ref_lhd BY <2>1 DEF ref_lhd
  <2>3. (n' = None /\ left' = {}) \/ n' \in left' BY <2>1, <2>2 DEF NodesAfter
  <2>4. None \notin left' BY <2>1 DEF ref_lhd
  <2>5. \A p \in mapped : file[p] \in {n} \cup (left \cap ref_lhd) BY <1>0, <2>1
  <2>6. \A f \in Files : Saved(f)' => f \in ref_lhd'
    <3>1. left' \subseteq ref_lhd' /\ None \notin Files BY <2>1, <2>2
    <3> QED BY <2>3, <3>1
  <2>7. \A p \in mapped' : file'[p] \in {l', n'} \cup left' BY <2>1, <2>5
  <2>8. \A p \in mapped' : file'[p] # None BY <2>1
  <2> QED BY <2>1, <2>3, <2>4, <2>6, <2>7, <2>8
<1>8. ASSUME UnplugPut PROVE WalkInv'
  <2>1. n = None /\ left = {} /\ mapped = {} BY <1>8 DEF UnplugPut
  <2> QED BY <1>8, <2>1 DEF UnplugPut, ref_lhd
<1>9. ASSUME UnplugTable \/ UnplugVdevs \/ UnplugPostponed PROVE WalkInv'
  BY <1>9 DEF UnplugTable, UnplugVdevs, UnplugPostponed, ref_lhd
<1>10. ASSUME NEW p \in Procs, MngPid(p) \/ VdevUse(p) PROVE Same
  BY <1>10 DEF MngPid, VdevUse
<1>11. ASSUME NEW x \in Threads, Reap(x) PROVE WalkInv'
  <2>1. UNCHANGED <<walk, mapped, file, l_rcnt>> BY <1>11 DEF Reap, ReapMngdev, ReapVdev
  <2>2. pc'[Driver] = pc[Driver] \/ (pc[Driver] = "reap" /\ pc'[Driver] = "done")
    BY <1>11 DEF Reap, ReapMngdev, ReapVdev
  <2> QED BY <2>1, <2>2 DEF ref_lhd
<1>12. ASSUME NEW p \in Procs, MngOpen(p) PROVE Same BY <1>12 DEF MngOpen
<1>13. ASSUME NEW p \in Procs, NEW v \in Vdevs,
              CreateIoctl(p, v) \/ DestroyIoctl(p, v) \/ VdevOpen(p, v)
       PROVE  Same
  BY <1>13 DEF CreateIoctl, DestroyIoctl, MngIoctl, VdevOpen
<1>14. ASSUME NEW p \in Procs, CreateInsert(p) \/ DestroyRemove(p) PROVE Same
  BY <1>14 DEF CreateInsert, DestroyRemove
<1>15. ASSUME NEW p \in Procs,
              DirectCall(p) \/ DirectDone(p) \/ ReadSleep(p) \/ ReadWoken(p) \/ ReadEnds(p)
                \/ Drain(p)
       PROVE  Same
  BY <1>15 DEF DirectCall, DirectDone, ReadSleep, ReadWoken, LockDirectCall,
               UnlockDirectCall, ReadEnds, Drain
<1>16. ASSUME UNCHANGED huVars PROVE Same BY <1>16 DEF huVars
<1> HIDE DEF PlaceInv, WalkInv, Same
<1> QED
  BY <1>1, <1>2, <1>3, <1>4, <1>5, <1>6, <1>7, <1>8, <1>9, <1>10, <1>11, <1>12, <1>13,
     <1>14, <1>15, <1>16
  DEF HUNext, Call, Work, Unplug

-----------------------------------------------------------------------------
(* The message of a removal that leaves the device to the last close.      *)

LEMMA PostponedStep ==
  ASSUME "close_while_postponing" \notin Habits, PlaceInv, RefsCovered, PostponedInv,
         [HUNext]_huVars
  PROVE  PostponedInv'
<1> USE UnplugAssumption
    DEF PlaceInv, Types, Places, Threads, Goto, At, PostponedInv, mutexes, tables, memory,
        direct, counts, walk
<1> DEFINE Same == /\ UNCHANGED ref_cnt
                   /\ pc'[Driver] = "postponed" => pc[Driver] = "postponed"
<1>0. /\ ref_cnt \in Nat
      /\ DriverHolds => ref_cnt > 0
  BY CoverBounds
<1>1. ASSUME NEW p \in Procs, Close(p) PROVE PostponedInv'
  BY <1>0, <1>1 DEF Close, LastPut, PutRef
<1>2. ASSUME UnplugPut PROVE PostponedInv'
  BY <1>0, <1>2 DEF UnplugPut, DriverHolds
<1>3. ASSUME NEW p \in Procs, MngGet(p) \/ VdevGet(p) PROVE PostponedInv'
  BY <1>0, <1>3 DEF MngGet, VdevGet, GetRef
<1>4. ASSUME NEW p \in Procs, MngOpen(p) \/ Mmap(p) \/ MngPid(p) \/ VdevUse(p) PROVE Same
  BY <1>4 DEF MngOpen, Mmap, MngPid, VdevUse
<1>5. ASSUME NEW p \in Procs, NEW v \in Vdevs,
             CreateIoctl(p, v) \/ DestroyIoctl(p, v) \/ VdevOpen(p, v)
      PROVE  Same
  BY <1>5 DEF CreateIoctl, DestroyIoctl, MngIoctl, VdevOpen
<1>6. ASSUME NEW p \in Procs, CreateInsert(p) \/ DestroyRemove(p) \/ Drain(p) PROVE Same
  BY <1>6 DEF CreateInsert, DestroyRemove, Drain
<1>7. ASSUME NEW p \in Procs,
             DirectCall(p) \/ DirectDone(p) \/ ReadSleep(p) \/ ReadWoken(p) \/ ReadEnds(p)
      PROVE  Same
  BY <1>7 DEF DirectCall, DirectDone, ReadSleep, ReadWoken, LockDirectCall,
              UnlockDirectCall, ReadEnds
<1>8. ASSUME NEW x \in Threads, Reap(x) PROVE Same
  BY <1>8 DEF Reap, ReapMngdev, ReapVdev
<1>9. ASSUME UnplugTable \/ UnplugVdevs \/ UnplugInvalidate \/ UnplugUnmap \/ UnplugNext
               \/ UnplugPostponed
      PROVE  Same
  BY <1>9 DEF UnplugTable, UnplugVdevs, UnplugInvalidate, UnplugUnmap, UnplugNext,
              UnplugPostponed
<1>10. ASSUME UNCHANGED huVars PROVE Same BY <1>10 DEF huVars
<1>11. ASSUME Same PROVE PostponedInv' BY <1>11
<1> HIDE DEF PlaceInv, PostponedInv, Same
<1> QED
  BY <1>1, <1>2, <1>3, <1>4, <1>5, <1>6, <1>7, <1>8, <1>9, <1>10, <1>11
  DEF HUNext, Call, Work, Unplug

LEMMA PostponedHolds ==
  ASSUME "close_while_postponing" \notin Habits PROVE HUSpec => []PostponedInv
<1>1. HUInit => PostponedInv BY DEF HUInit, PostponedInv, At
<1>2. PlaceInv /\ RefInv /\ PostponedInv /\ [HUNext]_huVars => PostponedInv'
  BY PostponedStep DEF RefInv
<1>3. HUSpec => []RefInv BY RefsHold
<1> QED BY <1>1, <1>2, <1>3, PlacesHold, PTL DEF HUSpec

-----------------------------------------------------------------------------
(* What the invariants add up to.                                          *)

LEMMA VdevsHold ==
  ASSUME "destroy_open" \notin Habits PROVE HUSpec => []VdevInv
<1>1. HUInit => VdevInv BY VdevInit
<1>2. PlaceInv /\ RefInv /\ VdevInv /\ [HUNext]_huVars => VdevInv'
  BY OpenVdevsStep, CallersStep DEF VdevInv
<1>3. HUSpec => []RefInv BY RefsHold
<1> QED BY <1>1, <1>2, <1>3, PlacesHold, PTL DEF HUSpec

LEMMA WalkHolds ==
  ASSUME "close_while_unmapping" \notin Habits PROVE HUSpec => []WalkInv
<1>1. HUInit => WalkInv BY WalkInit
<1>2. PlaceInv /\ RefInv /\ WalkInv /\ [HUNext]_huVars => WalkInv'
  BY WalkStep DEF RefInv
<1>3. HUSpec => []RefInv BY RefsHold
<1> QED BY <1>1, <1>2, <1>3, PlacesHold, PTL DEF HUSpec

\* Every variable keeps its type; in particular no reference is put twice and no
\* direct call is left that was not entered, for those counts never go below 0.  A
\* VIRT_DEV destroyed while open and created again would start its count afresh.
THEOREM HUTypeCorrect ==
  ASSUME "destroy_open" \notin Habits PROVE HUSpec => []HUTypeOK
<1>1. PlaceInv /\ RefInv /\ VdevInv => HUTypeOK
  <2> SUFFICES ASSUME PlaceInv, RefInv, VdevInv PROVE HUTypeOK OBVIOUS
  <2>1. ref_cnt \in Nat /\ l_rcnt \in [Files -> Nat]
    BY CoverBounds DEF RefInv, PlaceInv, Types
  <2>2. direct_access_active_count \in [Vdevs -> Nat]
    BY FiniteCallers DEF VdevInv, PlaceInv, Types
  <2> QED BY <2>1, <2>2 DEF PlaceInv, Types, HUTypeOK, Threads
<1>2. HUSpec => []RefInv /\ []VdevInv BY RefsHold, VdevsHold
<1> QED BY <1>1, <1>2, PlacesHold, PTL

\* The direct-access lock exists "to prevent running the code after the VDEV
\* destruction": nobody in the driver or with a file open finds the MNG_DEV or its
\* VIRT_DEV freed, the tables lead to living objects, the walk of the inodes never
\* reads the node of one that is gone, and the removal of the card does not read the
\* device after the last close freed it.  Each of the three habits excluded breaks
\* this, two of them being no more than a close at a bad moment; a second open of the
\* MNG_DEV, which leaks a reference, does not.
THEOREM HUNoUseAfterFree ==
  ASSUME {"destroy_open", "close_while_unmapping", "close_while_postponing"}
            \cap Habits = {}
  PROVE  HUSpec => []NoUseAfterFree
<1>1. PlaceInv /\ RefInv /\ VdevInv /\ WalkInv /\ PostponedInv => NoUseAfterFree
  <2> SUFFICES ASSUME PlaceInv, RefInv, VdevInv, WalkInv, PostponedInv
               PROVE  NoUseAfterFree
    OBVIOUS
  <2> USE DEF PlaceInv, Places, Tables, RefInv
  <2>1. ref_cnt > 0 => allocated BY DEF OneReaper, Types
  <2>2. DriverHolds => allocated BY <2>1, CoverBounds
  <2>3. mngdev_table \/ vdev_table # {} => allocated
    BY <2>2 DEF DriverHolds, OneReaper
  <2>4. ASSUME NEW p \in Procs, file[p] # None \/ ~At(p, "user") PROVE allocated
    <3>1. CASE Holds(p) BY <2>1, <3>1, CoverBounds
    <3>2. CASE pc[p] \in {"drain", "reap"} BY <3>2 DEF OneReaper, Reaping, Threads
    <3>3. CASE pc[p] = "mng_get" BY <2>3, <3>3
    <3>4. CASE pc[p] = "vdev_get" BY <3>4 DEF OneReaper
    <3>5. CASE pc[p] \in {"create", "destroy", "direct", "sleep"}
      <4>1. file[p] # None BY <3>5, UnplugAssumption
      <4> QED BY <3>1, <4>1 DEF Holds
    <3> QED BY <2>4, <3>1, <3>2, <3>3, <3>4, <3>5 DEF Holds, At, ProcPc
  <2>5. ~At(Driver, "done") => allocated
    BY <2>1, <2>2 DEF DriverHolds, OneReaper, Reaping, At, DriverPc, Threads, PostponedInv
  <2> QED BY <2>3, <2>4, <2>5 DEF NoUseAfterFree, VdevInv, OpenVdevs, WalkInv
<1>2. HUSpec => []RefInv /\ []VdevInv /\ []WalkInv /\ []PostponedInv
  BY RefsHold, VdevsHold, WalkHolds, PostponedHolds
<1> QED BY <1>1, <1>2, PlacesHold, PTL

\* Once modac_mngdev_destroy has walked the inodes, "all mappings of registers have
\* disappeared": none is left, though files are opened, mapped and closed while the
\* lock is released for each, and none comes back.  A walk that reads a freed node
\* may miss the rest.
THEOREM HUMappingsGone ==
  ASSUME "close_while_unmapping" \notin Habits
  PROVE  HUSpec => []MappingsGone
<1>1. PlaceInv /\ WalkInv => MappingsGone
  BY DEF PlaceInv, Types, WalkInv, MappingsGone, At
<1>2. HUSpec => []WalkInv BY WalkHolds
<1> QED BY <1>1, <1>2, PlacesHold, PTL

-----------------------------------------------------------------------------
(* The exact count, while the MNG_DEV is not opened twice.                 *)

LEMMA ManagerStep ==
  ASSUME "two_managers" \notin Habits, PlaceInv, OneManager, [HUNext]_huVars
  PROVE  OneManager'
<1> USE UnplugAssumption
    DEF PlaceInv, Types, Places, Mutexes, OneManager, Manages, Threads, Goto, At, Files,
        mutexes, tables, memory, direct, counts, walk
<1>1. ASSUME NEW p \in Procs, MngOpen(p) PROVE OneManager'
  <2>1. \A q \in Procs : ~Manages(q) BY <1>1 DEF MngOpen
  <2> QED BY <1>1, <2>1 DEF MngOpen
<1>2. ASSUME NEW p \in Procs, MngPid(p) PROVE OneManager'
  <2>1. pid = None BY <1>2 DEF MngPid
  <2>2. pid' = p /\ file' = [file EXCEPT ![p] = Mng] /\ pc' = [pc EXCEPT ![p] = "user"]
    BY <1>2, <2>1 DEF MngPid
  <2> QED BY <1>2, <2>1, <2>2 DEF MngPid
<1>3. ASSUME NEW p \in Procs, Close(p) PROVE OneManager'
  BY <1>3 DEF Close, LastPut
<1>4. ASSUME NEW p \in Procs, VdevUse(p) PROVE OneManager'
  BY <1>4 DEF VdevUse
<1>5. ASSUME UNCHANGED <<file, pid>>,
             \A q \in Procs : pc'[q] \in {"mng_get", "mng_pid"}
                                => pc[q] \in {"mng_get", "mng_pid"}
      PROVE  OneManager'
  BY <1>5
<1>6. ASSUME NEW p \in Procs, MngGet(p) PROVE OneManager'
  BY <1>6, <1>5 DEF MngGet
<1>7. ASSUME NEW p \in Procs, NEW v \in Vdevs,
             CreateIoctl(p, v) \/ DestroyIoctl(p, v) \/ VdevOpen(p, v)
      PROVE  OneManager'
  BY <1>7, <1>5 DEF CreateIoctl, DestroyIoctl, MngIoctl, VdevOpen
<1>8. ASSUME NEW p \in Procs, CreateInsert(p) \/ DestroyRemove(p) \/ Mmap(p) \/ VdevGet(p)
      PROVE  OneManager'
  BY <1>8, <1>5 DEF CreateInsert, DestroyRemove, Mmap, VdevGet
<1>9. ASSUME NEW p \in Procs,
             DirectCall(p) \/ DirectDone(p) \/ ReadSleep(p) \/ ReadWoken(p) \/ ReadEnds(p)
               \/ Drain(p)
      PROVE  OneManager'
  BY <1>9, <1>5 DEF DirectCall, DirectDone, ReadSleep, ReadWoken, LockDirectCall,
                    UnlockDirectCall, ReadEnds, Drain
<1>10. ASSUME NEW x \in Threads, Reap(x) PROVE OneManager'
  BY <1>10, <1>5 DEF Reap, ReapMngdev, ReapVdev
<1>11. CASE Unplug
  BY <1>11, <1>5 DEF Unplug, UnplugTable, UnplugVdevs, UnplugInvalidate, UnplugUnmap,
                     UnplugNext, UnplugPut, UnplugPostponed
<1>12. CASE UNCHANGED huVars BY <1>12, <1>5 DEF huVars
<1> QED
  BY <1>1, <1>2, <1>3, <1>4, <1>6, <1>7, <1>8, <1>9, <1>10, <1>11, <1>12
  DEF HUNext, Call, Work

LEMMA CountsExact ==
  RefCountExact <=>
    /\ ref_cnt = Cardinality(Holding) + (IF DriverHolds THEN 1 ELSE 0)
    /\ \A f \in Files : l_rcnt[f] = Cardinality(OnInode(f))
  BY DEF RefCountExact, Holding, OnInode

\* The count is 1 only when nobody else holds a reference.
LEMMA LastReference ==
  ASSUME PlaceInv, RefCountExact
  PROVE  /\ \A p \in Procs : Holds(p) =>
              (ref_cnt = 1 <=> ~DriverHolds /\ \A q \in Procs \ {p} : ~Holds(q))
         /\ DriverHolds => (ref_cnt = 1 <=> \A q \in Procs : ~Holds(q))
<1>1. ref_cnt = Cardinality(Holding) + (IF DriverHolds THEN 1 ELSE 0)
  BY CountsExact
<1>2. Cardinality(Holding) = 0 <=> Holding = {} BY FiniteHolders, FS_EmptySet
<1>3. Cardinality(Holding) = 1 <=> \E p : Holding = {p} BY FiniteHolders, FS_Singleton
<1>4. ASSUME NEW p \in Procs, Holds(p)
      PROVE  ref_cnt = 1 <=> ~DriverHolds /\ \A q \in Procs \ {p} : ~Holds(q)
  <2>1. p \in Holding BY <1>4 DEF Holding
  <2>2. Cardinality(Holding) > 0 BY <2>1, <1>2, FiniteHolders
  <2>3. Cardinality(Holding) = 1 <=> Holding = {p} BY <2>1, <1>3
  <2>4. Holding = {p} <=> \A q \in Procs \ {p} : ~Holds(q) BY <1>4 DEF Holding
  <2> QED BY <1>1, <2>2, <2>3, <2>4, FiniteHolders
<1>5. DriverHolds => (ref_cnt = 1 <=> \A q \in Procs : ~Holds(q))
  <2>1. Holding = {} <=> \A q \in Procs : ~Holds(q) BY DEF Holding
  <2> QED BY <1>1, <1>2, <2>1, FiniteHolders
<1> QED BY <1>4, <1>5

LEMMA ExactStep ==
  ASSUME PlaceInv, PlaceInv', OneManager, RefCountExact, [HUNext]_huVars
  PROVE  RefCountExact'
<1>1. /\ ref_cnt = Cardinality(Holding) + (IF DriverHolds THEN 1 ELSE 0)
      /\ \A f \in Files : l_rcnt[f] = Cardinality(OnInode(f))
  BY CountsExact
<1>2. l_rcnt \in [Files -> Int] /\ ref_cnt \in Int BY DEF PlaceInv, Types
<1>3. SUFFICES /\ ref_cnt' = Cardinality(Holding') + (IF DriverHolds' THEN 1 ELSE 0)
               /\ \A f \in Files : l_rcnt'[f] = Cardinality(OnInode(f)')
  BY DEF RefCountExact, Holding, OnInode
<1>4. CASE KeepsRefs
  BY <1>1, <1>4, SameHolders DEF KeepsRefs, counts
<1>5. CASE DriverGives
  BY <1>1, <1>5, SameHolders, FiniteHolders DEF DriverGives
<1>6. ASSUME NEW p \in Procs, NEW f \in Files, Takes(p, f) \/ Gives(p, f)
      PROVE  /\ ref_cnt' = Cardinality(Holding') + (IF DriverHolds' THEN 1 ELSE 0)
             /\ \A g \in Files : l_rcnt'[g] = Cardinality(OnInode(g)')
  <2>1. SameRefs(Procs \ {p}) /\ (DriverHolds' <=> DriverHolds)
    BY <1>6 DEF Takes, Gives, DriverHolds
  <2>2. \A g \in Files \ {f} : OnInode(g)' = OnInode(g)
    BY <1>6, <2>1, HoldersAfter DEF Takes, Gives
  <2>3. CASE Takes(p, f)
    <3>1. /\ Cardinality(Holding') = Cardinality(Holding) + 1
          /\ Cardinality(OnInode(f)') = Cardinality(OnInode(f)) + 1
      BY <2>1, <2>3, HoldersAfter DEF Takes
    <3> QED BY <1>1, <1>2, <2>1, <2>2, <2>3, <3>1, FiniteHolders DEF Takes, GetRef
  <2>4. CASE Gives(p, f)
    <3>1. /\ Cardinality(Holding') = Cardinality(Holding) - 1
          /\ Cardinality(OnInode(f)') = Cardinality(OnInode(f)) - 1
      BY <2>1, <2>4, HoldersAfter DEF Gives
    <3> QED BY <1>1, <1>2, <2>1, <2>2, <2>4, <3>1, FiniteHolders DEF Gives, PutRef
  <2> QED BY <1>6, <2>3, <2>4
<1>7. ASSUME NEW p \in Procs, NEW f \in Files PROVE ~Leaks(p, f)
  BY UnplugAssumption DEF Leaks, OneManager, Manages, PlaceInv, Types, Places
<1> QED BY <1>4, <1>5, <1>6, <1>7, StepRefs

LEMMA ExactInit == ASSUME HUInit PROVE OneManager /\ RefCountExact
<1> USE UnplugAssumption DEF HUInit
<1>1. OneManager BY DEF OneManager, Manages
<1>2. \A p \in Procs : ~Holds(p) /\ HeldInode(p) = None BY DEF Holds, HeldInode
<1>3. Holding = {} /\ \A f \in Files : OnInode(f) = {}
  BY <1>2 DEF Holding, OnInode, Files
<1>4. DriverHolds BY DEF DriverHolds
<1>5. ref_cnt = 1 /\ \A f \in Files : l_rcnt[f] = 0 OBVIOUS
<1>6. RefCountExact
  <2> HIDE DEF HUInit
  <2> QED BY <1>3, <1>4, <1>5, CountsExact, FS_EmptySet
<1> QED BY <1>1, <1>6

LEMMA ExactHolds ==
  ASSUME "two_managers" \notin Habits PROVE HUSpec => [](OneManager /\ RefCountExact)
<1>1. HUInit => OneManager /\ RefCountExact BY ExactInit
<1>2. PlaceInv /\ PlaceInv' /\ OneManager /\ RefCountExact /\ [HUNext]_huVars
        => OneManager' /\ RefCountExact'
  BY ManagerStep, ExactStep
<1> QED BY <1>1, <1>2, PlacesHold, PTL DEF HUSpec

\* "open() calls devref_get() and release() calls devref_put()": the count of the
\* devref is at every moment the number of open files and of opens under way, plus
\* one until modac_mngdev_destroy has put the driver's own, and the list node of
\* each inode has its share, for any number of threads and VIRT_DEVs, whenever the
\* card is pulled.  The MNG_DEV is assumed not to be opened while it is open.
THEOREM HURefCountExact == ASSUME "two_managers" \notin Habits PROVE HUSpec => []RefCountExact
  BY ExactHolds, PTL

-----------------------------------------------------------------------------
(* The abstract device.                                                    *)

LEMMA HoldersAre ==
  ASSUME PlaceInv
  PROVE  /\ Holders \subseteq Threads
         /\ \A p \in Procs : p \in Holders <=> Holds(p) \/ Reaping(p)
         /\ Driver \in Holders <=> DriverHolds \/ Reaping(Driver)
  BY UnplugAssumption
  DEF Holders, Threads, Reaping, At, DriverHolds, PlaceInv, Places, DriverPc

\* A reference nobody else has makes its holder the only one.
LEMMA LastHolder ==
  ASSUME PlaceInv, RefCountExact, RefInv
  PROVE  /\ \A p \in Procs : Holds(p) /\ ref_cnt # 1 => Holders # {p}
         /\ DriverHolds /\ ref_cnt # 1 => Holders # {Driver}
         /\ \A x \in Threads : Reaping(x) => Holders = {x} /\ ~ref_ptr
<1>0. Driver \notin Procs BY UnplugAssumption
<1>1. ASSUME NEW p \in Procs, Holds(p), ref_cnt # 1 PROVE Holders # {p}
  <2>1. DriverHolds \/ \E q \in Procs \ {p} : Holds(q) BY <1>1, LastReference
  <2> QED BY <1>0, <2>1, HoldersAre
<1>2. ASSUME DriverHolds, ref_cnt # 1 PROVE Holders # {Driver}
  <2>1. \E q \in Procs : Holds(q) BY <1>2, LastReference
  <2> QED BY <1>0, <2>1, HoldersAre
<1>3. ASSUME NEW x \in Threads, Reaping(x) PROVE Holders = {x} /\ ~ref_ptr
  <2>1. ref_cnt = 0 /\ \A y \in Threads : Reaping(y) => y = x BY <1>3 DEF RefInv, OneReaper
  <2>2. ~DriverHolds /\ \A p \in Procs : ~Holds(p) BY <2>1, CoverBounds DEF RefInv
  <2>3. ~ref_ptr BY <2>2 DEF PlaceInv, Tables, DriverHolds
  <2> QED BY <1>3, <2>1, <2>2, <2>3, HoldersAre DEF Threads
<1> QED BY <1>1, <1>2, <1>3

LEMMA LifetimeInitial == HUInit => Lifetime!DLInit
<1> SUFFICES ASSUME HUInit PROVE Lifetime!DLInit OBVIOUS
<1>1. Holders = {Driver}
  BY UnplugAssumption DEF HUInit, Holders, Holds, DriverHolds, At
<1> QED BY <1>1 DEF HUInit, Lifetime!DLInit

\* How the holders change, thread by thread.
Holder(x) ==
  \/ x \in Procs /\ Holds(x)
  \/ x = Driver /\ DriverHolds
  \/ Reaping(x)

LEMMA HoldersChange ==
  ASSUME PlaceInv, PlaceInv'
  PROVE  /\ (\A x \in Threads : Holder(x)' <=> Holder(x)) => Holders' = Holders
         /\ \A y \in Threads :
              (\A x \in Threads \ {y} : Holder(x)' <=> Holder(x))
              => /\ ~Holder(y) /\ Holder(y)' => y \notin Holders /\ Holders' = Holders \cup {y}
                 /\ Holder(y) /\ ~Holder(y)' => y \in Holders /\ Holders' = Holders \ {y}
<1>1. Holders = {x \in Threads : Holder(x)}
  BY HoldersAre, UnplugAssumption DEF Holder, Threads
<1>2. Holders' = {x \in Threads : Holder(x)'}
  <2>1. Driver \in Holders' <=> DriverHolds' \/ Reaping(Driver)'
    BY UnplugAssumption DEF Holders, Reaping, At, PlaceInv, Places, DriverPc, DriverHolds
  <2>2. \A p \in Procs : p \in Holders' <=> Holds(p)' \/ Reaping(p)'
    BY UnplugAssumption DEF Holders, Reaping
  <2>3. Holders' \subseteq Threads BY DEF Holders, Threads
  <2> QED BY <2>1, <2>2, <2>3, UnplugAssumption DEF Holder, Threads
<1> QED BY <1>1, <1>2

LEMMA LifetimeStep ==
  ASSUME PlaceInv, PlaceInv', OneManager, RefCountExact, RefInv,
         [HUNext]_huVars
  PROVE  [Lifetime!DLNext]_<<ref_ptr, Holders, ~allocated>>
<1> DEFINE Same(S) == \A x \in S : Holder(x)' <=> Holder(x)
           Stutter == UNCHANGED <<ref_ptr, Holders, ~allocated>>
<1>0. /\ Driver \notin Procs /\ None \notin Procs
      /\ RefsCovered /\ OneReaper
  BY UnplugAssumption DEF RefInv
<1>1. ASSUME Same(Threads), UNCHANGED <<ref_ptr, allocated>> PROVE Stutter
  BY <1>1, HoldersChange
<1> USE UnplugAssumption
    DEF PlaceInv, Types, Places, Threads, Goto, At, Holder, Holds, DriverHolds, Reaping,
        mutexes, tables, memory, direct, counts, walk
<1>2. ASSUME NEW p \in Procs, MngGet(p) \/ VdevGet(p) PROVE Stutter \/ Lifetime!Hold(p)
  <2>1. UNCHANGED <<ref_ptr, allocated>> /\ Same(Threads \ {p}) /\ ~Holder(p)
    BY <1>2 DEF MngGet, VdevGet
  <2>2. CASE ref_ptr /\ Holder(p)'
    BY <2>1, <2>2, HoldersChange DEF Lifetime!Hold
  <2>3. CASE ~Holder(p)'
    <3>1. Same(Threads) BY <2>1, <2>3
    <3> QED BY <1>1, <2>1, <3>1
  <2> QED BY <1>2, <2>2, <2>3 DEF MngGet, VdevGet
<1>3. ASSUME NEW p \in Procs, MngPid(p) PROVE Stutter
  <2>1. pid = None BY <1>0, <1>3 DEF MngPid, OneManager, Manages
  <2>2. Same(Threads) BY <1>3, <2>1 DEF MngPid
  <2> QED BY <1>1, <1>3, <2>2 DEF MngPid
<1>4. ASSUME NEW p \in Procs, VdevUse(p) PROVE Stutter
  <2>1. Same(Threads) BY <1>4 DEF VdevUse
  <2> QED BY <1>1, <1>4, <2>1 DEF VdevUse
<1>5. ASSUME NEW p \in Procs, Close(p) PROVE Stutter \/ Lifetime!Leave(p)
  <2>0. UNCHANGED <<ref_ptr, allocated>> /\ Holds(p) /\ Holder(p) /\ p # Driver
    BY <1>5 DEF Close
  <2>a. \A q \in Threads \ {p} : pc'[q] = pc[q] BY <1>5 DEF Close, LastPut
  <2>b. \A q \in Procs \ {p} : file'[q] = file[q] BY <1>5 DEF Close
  <2>1. UNCHANGED <<ref_ptr, allocated>> /\ Same(Threads \ {p})
        /\ Holds(p) /\ Holder(p) /\ p # Driver
    BY <2>0, <2>a, <2>b
  <2>2. CASE ref_cnt = 1
    <3>1. Holder(p)' BY <1>5, <2>2 DEF Close, LastPut
    <3>2. Same(Threads) BY <2>1, <3>1
    <3> QED BY <1>1, <2>1, <3>2
  <2>3. CASE ref_cnt # 1
    <3>1. ~Holder(p)' BY <1>5, <2>3 DEF Close
    <3>2. Holders # {p} BY <1>0, <2>1, <2>3, LastHolder
    <3> QED BY <2>1, <3>1, <3>2, HoldersChange DEF Lifetime!Leave
  <2> QED BY <2>2, <2>3
<1>6. ASSUME UnplugPut PROVE Stutter \/ Lifetime!Leave(Driver)
  <2>0. UNCHANGED <<ref_ptr, allocated, file>> /\ DriverHolds /\ Holder(Driver)
    BY <1>6 DEF UnplugPut
  <2>a. \A p \in Procs : pc'[p] = pc[p] BY <1>6 DEF UnplugPut
  <2>1. UNCHANGED <<ref_ptr, allocated>> /\ Same(Threads \ {Driver})
        /\ DriverHolds /\ Holder(Driver)
    BY <2>0, <2>a
  <2>2. ~ref_ptr BY <1>6 DEF UnplugPut, Tables
  <2>3. CASE ref_cnt = 1
    <3>1. Holder(Driver)' BY <1>6, <2>3 DEF UnplugPut
    <3>2. Same(Threads) BY <2>1, <3>1
    <3> QED BY <1>1, <2>1, <3>2
  <2>4. CASE ref_cnt # 1
    <3>1. ~Holder(Driver)' BY <1>6, <2>4 DEF UnplugPut
    <3>2. Holders # {Driver} BY <1>0, <2>1, <2>4, LastHolder
    <3> QED BY <2>1, <2>2, <3>1, <3>2, HoldersChange DEF Lifetime!Leave
  <2> QED BY <2>3, <2>4
<1>7. ASSUME UnplugInvalidate PROVE Lifetime!Invalidate
  <2>1. Same(Threads) /\ Holder(Driver) BY <1>7 DEF UnplugInvalidate
  <2>2. UNCHANGED allocated /\ ref_ptr' = FALSE BY <1>7 DEF UnplugInvalidate
  <2>3. ref_ptr BY <1>7 DEF UnplugInvalidate, Tables
  <2>4. Driver \in Holders BY <2>1, HoldersAre
  <2> QED BY <2>1, <2>2, <2>3, <2>4, HoldersChange DEF Lifetime!Invalidate
<1>8. ASSUME NEW x \in Threads, ReapMngdev(x) PROVE Lifetime!Free(x)
  <2>1. /\ UNCHANGED ref_ptr /\ allocated' = FALSE
        /\ Same(Threads \ {x}) /\ Reaping(x) /\ Holder(x)
    BY <1>8 DEF ReapMngdev
  <2>2. Holders = {x} /\ ~ref_ptr BY <1>0, <2>1, LastHolder
  <2>3. ref_cnt = 0 BY <1>0, <2>1 DEF OneReaper
  <2>4. ~DriverHolds /\ \A p \in Procs : ~Holds(p) BY <1>0, <2>3, CoverBounds
  <2>5. ~Holder(x)' BY <1>8, <2>4 DEF ReapMngdev
  <2> QED BY <2>1, <2>2, <2>5, HoldersChange DEF Lifetime!Free
<1>9. ASSUME NEW x \in Threads, NEW v \in Vdevs, ReapVdev(x, v) PROVE Stutter
  BY <1>1, <1>9 DEF ReapVdev
<1>10. ASSUME NEW p \in Procs, MngOpen(p) \/ Mmap(p) PROVE Stutter
  BY <1>1, <1>10 DEF MngOpen, Mmap
<1>11. ASSUME NEW p \in Procs, NEW v \in Vdevs,
             CreateIoctl(p, v) \/ DestroyIoctl(p, v) \/ VdevOpen(p, v)
      PROVE  Stutter
  BY <1>1, <1>11 DEF CreateIoctl, DestroyIoctl, MngIoctl, VdevOpen
<1>12. ASSUME NEW p \in Procs, CreateInsert(p) \/ DestroyRemove(p) PROVE Stutter
  BY <1>1, <1>12 DEF CreateInsert, DestroyRemove
<1>13. ASSUME NEW p \in Procs,
              DirectCall(p) \/ DirectDone(p) \/ ReadSleep(p) \/ ReadWoken(p) \/ ReadEnds(p)
                \/ Drain(p)
       PROVE  Stutter
  BY <1>1, <1>13 DEF DirectCall, DirectDone, ReadSleep, ReadWoken, LockDirectCall,
                     UnlockDirectCall, ReadEnds, Drain
<1>14. ASSUME UnplugTable \/ UnplugVdevs \/ UnplugUnmap \/ UnplugNext \/ UnplugPostponed
       PROVE  Stutter
  BY <1>1, <1>14 DEF UnplugTable, UnplugVdevs, UnplugUnmap, UnplugNext, UnplugPostponed
<1>15. ASSUME UNCHANGED huVars PROVE Stutter BY <1>1, <1>15 DEF huVars
<1> HIDE DEF PlaceInv, Holder, Holds, DriverHolds, Reaping, Same, Stutter
<1>16. Stutter \/ Lifetime!DLNext
  BY <1>2, <1>3, <1>4, <1>5, <1>6, <1>7, <1>8, <1>9, <1>10, <1>11, <1>12, <1>13, <1>14, <1>15
  DEF HUNext, Call, Work, Unplug, Reap, Lifetime!DLNext
<1> QED BY <1>16 DEF Stutter

\* What devref.h promises of a device that may disappear is kept: one thread frees
\* it, the last to let go, after the pointer is invalid and not before, and nobody
\* gets hold of it after that, whatever the threads do around it.  The MNG_DEV is
\* assumed not to be opened while it is open, which would leak a reference.
THEOREM HUImplementsLifetime ==
  ASSUME "two_managers" \notin Habits PROVE HUSpec => ImplementsLifetime
<1>1. HUSpec => Lifetime!DLInit BY LifetimeInitial DEF HUSpec
<1>2. HUSpec => [][Lifetime!DLNext]_<<ref_ptr, Holders, ~allocated>>
  <2>1. PlaceInv /\ PlaceInv' /\ OneManager /\ RefCountExact /\ RefInv /\ [HUNext]_huVars
          => [Lifetime!DLNext]_<<ref_ptr, Holders, ~allocated>>
    BY LifetimeStep
  <2> QED BY <2>1, PlacesHold, RefsHold, ExactHolds, PTL DEF HUSpec
<1> QED BY <1>1, <1>2, PTL DEF ImplementsLifetime, Lifetime!DLSpec, Lifetime!dlVars
=============================================================================
