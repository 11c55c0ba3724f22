----------------------------- MODULE HotUnplug -----------------------------
(***************************************************************************)
(* The life of one MNG_DEV and its VIRT_DEVs: applications that open, use  *)
(* and close the device files while the card may be pulled at any moment.  *)
(* The module follows devref.h, the open, ioctl, mmap and release          *)
(* functions of mng-dev.c and virt-dev.c, modac_mngdev_destroy and the     *)
(* direct-access lock of virt-dev.c.                                       *)
(*                                                                         *)
(* The three mutexes are mngdev_table_mutex, vdev_table_mutex and ref_mtx  *)
(* (the devref lock).  A section that takes no other mutex inside is one   *)
(* step; one that does is split where it would block.  What an ioctl does  *)
(* inside is the subject of ResourceManager and EventDispatch.             *)
(***************************************************************************)
EXTENDS Naturals, FiniteSets

CONSTANTS
  Procs,     \* application threads, each with at most one open file
  Vdevs,     \* ids of VIRT_DEVs
  Driver,    \* the thread that runs modac_mngdev_destroy
  None,      \* nobody, no file
  Mng,       \* the device file of the MNG_DEV
  Habits,    \* what applications do that the driver may not expect
  MaxRefs    \* bound: references taken before a further open of the MNG_DEV

\* "two_managers": the MNG_DEV is opened while it is open.  "destroy_open": a
\* VIRT_DEV is destroyed while it is open.  "open_while_managing": VIRT_DEVs are
\* opened during CREATE or DESTROY.  "close_while_unmapping": the last file of an
\* inode is closed when the removal of the card is about to visit that inode.
\* "close_while_postponing": the last file of all is closed when the removal has put
\* its reference and not yet printed the name of the device.
AllHabits == {"two_managers", "destroy_open", "open_while_managing",
              "close_while_unmapping", "close_while_postponing"}

ASSUME UnplugAssumption ==
  /\ IsFiniteSet(Procs)
  /\ Driver \notin Procs /\ None \notin Procs \cup {Driver}
  /\ {None, Mng} \cap Vdevs = {} /\ None # Mng
  /\ Habits \subseteq AllHabits
  /\ MaxRefs \in Nat

VARIABLES
  mngdev_table,   \* is the MNG_DEV in its table?
  vdev_table,     \* the VIRT_DEVs in theirs
  mngdev_table_mutex, vdev_table_mutex, ref_mtx,   \* who holds each mutex
  ref_ptr,        \* devref: is the pointer valid?
  ref_cnt,        \* devref: reference count
  l_rcnt,         \* devref: the count in an inode's list node, 0 when it has none
  allocated,      \* mngdev has not been freed
  vdev_list,      \* the VIRT_DEVs created and not freed
  pid,            \* the thread that has the MNG_DEV open
  file,           \* the file each thread has open
  mapped,         \* threads with the registers mapped
  direct_access_denied, direct_access_active_count,
  l, n, left,     \* devref_forall_inodes: this node, the next, those not visited
  pc, arg         \* where each thread is in the driver, and its VIRT_DEV

mutexes == <<mngdev_table_mutex, vdev_table_mutex, ref_mtx>>
tables == <<mngdev_table, vdev_table>>
memory == <<allocated, vdev_list>>
direct == <<direct_access_denied, direct_access_active_count>>
counts == <<ref_cnt, l_rcnt>>
walk == <<l, n, left>>
huVars == <<tables, mutexes, ref_ptr, counts, memory, pid, file, mapped, direct, walk, pc, arg>>

Files == Vdevs \cup {Mng}
ProcPc == {"user", "mng_get", "mng_pid", "create", "destroy", "vdev_get",
           "vdev_use", "direct", "sleep", "drain", "reap"}
DriverPc == {"plugged", "vdevs", "invalidate", "unmap", "relock", "postponed", "reap",
             "done"}

HUTypeOK ==
  /\ mngdev_table \in BOOLEAN /\ vdev_table \subseteq Vdevs
  /\ mngdev_table_mutex \in Procs \cup {Driver, None}
  /\ vdev_table_mutex \in Procs \cup {None}
  /\ ref_mtx \in Procs \cup {Driver, None}
  /\ ref_ptr \in BOOLEAN /\ ref_cnt \in Nat /\ l_rcnt \in [Files -> Nat]
  /\ allocated \in BOOLEAN /\ vdev_list \subseteq Vdevs
  /\ pid \in Procs \cup {None}
  /\ file \in [Procs -> Files \cup {None}]
  /\ mapped \subseteq Procs
  /\ direct_access_denied \subseteq Vdevs
  /\ direct_access_active_count \in [Vdevs -> Nat]
  /\ {l, n} \subseteq Files \cup {None} /\ left \subseteq Files
  /\ pc \in [Procs \cup {Driver} -> ProcPc \cup DriverPc]
  /\ arg \in [Procs -> Vdevs \cup {None}]

\* modac_mngdev_create has succeeded: its reference is the driver's.
HUInit ==
  /\ mngdev_table = TRUE /\ vdev_table = {}
  /\ mngdev_table_mutex = None /\ vdev_table_mutex = None /\ ref_mtx = None
  /\ ref_ptr = TRUE /\ ref_cnt = 1 /\ l_rcnt = [f \in Files |-> 0]
  /\ allocated = TRUE /\ vdev_list = {}
  /\ pid = None
  /\ file = [p \in Procs |-> None]
  /\ mapped = {}
  /\ direct_access_denied = {}
  /\ direct_access_active_count = [v \in Vdevs |-> 0]
  /\ l = None /\ n = None /\ left = {}
  /\ pc = [x \in Procs \cup {Driver} |-> IF x = Driver THEN "plugged" ELSE "user"]
  /\ arg = [p \in Procs |-> None]

\* The inodes that have a node in the devref's list.
ref_lhd == {f \in Files : l_rcnt[f] > 0}

\* devref_get after the test of the pointer, and devref_put.
GetRef(f) == ref_cnt' = ref_cnt + 1 /\ l_rcnt' = [l_rcnt EXCEPT ![f] = @ + 1]
PutRef(f) == ref_cnt' = ref_cnt - 1 /\ l_rcnt' = [l_rcnt EXCEPT ![f] = @ - 1]

\* devref_get refuses: the device is gone, or there is no memory for a new node.
CanRefuse(f) == ~ref_ptr \/ f \notin ref_lhd

Goto(x, where) == pc' = [pc EXCEPT ![x] = where]
At(x, where) == pc[x] = where

-----------------------------------------------------------------------------
(* The file of the MNG_DEV.                                                *)

Manages(p) == file[p] = Mng \/ pc[p] \in {"mng_get", "mng_pid"}

\* mngdev_open: the table.
MngOpen(p) ==
  /\ At(p, "user") /\ file[p] = None
  /\ "two_managers" \in Habits \/ ~ \E q \in Procs : Manages(q)
  /\ ref_cnt <= MaxRefs
  /\ mngdev_table_mutex = None
  /\ mngdev_table
  /\ mngdev_table_mutex' = p
  /\ Goto(p, "mng_get")
  /\ UNCHANGED <<walk, tables, vdev_table_mutex, ref_mtx, ref_ptr, counts, memory, pid,
                 file, mapped, direct, arg>>

\* Variant with a fault: mngdev_open takes no reference.
MngGetNoRef(p) ==
  /\ At(p, "mng_get") /\ ref_mtx = None
  /\ mngdev_table_mutex' = None
  /\ Goto(p, IF ref_ptr THEN "mng_pid" ELSE "user")
  /\ UNCHANGED <<walk, tables, vdev_table_mutex, ref_mtx, ref_ptr, counts, memory, pid,
                 file, mapped, direct, arg>>

\* modac_mng_check_on_open: devref_get; then the table is unlocked.
MngGet(p) ==
  /\ At(p, "mng_get") /\ ref_mtx = None
  /\ mngdev_table_mutex' = None
  /\ \/ ref_ptr /\ GetRef(Mng) /\ Goto(p, "mng_pid")
     \/ CanRefuse(Mng) /\ Goto(p, "user") /\ UNCHANGED counts
  /\ UNCHANGED <<walk, tables, vdev_table_mutex, ref_mtx, ref_ptr, memory, pid, file,
                 mapped, direct, arg>>

\* The pid: one application at a time.  -EBUSY keeps the reference just taken.
MngPid(p) ==
  /\ At(p, "mng_pid") /\ ref_mtx = None
  /\ IF pid = None
     THEN pid' = p /\ file' = [file EXCEPT ![p] = Mng]
     ELSE UNCHANGED <<pid, file>>
  /\ Goto(p, "user")
  /\ UNCHANGED <<walk, tables, mutexes, ref_ptr, counts, memory, mapped, direct, arg>>

\* An ioctl of the MNG_DEV takes the devref lock for all its length, and fails
\* once the device is gone.
MngIoctl(p, v, where) ==
  /\ At(p, "user") /\ file[p] = Mng
  /\ "open_while_managing" \in Habits \/ vdev_table_mutex = None
  /\ ref_mtx = None /\ ref_ptr
  /\ ref_mtx' = p
  /\ arg' = [arg EXCEPT ![p] = v]
  /\ Goto(p, where)
  /\ UNCHANGED <<walk, tables, mngdev_table_mutex, vdev_table_mutex, ref_ptr, counts,
                 memory, pid, file, mapped, direct>>

CreateIoctl(p, v) == v \notin vdev_list /\ MngIoctl(p, v, "create")

\* DESTROY does not look at usage_counter.
DestroyIoctl(p, v) ==
  /\ v \in vdev_list
  /\ "destroy_open" \in Habits \/ \A q \in Procs : file[q] # v
  /\ MngIoctl(p, v, "destroy")

\* modac_vdev_create: into the table.
CreateInsert(p) ==
  /\ At(p, "create") /\ vdev_table_mutex = None
  /\ LET v == arg[p] IN
       /\ vdev_table' = vdev_table \cup {v}
       /\ vdev_list' = vdev_list \cup {v}
       /\ direct_access_denied' = direct_access_denied \ {v}
       /\ direct_access_active_count' = [direct_access_active_count EXCEPT ![v] = 0]
  /\ ref_mtx' = None
  /\ arg' = [arg EXCEPT ![p] = None]
  /\ Goto(p, "user")
  /\ UNCHANGED <<walk, mngdev_table, mngdev_table_mutex, vdev_table_mutex, ref_ptr, counts,
                 allocated, pid, file, mapped>>

\* modac_vdev_destroy: out of the table, and freed.
DestroyRemove(p) ==
  /\ At(p, "destroy") /\ vdev_table_mutex = None
  /\ vdev_table' = vdev_table \ {arg[p]}
  /\ vdev_list' = vdev_list \ {arg[p]}
  /\ ref_mtx' = None
  /\ arg' = [arg EXCEPT ![p] = None]
  /\ Goto(p, "user")
  /\ UNCHANGED <<walk, mngdev_table, mngdev_table_mutex, vdev_table_mutex, ref_ptr, counts,
                 allocated, pid, file, mapped, direct>>

\* mngdev_mmap, and vdev_mmap through modac_c_vdev_mmap_ro.
Mmap(p) ==
  /\ At(p, "user") /\ file[p] # None
  /\ ref_mtx = None /\ ref_ptr
  /\ mapped' = mapped \cup {p}
  /\ UNCHANGED <<walk, tables, mutexes, ref_ptr, counts, memory, pid, file, direct, pc, arg>>

-----------------------------------------------------------------------------
(* The file of a VIRT_DEV.                                                 *)

\* vdev_open: the table, which stays locked to the end.
VdevOpen(p, v) ==
  /\ At(p, "user") /\ file[p] = None
  /\ "open_while_managing" \in Habits \/ ref_mtx = None
  /\ vdev_table_mutex = None
  /\ v \in vdev_table
  /\ vdev_table_mutex' = p
  /\ arg' = [arg EXCEPT ![p] = v]
  /\ Goto(p, "vdev_get")
  /\ UNCHANGED <<walk, tables, mngdev_table_mutex, ref_mtx, ref_ptr, counts, memory, pid,
                 file, mapped, direct>>

\* modac_c_vdev_on_open: devref_get.
VdevGet(p) ==
  /\ At(p, "vdev_get") /\ ref_mtx = None
  /\ \/ /\ ref_ptr
        /\ GetRef(arg[p])
        /\ Goto(p, "vdev_use")
        /\ UNCHANGED <<vdev_table_mutex, arg>>
     \/ /\ CanRefuse(arg[p])
        /\ Goto(p, "user")
        /\ vdev_table_mutex' = None
        /\ arg' = [arg EXCEPT ![p] = None]
        /\ UNCHANGED counts
  /\ UNCHANGED <<walk, tables, mngdev_table_mutex, ref_mtx, ref_ptr, memory, pid, file,
                 mapped, direct>>

\* Variant with a fault: the failing path of vdev_open after devref_get.
VdevUseAbandons(p) ==
  /\ At(p, "vdev_use") /\ ref_mtx = None
  /\ vdev_table_mutex' = None
  /\ arg' = [arg EXCEPT ![p] = None]
  /\ Goto(p, "user")
  /\ UNCHANGED <<walk, tables, mngdev_table_mutex, ref_mtx, ref_ptr, counts, memory, pid,
                 file, mapped, direct>>

\* The usage counter, under the devref lock again; the open succeeds.
VdevUse(p) ==
  /\ At(p, "vdev_use") /\ ref_mtx = None
  /\ file' = [file EXCEPT ![p] = arg[p]]
  /\ vdev_table_mutex' = None
  /\ arg' = [arg EXCEPT ![p] = None]
  /\ Goto(p, "user")
  /\ UNCHANGED <<walk, tables, mngdev_table_mutex, ref_mtx, ref_ptr, counts, memory, pid,
                 mapped, direct>>

\* lock_direct_call by read, poll or a direct ioctl: no mutex.
LockDirectCall(p) ==
  /\ file[p] \in Vdevs \ direct_access_denied
  /\ direct_access_active_count' = [direct_access_active_count EXCEPT ![file[p]] = @ + 1]
  /\ Goto(p, "direct")
  /\ UNCHANGED <<walk, tables, mutexes, ref_ptr, counts, memory, pid, file, mapped,
                 direct_access_denied, arg>>

UnlockDirectCall(p, where) ==
  /\ direct_access_active_count' = [direct_access_active_count EXCEPT ![file[p]] = @ - 1]
  /\ Goto(p, where)
  /\ UNCHANGED <<walk, tables, mutexes, ref_ptr, counts, memory, pid, file, mapped,
                 direct_access_denied, arg>>

DirectCall(p) == At(p, "user") /\ LockDirectCall(p)
DirectDone(p) == At(p, "direct") /\ UnlockDirectCall(p, "user")

\* vdev_read with no event: the lock is given up for the sleep and taken again.
ReadSleep(p) == At(p, "direct") /\ UnlockDirectCall(p, "sleep")
ReadWoken(p) == At(p, "sleep") /\ LockDirectCall(p)

\* -ERESTARTSYS on a signal, or -ENODEV if direct access is denied by then.
ReadEnds(p) ==
  /\ At(p, "sleep")
  /\ Goto(p, "user")
  /\ UNCHANGED <<walk, tables, mutexes, ref_ptr, counts, memory, pid, file, mapped, direct, arg>>

-----------------------------------------------------------------------------
(* release, and drvdat_put.                                                *)

\* The last reference: direct access to the VIRT_DEV closed is denied, and the
\* thread goes on to destroy the device.
LastPut(p, f) ==
  IF f = Mng
  THEN Goto(p, "reap") /\ UNCHANGED <<direct_access_denied, arg>>
  ELSE /\ direct_access_denied' = direct_access_denied \cup {f}
       /\ arg' = [arg EXCEPT ![p] = f]
       /\ Goto(p, "drain")

\* Variant with a fault: the last close does not destroy the device.
CloseWithoutReap(p) ==
  /\ At(p, "user") /\ file[p] # None
  /\ ref_mtx = None
  /\ pid' = IF file[p] = Mng THEN None ELSE pid
  /\ file' = [file EXCEPT ![p] = None]
  /\ mapped' = mapped \ {p}
  /\ PutRef(file[p])
  /\ UNCHANGED <<walk, tables, mutexes, ref_ptr, memory, direct, pc, arg>>

\* The walk of devref_forall_inodes has saved the node of f and is to read it.
Saved(f) == n = f /\ pc[Driver] \in {"unmap", "relock"}

\* Variant with a fault: the first close of an inode removes its node.
CloseForgetsInode(p) ==
  /\ At(p, "user") /\ file[p] # None
  /\ ref_mtx = None
  /\ pid' = IF file[p] = Mng THEN None ELSE pid
  /\ file' = [file EXCEPT ![p] = None]
  /\ mapped' = mapped \ {p}
  /\ ref_cnt' = ref_cnt - 1
  /\ l_rcnt' = [l_rcnt EXCEPT ![file[p]] = 0]
  /\ \/ ref_cnt = 1 /\ LastPut(p, file[p])
     \/ ref_cnt # 1 /\ UNCHANGED <<pc, arg, direct_access_denied>>
  /\ UNCHANGED <<walk, tables, mutexes, ref_ptr, memory, direct_access_active_count>>

\* mngdev_release or modac_c_vdev_on_close.
Close(p) ==
  /\ At(p, "user") /\ file[p] # None
  /\ "close_while_unmapping" \in Habits \/ ~Saved(file[p]) \/ l_rcnt[file[p]] > 1
  /\ "close_while_postponing" \in Habits \/ ~At(Driver, "postponed") \/ ref_cnt # 1
  /\ ref_mtx = None
  /\ pid' = IF file[p] = Mng THEN None ELSE pid
  /\ file' = [file EXCEPT ![p] = None]
  /\ mapped' = mapped \ {p}
  /\ PutRef(file[p])
  /\ \/ ref_cnt = 1 /\ LastPut(p, file[p])
     \/ ref_cnt # 1 /\ UNCHANGED <<pc, arg, direct_access_denied>>
  /\ UNCHANGED <<walk, tables, mutexes, ref_ptr, memory, direct_access_active_count>>

\* Wait until no direct call is active.
Drain(p) ==
  /\ At(p, "drain")
  /\ direct_access_active_count[arg[p]] = 0
  /\ arg' = [arg EXCEPT ![p] = None]
  /\ Goto(p, "reap")
  /\ UNCHANGED <<walk, tables, mutexes, ref_ptr, counts, memory, pid, file, mapped, direct>>

\* mngdev_destroy_now: every VIRT_DEV, then the MNG_DEV.
ReapVdev(x, v) ==
  /\ At(x, "reap") /\ v \in vdev_list
  /\ vdev_table_mutex = None
  /\ vdev_table' = vdev_table \ {v}
  /\ vdev_list' = vdev_list \ {v}
  /\ UNCHANGED <<walk, mngdev_table, mutexes, ref_ptr, counts, allocated, pid, file, mapped,
                 direct, pc, arg>>

ReapMngdev(x) ==
  /\ At(x, "reap") /\ vdev_list = {}
  /\ allocated' = FALSE
  /\ Goto(x, IF x = Driver THEN "done" ELSE "user")
  /\ UNCHANGED <<walk, tables, mutexes, ref_ptr, counts, vdev_list, pid, file, mapped,
                 direct, arg>>

-----------------------------------------------------------------------------
(* modac_mngdev_destroy, when the card is removed.                         *)

\* Variant with a fault: the device stays in its table.
UnplugKeepsTable ==
  /\ At(Driver, "plugged") /\ mngdev_table_mutex = None
  /\ mngdev_table_mutex' = Driver
  /\ Goto(Driver, "vdevs")
  /\ UNCHANGED <<walk, tables, vdev_table_mutex, ref_mtx, ref_ptr, counts, memory, pid,
                 file, mapped, direct, arg>>

UnplugTable ==
  /\ At(Driver, "plugged") /\ mngdev_table_mutex = None
  /\ mngdev_table_mutex' = Driver
  /\ mngdev_table' = FALSE
  /\ Goto(Driver, "vdevs")
  /\ UNCHANGED <<walk, vdev_table, vdev_table_mutex, ref_mtx, ref_ptr, counts, memory, pid,
                 file, mapped, direct, arg>>

\* modac_vdev_table_reset.
UnplugVdevs ==
  /\ At(Driver, "vdevs") /\ vdev_table_mutex = None
  /\ vdev_table' = {}
  /\ mngdev_table_mutex' = None
  /\ Goto(Driver, "invalidate")
  /\ UNCHANGED <<walk, mngdev_table, vdev_table_mutex, ref_mtx, ref_ptr, counts, memory, pid,
                 file, mapped, direct, arg>>

\* The node after f, given those not visited yet.  A freed node leads anywhere.
NodesAfter(f, rest) ==
  IF f \notin ref_lhd THEN Files \cup {None}
  ELSE IF rest = {} THEN {None} ELSE rest

\* app_kill sends a signal; devref_invalidate; the walk starts at the first node.
\* With an empty list the lock is kept.
UnplugInvalidate ==
  /\ At(Driver, "invalidate") /\ ref_mtx = None
  /\ ref_ptr' = FALSE
  /\ \/ /\ ref_lhd = {}
        /\ ref_mtx' = Driver
        /\ Goto(Driver, "relock")
        /\ UNCHANGED walk
     \/ \E f \in ref_lhd :
          /\ l' = f /\ left' = ref_lhd \ {f}
          /\ n' \in NodesAfter(f, left')
          /\ Goto(Driver, "unmap")
          /\ UNCHANGED ref_mtx
  /\ UNCHANGED <<tables, mngdev_table_mutex, vdev_table_mutex, counts, memory, pid,
                 file, mapped, direct, arg>>

\* unmap_inode, with the devref lock released: every mapping of the inode.
UnplugUnmap ==
  /\ At(Driver, "unmap")
  /\ mapped' = {p \in mapped : file[p] # l}
  /\ Goto(Driver, "relock")
  /\ UNCHANGED <<walk, tables, mutexes, ref_ptr, counts, memory, pid, file, direct, arg>>

\* The lock again; the saved node becomes the current one.
UnplugNext ==
  /\ At(Driver, "relock") /\ ref_mtx = None
  /\ n # None
  /\ l' = n /\ left' = (left \ {n}) \cap ref_lhd
  /\ n' \in NodesAfter(n, left')
  /\ Goto(Driver, "unmap")
  /\ UNCHANGED <<tables, mutexes, ref_ptr, counts, memory, pid, file, mapped, direct, arg>>

\* Variant with a fault: the device is destroyed while files are open.
UnplugPutAlways ==
  /\ At(Driver, "relock") /\ ref_mtx \in {None, Driver}
  /\ n = None
  /\ ref_mtx' = None
  /\ ref_cnt' = ref_cnt - 1
  /\ Goto(Driver, "reap")
  /\ UNCHANGED <<walk, tables, mngdev_table_mutex, vdev_table_mutex, ref_ptr, l_rcnt,
                 memory, pid, file, mapped, direct, arg>>

\* The end of the list, the lock still held: drvdat_put destroys the device now
\* or leaves it to the last close.
UnplugPut ==
  /\ At(Driver, "relock") /\ ref_mtx \in {None, Driver}
  /\ n = None
  /\ ref_mtx' = None
  /\ ref_cnt' = ref_cnt - 1
  /\ \/ ref_cnt = 1 /\ Goto(Driver, "reap")
     \/ ref_cnt # 1 /\ Goto(Driver, "postponed")
  /\ UNCHANGED <<walk, tables, mngdev_table_mutex, vdev_table_mutex, ref_ptr, l_rcnt,
                 memory, pid, file, mapped, direct, arg>>

\* With the lock released and no reference of its own, drvdat_put reads
\* mngdev->des->name for its message.
UnplugPostponed ==
  /\ At(Driver, "postponed")
  /\ Goto(Driver, "done")
  /\ UNCHANGED <<walk, tables, mutexes, ref_ptr, counts, memory, pid, file, mapped,
                 direct, arg>>

Unplug ==
  \/ UnplugTable \/ UnplugVdevs \/ UnplugInvalidate
  \/ UnplugUnmap \/ UnplugNext \/ UnplugPut \/ UnplugPostponed

\* The application calls the driver.
Call(p) ==
  \/ MngOpen(p) \/ Mmap(p) \/ DirectCall(p)
  \/ \E v \in Vdevs : CreateIoctl(p, v) \/ DestroyIoctl(p, v) \/ VdevOpen(p, v)

\* The driver works for it.
Work(p) ==
  \/ MngGet(p) \/ MngPid(p) \/ CreateInsert(p) \/ DestroyRemove(p)
  \/ VdevGet(p) \/ VdevUse(p) \/ DirectDone(p) \/ Drain(p)
Reap(x) == ReapMngdev(x) \/ \E v \in Vdevs : ReapVdev(x, v)

HUNext ==
  \/ \E p \in Procs :
       \/ Call(p) \/ Work(p) \/ Close(p)
       \/ ReadSleep(p) \/ ReadWoken(p) \/ ReadEnds(p)
  \/ Unplug
  \/ \E x \in Procs \cup {Driver} : Reap(x)

\* A thread inside the driver goes on whenever nothing blocks it (Linux mutexes
\* are handed over), the removal of the card is carried through, and every
\* application closes its file in the end.
HUFairness ==
  /\ \A p \in Procs : SF_huVars(Work(p)) /\ SF_huVars(Close(p))
  /\ SF_huVars(\E x \in Procs \cup {Driver} : Reap(x))
  /\ SF_huVars(Unplug)

HUSpec == HUInit /\ [][HUNext]_huVars
HUFairSpec == HUSpec /\ HUFairness

-----------------------------------------------------------------------------
(* Properties.                                                             *)

\* Who has taken a reference and will give it back, and through which inode.
Holds(p) == file[p] # None \/ pc[p] \in {"mng_pid", "vdev_use"}
DriverHolds == pc[Driver] \in {"plugged", "vdevs", "invalidate", "unmap", "relock"}
HeldInode(p) == CASE pc[p] = "mng_pid" -> Mng
                  [] pc[p] = "vdev_use" -> arg[p]
                  [] OTHER -> file[p]

\* "open() calls devref_get() and release() calls devref_put()" (devref.h:52):
\* the count is exactly the number of open files and opens under way, plus one
\* for the driver until it has put its own, and the node of each inode counts
\* its share of them.
RefCountExact ==
  /\ ref_cnt = Cardinality({p \in Procs : Holds(p)}) + (IF DriverHolds THEN 1 ELSE 0)
  /\ \A f \in Files : l_rcnt[f] = Cardinality({p \in Procs : HeldInode(p) = f})

\* Nothing freed is in use: the tables lead to living objects, whoever is in
\* the driver or has a file open finds the MNG_DEV and its VIRT_DEV alive, and
\* the node the walk of the inodes has saved is still in the list.  The removal of
\* the card reads the MNG_DEV to its last line (mng-dev.c:224).  The direct-access
\* lock exists "to prevent running the code after the VDEV
\* destruction" (virt-dev.c:448).
NoUseAfterFree ==
  /\ mngdev_table \/ vdev_table # {} => allocated
  /\ vdev_table \subseteq vdev_list
  /\ \A p \in Procs :
       /\ file[p] # None \/ ~At(p, "user") => allocated
       /\ file[p] \in Vdevs => file[p] \in vdev_list
       /\ pc[p] \in {"vdev_get", "vdev_use"} => arg[p] \in vdev_list
  /\ ~At(Driver, "done") => allocated
  /\ \A f \in Files : Saved(f) => f \in ref_lhd

\* Once modac_mngdev_destroy has walked the inodes, "all mappings of registers
\* have disappeared" (mng-dev.c:1734), and none comes back.
MappingsGone ==
  (At(Driver, "relock") /\ n = None) \/ pc[Driver] \in {"postponed", "reap", "done"}
    => mapped = {}

\* What the references are for: DeviceLifetime, where whoever gives back the last
\* one frees the device.  A thread that took the count to 0 holds the device until
\* mngdev_destroy_now is through.
Holders ==
  {p \in Procs : Holds(p) \/ pc[p] \in {"drain", "reap"}}
    \cup (IF DriverHolds \/ At(Driver, "reap") THEN {Driver} ELSE {})

Lifetime == INSTANCE DeviceLifetime
              WITH Users <- Procs, Owner <- Driver,
                   valid <- ref_ptr, holders <- Holders, freed <- ~allocated

\* Every step of the threads is one of the abstract device's or changes nothing
\* there: exactly one thread frees it, the last to let go, and only after the
\* pointer is invalid.
ImplementsLifetime == Lifetime!DLSpec

\* Hot-unplug ends: the device is freed, whatever is open when the card is
\* pulled, once every reader has left its sleep and unless a thread keeps the
\* devref lock for ever.
EventuallyFreed ==
  (\A p \in Procs : []<>~At(p, "sleep") /\ []<>(ref_mtx # p)) => <>(~allocated)

\* "The reference object is not locked all the time it is held but only while it
\* is being manipulated" (devref.h:44): who locks it unlocks it.
RefLockReleased ==
  \A p \in Procs : ref_mtx = p ~> ref_mtx # p
=============================================================================
