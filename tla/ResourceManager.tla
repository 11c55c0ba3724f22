-------------------------- MODULE ResourceManager --------------------------
(***************************************************************************)
(* The VIRT_DEVs of one MNG_DEV and the hardware resources they own: the   *)
(* resource manager of rm.c, the tables each VIRT_DEV keeps of its own     *)
(* resources, and the calls of mng-dev.c and virt-dev.c that use both.     *)
(*                                                                         *)
(* rm.c is "not thread safe"; every call here runs under the devref lock   *)
(* of the MNG_DEV, so each is one step.                                    *)
(***************************************************************************)
EXTENDS Integers, Sequences, FiniteSets

CONSTANTS
  MAX_VIRT_DEVS_PER_MNG_DEV,
  MODAC_RES_PER_VIRT_DEV_MAX_COUNT,
  PulsegenBits,   \* per pulsegen, the bits of its prescaler, delay and width
  OutputCount,    \* outputs of the card
  Filters,        \* bound: the bits ALLOC asks for, in the same order
  Names,          \* bound: the names CREATE asks for
  NO_OWNER,       \* not an id
  NoName,         \* what a descriptor not yet filled in is called
  MaxOpen         \* bound: open files of one VIRT_DEV

Properties == 1 .. 3
Ids == 1 .. MAX_VIRT_DEVS_PER_MNG_DEV
PulsegenCount == Len(PulsegenBits)

\* No card of evr.c has more pulsegens than a VIRT_DEV can list: 16 against 32.
\* Of outputs some have: 74 the PXIe-EVR-300I, 62 the PXIe-EVR-300U (evr.c:168-189).
ASSUME ResourceAssumption ==
  /\ MAX_VIRT_DEVS_PER_MNG_DEV \in Nat
  /\ MODAC_RES_PER_VIRT_DEV_MAX_COUNT \in Nat
  /\ PulsegenBits \in Seq([Properties -> Nat])
  /\ OutputCount \in Nat
  /\ PulsegenCount <= MODAC_RES_PER_VIRT_DEV_MAX_COUNT
  /\ Filters \subseteq [Properties -> Int]
  /\ NO_OWNER \notin Ids
  /\ NoName \notin Names
  /\ MaxOpen \in Nat

Types == {"pulsegen", "output"}
Count(type) == IF type = "pulsegen" THEN PulsegenCount ELSE OutputCount
Indices(type) == 0 .. Count(type) - 1
Resources == ({"pulsegen"} \X Indices("pulsegen"))
               \cup ({"output"} \X Indices("output"))

VARIABLES
  owner,            \* res_states[].owner
  vdev_list,        \* ids of the descriptors on mngdev->vdev_list
  name,             \* vdev_des->name, by id
  res_alloc_index,  \* vdev_des->res_type_data[].res_alloc_index[0 .. count - 1]
  usage_counter,    \* vdev_des->usage_counter
  leave_res_set,    \* the ids with leave_res_set_on_last_close
  device,           \* devref_ptr: is the hardware still there?
  are_set           \* history: the pulsegens set since they were last initialised

descriptorVars == <<name, res_alloc_index, usage_counter, leave_res_set>>
rmVars == <<owner, vdev_list, descriptorVars, device, are_set>>

RMTypeOK ==
  /\ owner \in [Resources -> Ids \cup {NO_OWNER}]
  /\ vdev_list \subseteq Ids
  /\ name \in [Ids -> Names \cup {NoName}]
  /\ res_alloc_index \in [Ids -> [Types -> Seq(Nat)]]
  /\ usage_counter \in [Ids -> 0 .. MaxOpen]
  /\ leave_res_set \subseteq Ids
  /\ device \in BOOLEAN
  /\ are_set \subseteq Indices("pulsegen")

\* modac_rm_init, and a MNG_DEV without VIRT_DEVs.
RMInit ==
  /\ owner = [r \in Resources |-> NO_OWNER]
  /\ vdev_list = {}
  /\ name = [id \in Ids |-> NoName]
  /\ res_alloc_index = [id \in Ids |-> [type \in Types |-> << >>]]
  /\ usage_counter = [id \in Ids |-> 0]
  /\ leave_res_set = {}
  /\ device = TRUE
  /\ are_set = {}

-----------------------------------------------------------------------------
(* How suitable a resource is (evr.c).                                     *)

\* Variant with a fault: the longer the property the better.
LongestSuitability(tested, wanted) ==
  IF tested < wanted THEN 0 ELSE tested - wanted + 1

\* pulsegen_property_suitability.
PropertySuitability(tested, wanted) ==
  IF tested < wanted THEN 0 ELSE 32 + wanted - tested + 1

\* pulsegen_suits: every property must suit; output_suits: never from the pool.
Suits(r, filter) ==
  LET s == [p \in Properties |->
              PropertySuitability(PulsegenBits[r[2] + 1][p], filter[p])]
  IN  IF r[1] = "pulsegen" /\ \A p \in Properties : s[p] >= 1
      THEN s[1] + s[2] + s[3] ELSE 0

\* modac_rm_alloc from the pool: the first of the most suitable free resources,
\* if any is suitable.
PoolChoice(type, filter) ==
  {r \in Resources :
     /\ r[1] = type /\ owner[r] = NO_OWNER /\ Suits(r, filter) > 0
     /\ \A q \in Resources :
          q[1] = type /\ owner[q] = NO_OWNER =>
            /\ Suits(q, filter) <= Suits(r, filter)
            /\ q[2] < r[2] => Suits(q, filter) < Suits(r, filter)}

-----------------------------------------------------------------------------
(* The VIRT_DEV's own table of its resources.                              *)

Lists(id, r) ==
  \E k \in 1 .. Len(res_alloc_index[id][r[1]]) : res_alloc_index[id][r[1]][k] = r[2]

\* Variant with a fault: only the first pulsegen of the table is initialised.
InitResFirst(id) ==
  are_set' = {i \in are_set : res_alloc_index[id]["pulsegen"] # << >>
                                => res_alloc_index[id]["pulsegen"][1] # i}

\* modac_c_vdev_init_res: init_res of all that is listed, which does nothing to an
\* output (evr.c:1259).
InitRes(id) ==
  are_set' = {i \in are_set : ~Lists(id, <<"pulsegen", i>>)}

-----------------------------------------------------------------------------
(* ioctls of the MNG_DEV.                                                  *)

NameUsed(n) == \E id \in vdev_list : name[id] = n

\* CREATE refused: an id out of range (-EINVAL), a name in use (-EEXIST), no id
\* left (-EMFILE).  With an explicit id, in range or not and free or not, it always
\* is: ret is still the -ENOSYS of line 690 when it is tested.
CreateRefused(explicit, n) ==
  /\ device
  /\ ~(~explicit /\ ~NameUsed(n) /\ vdev_list # Ids)
  /\ UNCHANGED rmVars

\* What a fresh descriptor holds; a freed one is not told from it.
Blank(id, n) ==
  /\ name' = [name EXCEPT ![id] = n]
  /\ res_alloc_index' = [res_alloc_index EXCEPT ![id] = [type \in Types |-> << >>]]
  /\ usage_counter' = [usage_counter EXCEPT ![id] = 0]
  /\ leave_res_set' = leave_res_set \ {id}

\* CREATE with the first free id.
Create(n) ==
  /\ device /\ ~NameUsed(n)
  /\ \E id \in Ids \ vdev_list :
       /\ \A other \in Ids \ vdev_list : id <= other
       /\ vdev_list' = vdev_list \cup {id}
       /\ Blank(id, n)
  /\ UNCHANGED <<owner, device, are_set>>

\* modac_vdev_create failed, for instance because the name is in use under another
\* MNG_DEV: the new descriptor is freed again.
CreateFailed(n) ==
  /\ device /\ ~NameUsed(n) /\ vdev_list # Ids
  /\ UNCHANGED rmVars

\* Variant with a fault: modac_rm_free_owner is not called.
DestroyKeepsOwner(id) ==
  /\ device /\ id \in vdev_list
  /\ vdev_list' = vdev_list \ {id}
  /\ Blank(id, NoName)
  /\ UNCHANGED <<owner, device, are_set>>

\* DESTROY: list_destroy_vdev, open or not.  A file left open keeps the descriptor
\* that was freed; what it still does is not followed here.
Destroy(id) ==
  /\ device /\ id \in vdev_list
  /\ owner' = [r \in Resources |-> IF owner[r] = id THEN NO_OWNER ELSE owner[r]]
  /\ vdev_list' = vdev_list \ {id}
  /\ Blank(id, NoName)
  /\ UNCHANGED <<device, are_set>>

DestroyRefused(id) ==
  /\ device /\ id \notin vdev_list
  /\ UNCHANGED rmVars

\* vdev_on_res_add: into the table, if there is room; ALLOC ignores the result.
AddRes(id, r) ==
  IF Len(res_alloc_index[id][r[1]]) < MODAC_RES_PER_VIRT_DEV_MAX_COUNT
  THEN res_alloc_index' = [res_alloc_index EXCEPT ![id][r[1]] = Append(@, r[2])]
  ELSE UNCHANGED res_alloc_index

Seize(id, r) ==
  /\ owner' = [owner EXCEPT ![r] = id]
  /\ AddRes(id, r)
  /\ UNCHANGED <<vdev_list, name, usage_counter, leave_res_set, device, are_set>>

MayAlloc(id) == device /\ id \in vdev_list /\ usage_counter[id] = 0

AllocFromPool(id, type, filter) ==
  /\ MayAlloc(id)
  /\ \E r \in PoolChoice(type, filter) : Seize(id, r)

AllocFixed(id, r) ==
  /\ MayAlloc(id) /\ r \in Resources
  /\ owner[r] = NO_OWNER
  /\ Seize(id, r)

\* No such VIRT_DEV (-ENXIO), or open (-EACCES); nothing suitable (-EACCES), or
\* the resource asked for is owned (-EADDRINUSE).
AllocRefused(id, type) ==
  /\ device
  /\ ~(/\ MayAlloc(id)
       /\ \A filter \in Filters : PoolChoice(type, filter) # {}
       /\ \A i \in Indices(type) : owner[<<type, i>>] = NO_OWNER)
  /\ UNCHANGED rmVars

\* A hardware ioctl may use the k-th resource of a type if modac_rm_get_owner says
\* that it is the VIRT_DEV's.
MayUse(id, type, k) ==
  /\ device /\ id \in vdev_list
  /\ k \in 1 .. Len(res_alloc_index[id][type])
  /\ LET r == <<type, res_alloc_index[id][type][k]>>
     IN  r \in Resources /\ owner[r] = id

\* OUTSET for a closed VIRT_DEV; what it sets is in EvrOutputs.
MngHwIoctl(id, k) ==
  /\ usage_counter[id] = 0 /\ MayUse(id, "output", k)
  /\ UNCHANGED rmVars

\* INIT: all pulse generators, whoever owns them.  It uses no resource; the id it
\* names is that of no VIRT_DEV, or of a closed one.
MngInit ==
  /\ device
  /\ \E id \in Ids \cup {0} : id \in vdev_list => usage_counter[id] = 0
  /\ are_set' = {}
  /\ UNCHANGED <<owner, vdev_list, descriptorVars, device>>

-----------------------------------------------------------------------------
(* The VIRT_DEV.                                                           *)

\* An ioctl of the VIRT_DEV's application that sets its k-th pulse generator.
VdevHwIoctl(id, k) ==
  /\ usage_counter[id] > 0 /\ MayUse(id, "pulsegen", k)
  /\ are_set' = are_set \cup {res_alloc_index[id]["pulsegen"][k]}
  /\ UNCHANGED <<owner, vdev_list, descriptorVars, device>>

\* modac_c_vdev_on_open.
Open(id) ==
  /\ device /\ id \in vdev_list /\ usage_counter[id] < MaxOpen
  /\ usage_counter' = [usage_counter EXCEPT ![id] = @ + 1]
  /\ UNCHANGED <<owner, vdev_list, name, res_alloc_index, leave_res_set, device,
                 are_set>>

\* Variant with a fault: the counter of a closed VIRT_DEV is decremented.
CloseUnbalanced(id) ==
  /\ id \in vdev_list
  /\ usage_counter' = [usage_counter EXCEPT ![id] = @ - 1]
  /\ UNCHANGED <<owner, vdev_list, name, res_alloc_index, leave_res_set, device, are_set>>

\* modac_c_vdev_on_close; the last one initialises the resources.
Close(id) ==
  /\ id \in vdev_list /\ usage_counter[id] > 0
  /\ usage_counter' = [usage_counter EXCEPT ![id] = @ - 1]
  /\ IF usage_counter[id] = 1 /\ id \notin leave_res_set /\ device
     THEN InitRes(id) ELSE UNCHANGED are_set
  /\ UNCHANGED <<owner, vdev_list, name, res_alloc_index, leave_res_set, device>>

\* store_config: "hw_reset", or a number.
HwReset(id) ==
  /\ device /\ id \in vdev_list
  /\ InitRes(id)
  /\ UNCHANGED <<owner, vdev_list, descriptorVars, device>>

StoreConfig(id, leave) ==
  /\ device /\ id \in vdev_list
  /\ leave_res_set' = IF leave THEN leave_res_set \cup {id} ELSE leave_res_set \ {id}
  /\ UNCHANGED <<owner, vdev_list, name, res_alloc_index, usage_counter, device,
                 are_set>>

\* modac_mngdev_destroy: ioctls fail from now on.
Unplug ==
  /\ device
  /\ device' = FALSE
  /\ UNCHANGED <<owner, vdev_list, descriptorVars, are_set>>

\* Everything but the hardware ioctls of the MNG_DEV.
RMStep ==
  \/ \E n \in Names : Create(n) \/ CreateFailed(n)
  \/ \E explicit \in BOOLEAN, n \in Names : CreateRefused(explicit, n)
  \/ \E id \in Ids :
       \/ Destroy(id) \/ DestroyRefused(id)
       \/ Open(id) \/ Close(id) \/ HwReset(id)
       \/ \E leave \in BOOLEAN : StoreConfig(id, leave)
       \/ \E r \in Resources : AllocFixed(id, r)
       \/ \E type \in Types :
            \/ AllocRefused(id, type)
            \/ \E filter \in Filters : AllocFromPool(id, type, filter)
       \/ \E k \in 1 .. MODAC_RES_PER_VIRT_DEV_MAX_COUNT : VdevHwIoctl(id, k)
  \/ Unplug

RMNext ==
  \/ RMStep \/ MngInit
  \/ \E id \in Ids, k \in 1 .. MODAC_RES_PER_VIRT_DEV_MAX_COUNT : MngHwIoctl(id, k)

RMSpec == RMInit /\ [][RMNext]_rmVars

-----------------------------------------------------------------------------
(* Properties.                                                             *)

\* The two records of who has what agree, as far as ALLOC's ignored result
\* (mng-dev.c:868) lets them: a VIRT_DEV's table lists only what the manager says
\* it owns, each resource once; what it owns and does not list is of a type whose
\* table is full, as full as its array and no fuller; and every owner exists.  So
\* the owner check of the ioctls never refuses a listed resource, and DESTROY
\* leaves no resource behind.
TablesAgree ==
  /\ \A r \in Resources : owner[r] \in vdev_list \cup {NO_OWNER}
  /\ \A id \in vdev_list :
       /\ \A r \in Resources :
            /\ Lists(id, r) => owner[r] = id
            /\ owner[r] = id => \/ Lists(id, r)
                                \/ Len(res_alloc_index[id][r[1]])
                                     = MODAC_RES_PER_VIRT_DEV_MAX_COUNT
       /\ \A type \in Types :
            LET table == res_alloc_index[id][type]
            IN  /\ Len(table) <= MODAC_RES_PER_VIRT_DEV_MAX_COUNT
                /\ \A k \in 1 .. Len(table) : table[k] \in Indices(type)
                /\ \A j, k \in 1 .. Len(table) : table[j] = table[k] => j = k

\* A resource never passes from one VIRT_DEV to another, and is never taken from
\* one that stays: it is given up only when its owner is destroyed.
NeverTakenAway ==
  [][\A r \in Resources :
       owner[r] # NO_OWNER /\ owner'[r] # owner[r] =>
         owner'[r] = NO_OWNER /\ owner[r] \notin vdev_list']_rmVars

\* "can't change resources of an open VIRT_DEV" (mng-dev.c:849): the relative
\* indices an application uses mean the same from its open to its close.
OpenKeepsResources ==
  [][\A id \in vdev_list \cap vdev_list' :
       usage_counter[id] > 0 => res_alloc_index'[id] = res_alloc_index[id]]_rmVars

\* After the last close "the device doesn't do stupid things" (mng-dev.c:1360): no
\* pulse generator that the VIRT_DEV owns, listed or not, is left set, unless the
\* VIRT_DEV was told to leave it.  Its outputs keep what OUTSET gave them.
LastCloseInitialises ==
  [][\A id \in vdev_list \cap vdev_list' :
       usage_counter[id] = 1 /\ usage_counter'[id] = 0 /\ device
         /\ id \notin leave_res_set =>
         \A i \in Indices("pulsegen") :
           owner[<<"pulsegen", i>>] = id => i \notin are_set']_rmVars

\* "The shortest resource property possible is wanted" (evr.c:253): of the free
\* pulsegens that satisfy the filter, the pool never gives a longer one where one
\* would do that is shorter in some property and longer in none.
Satisfies(r, filter) ==
  \A p \in Properties : PulsegenBits[r[2] + 1][p] >= filter[p]
ShorterThan(q, r) ==
  /\ \A p \in Properties : PulsegenBits[q[2] + 1][p] <= PulsegenBits[r[2] + 1][p]
  /\ \E p \in Properties : PulsegenBits[q[2] + 1][p] < PulsegenBits[r[2] + 1][p]
PoolTakesShortest ==
  [][\A r \in Resources : owner[r] = NO_OWNER /\ owner'[r] \in Ids =>
       \A filter \in Filters : AllocFromPool(owner'[r], "pulsegen", filter) =>
         /\ r[1] = "pulsegen" /\ Satisfies(r, filter)
         /\ \A q \in Resources :
              q[1] = "pulsegen" /\ owner[q] = NO_OWNER /\ Satisfies(q, filter)
                => ~ShorterThan(q, r)]_rmVars
=============================================================================
