----------------------- MODULE ResourceManagerProofs -----------------------
(***************************************************************************)
(* Proofs about ResourceManager and EvrOutputs, for every card: any number *)
(* of VIRT_DEVs and outputs, and as many pulsegens as a VIRT_DEV can list. *)
(* TablesAgree and the type invariant are inductive together.  That a      *)
(* pulsegen owned is listed, which the last close needs, is the pigeonhole *)
(* principle: a table of distinct pulsegens that lacks one is not full.    *)
(* OwnPulses rests on TablesAgree and on a resource never being taken from *)
(* an owner that stays.                                                    *)
(***************************************************************************)
EXTENDS EvrOutputs, FiniteSetTheorems, TLAPS

RMInv == RMTypeOK /\ TablesAgree

LEMMA ResourceFacts ==
  /\ \A r \in Resources : r = <<r[1], r[2]>> /\ r[1] \in Types /\ r[2] \in Indices(r[1])
  /\ \A type \in Types : \A i \in Indices(type) : <<type, i>> \in Resources
  /\ \A type \in Types : Count(type) \in Nat /\ Indices(type) \subseteq Nat
BY ResourceAssumption DEF Resources, Types, Indices, Count, PulsegenCount

LEMMA RMInitial == RMInit => RMInv
<1> SUFFICES ASSUME RMInit PROVE RMInv
  OBVIOUS
<1>1. RMTypeOK
  BY ResourceAssumption DEF RMInit, RMTypeOK
<1>2. TablesAgree
  BY DEF RMInit, TablesAgree
<1> QED
  BY <1>1, <1>2 DEF RMInv

\* A table that lists each of its resources once, and not the resource i, is
\* shorter than the number of resources of its type.
LEMMA RoomForOne ==
  ASSUME NEW type \in Types, Count(type) <= MODAC_RES_PER_VIRT_DEV_MAX_COUNT,
         NEW i \in Indices(type), NEW table \in Seq(Nat),
         \A k \in 1 .. Len(table) : table[k] \in Indices(type) \ {i},
         \A j, k \in 1 .. Len(table) : table[j] = table[k] => j = k
  PROVE  Len(table) < MODAC_RES_PER_VIRT_DEV_MAX_COUNT
<1> DEFINE n == Len(table)
<1> DEFINE T == Indices(type) \ {i}
<1>1. n \in Nat /\ table = [k \in 1 .. n |-> table[k]]
  OBVIOUS
<1>2. Count(type) \in Nat /\ Count(type) <= MODAC_RES_PER_VIRT_DEV_MAX_COUNT
  BY ResourceFacts
<1>3. IsFiniteSet(Indices(type)) /\ Cardinality(Indices(type)) = Count(type)
  <2>1. Count(type) - 1 \in Int
    BY <1>2
  <2> QED
    BY <1>2, <2>1, FS_Interval DEF Indices
<1>4. IsFiniteSet(T) /\ Cardinality(T) = Count(type) - 1
  BY <1>3, FS_RemoveElement
<1>5. IsFiniteSet(1 .. n) /\ Cardinality(1 .. n) = n
  <2> HIDE DEF n
  <2>1. 1 \in Int /\ n \in Int /\ (IF 1 > n THEN 0 ELSE n - 1 + 1) = n
    BY <1>1
  <2> QED
    BY <2>1, FS_Interval
<1>6. table \in [1 .. n -> T]
  BY <1>1
<1>7. ~(Cardinality(T) < Cardinality(1 .. n))
  <2> HIDE DEF T, n
  <2> QED
    BY <1>4, <1>5, <1>6, FS_PigeonHole DEF n
<1> QED
  BY <1>1, <1>2, <1>4, <1>5, <1>7, ResourceAssumption

\* What one VIRT_DEV's table must be.
TableAgrees(id) ==
  /\ \A r \in Resources :
       /\ Lists(id, r) => owner[r] = id
       /\ owner[r] = id =>
            \/ Lists(id, r)
            \/ Len(res_alloc_index[id][r[1]]) = MODAC_RES_PER_VIRT_DEV_MAX_COUNT
  /\ \A type \in Types :
       LET table == res_alloc_index[id][type]
       IN  /\ Len(table) <= MODAC_RES_PER_VIRT_DEV_MAX_COUNT
           /\ \A k \in 1 .. Len(table) : table[k] \in Indices(type)
           /\ \A j, k \in 1 .. Len(table) : table[j] = table[k] => j = k

LEMMA TablesAgreeByVdev ==
  TablesAgree <=> /\ \A r \in Resources : owner[r] \in vdev_list \cup {NO_OWNER}
                  /\ \A id \in vdev_list : TableAgrees(id)
BY DEF TablesAgree, TableAgrees

\* A successful allocation, whether the table has room for it or not.
LEMMA SeizeKeeps ==
  ASSUME RMInv, NEW id \in vdev_list, NEW r \in Resources,
         owner[r] = NO_OWNER, Seize(id, r)
  PROVE  RMInv'
<1> DEFINE type == r[1]
<1> DEFINE table == res_alloc_index[id][type]
<1> DEFINE new == Append(table, r[2])
<1>1. id \in Ids /\ type \in Types /\ r[2] \in Indices(type) /\ r[2] \in Nat
  BY ResourceFacts DEF RMInv, RMTypeOK
<1>2. \A other \in vdev_list : other \in Ids /\ other # NO_OWNER /\ TableAgrees(other)
  BY ResourceAssumption, TablesAgreeByVdev DEF RMInv, RMTypeOK
<1>3. table \in Seq(Nat) /\ Len(table) \in Nat
  BY <1>1 DEF RMInv, RMTypeOK
<1>4. \A k \in 1 .. Len(table) : table[k] \in Indices(type) \ {r[2]}
  BY <1>1, <1>2 DEF TableAgrees, Lists
<1>5. /\ \A j, k \in 1 .. Len(table) : table[j] = table[k] => j = k
      /\ Len(table) <= MODAC_RES_PER_VIRT_DEV_MAX_COUNT
  BY <1>1, <1>2 DEF TableAgrees
<1>6. /\ owner' = [owner EXCEPT ![r] = id]
      /\ UNCHANGED <<vdev_list, name, usage_counter, leave_res_set, device, are_set>>
  BY DEF Seize
<1>7. owner'[r] = id /\ \A q \in Resources : q # r => owner'[q] = owner[q]
  BY <1>6 DEF RMInv, RMTypeOK
<1>8. owner' \in [Resources -> Ids \cup {NO_OWNER}]
  BY <1>1, <1>6 DEF RMInv, RMTypeOK
<1>9. \A q \in Resources : owner'[q] \in vdev_list' \cup {NO_OWNER}
  BY <1>6, <1>7 DEF RMInv, TablesAgree
<1>10. CASE Len(table) < MODAC_RES_PER_VIRT_DEV_MAX_COUNT
  <2>1. res_alloc_index' = [res_alloc_index EXCEPT ![id][type] = new]
    BY <1>10 DEF Seize, AddRes
  <2>2. /\ new \in Seq(Nat) /\ Len(new) = Len(table) + 1
        /\ \A k \in 1 .. Len(table) : new[k] = table[k]
        /\ new[Len(table) + 1] = r[2]
    BY <1>1, <1>3
  <2>3. res_alloc_index' \in [Ids -> [Types -> Seq(Nat)]]
    BY <1>1, <2>1, <2>2 DEF RMInv, RMTypeOK
  <2>4. res_alloc_index'[id][type] = new
    BY <1>1, <2>1 DEF RMInv, RMTypeOK
  <2>5. \A other \in Ids, t \in Types : other # id \/ t # type =>
          res_alloc_index'[other][t] = res_alloc_index[other][t]
    BY <1>1, <2>1 DEF RMInv, RMTypeOK
  <2>l. Len(table) \in Nat
    BY <1>3
  <2> HIDE DEF table, new
  <2>6. ASSUME NEW other \in vdev_list, NEW q \in Resources
        PROVE  /\ Lists(other, q)' => owner'[q] = other
               /\ owner'[q] = other =>
                    \/ Lists(other, q)'
                    \/ Len(res_alloc_index'[other][q[1]])
                         = MODAC_RES_PER_VIRT_DEV_MAX_COUNT
    <3>1. other \in Ids /\ q = <<q[1], q[2]>> /\ q[1] \in Types /\ r = <<r[1], r[2]>>
      BY <1>2, ResourceFacts
    <3>2. /\ Lists(other, q) => owner[q] = other
          /\ owner[q] = other =>
               \/ Lists(other, q)
               \/ Len(res_alloc_index[other][q[1]]) = MODAC_RES_PER_VIRT_DEV_MAX_COUNT
      BY <1>2 DEF TableAgrees
    <3>3. CASE other # id \/ q[1] # type
      <4>1. res_alloc_index'[other][q[1]] = res_alloc_index[other][q[1]]
        BY <2>5, <3>1, <3>3
      <4>2. Lists(other, q)' <=> Lists(other, q)
        BY <4>1 DEF Lists
      <4>3. owner'[q] = other <=> owner[q] = other
        BY <1>2, <1>7, <3>3
      <4> QED
        BY <3>2, <4>1, <4>2, <4>3
    <3>4. CASE other = id /\ q[1] = type /\ q = r
      BY <1>3, <1>7, <2>2, <2>4, <3>4 DEF Lists
    <3>5. CASE other = id /\ q[1] = type /\ q # r
      <4>1. q[2] # r[2]
        BY <3>1, <3>5
      <4>2. Lists(other, q)' <=> \E k \in 1 .. Len(new) : new[k] = q[2]
        BY <2>4, <3>5 DEF Lists
      <4>3. Lists(other, q) <=> \E k \in 1 .. Len(table) : table[k] = q[2]
        BY <3>5 DEF Lists, table
      <4>4. Lists(other, q)' <=> Lists(other, q)
        <5>1. ASSUME NEW k \in 1 .. Len(table), table[k] = q[2]
              PROVE  k \in 1 .. Len(new) /\ new[k] = q[2]
          BY <2>l, <2>2, <5>1
        <5>2. ASSUME NEW k \in 1 .. Len(new), new[k] = q[2]
              PROVE  k \in 1 .. Len(table) /\ table[k] = q[2]
          BY <2>l, <2>2, <4>1, <5>2
        <5> QED
          BY <4>2, <4>3, <5>1, <5>2
      <4>5. res_alloc_index[other][q[1]] = table
        BY <3>5 DEF table
      <4>6. Len(table) # MODAC_RES_PER_VIRT_DEV_MAX_COUNT
        BY <1>3, <1>10, ResourceAssumption DEF table
      <4>7. owner[q] = other => Lists(other, q)
        BY <3>2, <4>5, <4>6
      <4> QED
        BY <1>7, <3>2, <3>5, <4>4, <4>7
    <3> QED
      BY <3>3, <3>4, <3>5
  <2>7. ASSUME NEW other \in vdev_list, NEW t \in Types
        PROVE  LET tab == res_alloc_index'[other][t]
               IN  /\ Len(tab) <= MODAC_RES_PER_VIRT_DEV_MAX_COUNT
                   /\ \A k \in 1 .. Len(tab) : tab[k] \in Indices(t)
                   /\ \A j, k \in 1 .. Len(tab) : tab[j] = tab[k] => j = k
    <3>1. CASE other = id /\ t = type
      <4>1. res_alloc_index'[other][t] = new
        BY <2>4, <3>1
      <4>2. \A k \in 1 .. Len(new) :
              \/ k \in 1 .. Len(table) /\ new[k] = table[k]
              \/ k = Len(table) + 1 /\ new[k] = r[2]
        BY <1>3, <2>2
      <4>3. \A k \in 1 .. Len(new) : new[k] \in Indices(t)
        BY <1>1, <1>4, <3>1, <4>2
      <4>4. \A j, k \in 1 .. Len(new) : new[j] = new[k] => j = k
        BY <1>4, <1>5, <4>2
      <4>5. Len(new) <= MODAC_RES_PER_VIRT_DEV_MAX_COUNT
        BY <1>3, <1>10, <2>2, ResourceAssumption DEF table
      <4> QED
        BY <4>1, <4>3, <4>4, <4>5
    <3>2. CASE other # id \/ t # type
      <4>1. res_alloc_index'[other][t] = res_alloc_index[other][t]
        BY <1>2, <2>5, <3>2
      <4> QED
        BY <1>2, <4>1 DEF TableAgrees
    <3> QED
      BY <3>1, <3>2
  <2>8. TablesAgree'
    BY <1>6, <1>9, <2>6, <2>7 DEF TablesAgree
  <2>9. RMTypeOK'
    BY <1>6, <1>8, <2>3 DEF RMInv, RMTypeOK
  <2> QED
    BY <2>8, <2>9 DEF RMInv
<1>11. CASE ~(Len(table) < MODAC_RES_PER_VIRT_DEV_MAX_COUNT)
  <2>1. res_alloc_index' = res_alloc_index
    BY <1>11 DEF Seize, AddRes
  <2>2. Len(table) = MODAC_RES_PER_VIRT_DEV_MAX_COUNT
    BY <1>3, <1>5, <1>11, ResourceAssumption
  <2>3. ~Lists(id, r)
    BY <1>4 DEF Lists
  <2>4. ASSUME NEW other \in vdev_list, NEW q \in Resources
        PROVE  /\ Lists(other, q)' => owner'[q] = other
               /\ owner'[q] = other =>
                    \/ Lists(other, q)'
                    \/ Len(res_alloc_index'[other][q[1]])
                         = MODAC_RES_PER_VIRT_DEV_MAX_COUNT
    <3>1. Lists(other, q)' <=> Lists(other, q)
      BY <2>1 DEF Lists
    <3>2. /\ Lists(other, q) => owner[q] = other
          /\ owner[q] = other =>
               \/ Lists(other, q)
               \/ Len(res_alloc_index[other][q[1]]) = MODAC_RES_PER_VIRT_DEV_MAX_COUNT
      BY <1>2 DEF TableAgrees
    <3>3. CASE q = r /\ other = id
      BY <1>7, <2>1, <2>2, <2>3, <3>1, <3>3
    <3>4. CASE q = r /\ other # id
      BY <1>2, <1>7, <3>1, <3>2, <3>4
    <3>5. CASE q # r
      BY <1>7, <2>1, <3>1, <3>2, <3>5
    <3> QED
      BY <3>3, <3>4, <3>5
  <2>5. TablesAgree'
    BY <1>6, <1>9, <2>1, <2>4 DEF RMInv, TablesAgree
  <2> QED
    BY <1>6, <1>8, <2>1, <2>5 DEF RMInv, RMTypeOK
<1> QED
  BY <1>10, <1>11

\* Steps that leave the two records alone.
LEMMA OtherKeeps ==
  ASSUME RMInv, RMTypeOK', UNCHANGED <<owner, vdev_list, res_alloc_index>>
  PROVE  RMInv'
BY DEF RMInv, TablesAgree, Lists

\* RMInv is kept by every step.
LEMMA RMPreserved == RMInv /\ [RMNext]_rmVars => RMInv'
<1> SUFFICES ASSUME RMInv, [RMNext]_rmVars PROVE RMInv'
  OBVIOUS
<1>t. RMTypeOK
  BY DEF RMInv
<1>a. NO_OWNER \notin Ids /\ MaxOpen \in Nat
  BY ResourceAssumption
<1>u. CASE UNCHANGED rmVars
  BY <1>u DEF rmVars, descriptorVars, RMInv, RMTypeOK, TablesAgree, Lists
<1>1. ASSUME NEW n \in Names, Create(n)
      PROVE  RMInv'
  <2>1. PICK id \in Ids \ vdev_list :
          vdev_list' = vdev_list \cup {id} /\ Blank(id, n)
    BY <1>1 DEF Create
  <2>2. UNCHANGED <<owner, device, are_set>>
    BY <1>1 DEF Create
  <2>3. RMTypeOK'
    BY <1>a, <1>t, <2>1, <2>2 DEF Blank, RMTypeOK
  <2>4. \A r \in Resources : owner[r] # id
    BY <1>a, <2>1 DEF RMInv, TablesAgree
  <2>5. /\ \A type \in Types : res_alloc_index'[id][type] = << >>
        /\ \A other \in vdev_list : res_alloc_index'[other] = res_alloc_index[other]
    BY <1>t, <2>1 DEF Blank, RMTypeOK
  <2>6. ASSUME NEW r \in Resources PROVE ~Lists(id, r)'
    BY <2>5, ResourceFacts DEF Lists
  <2>7. ASSUME NEW other \in vdev_list, NEW r \in Resources
        PROVE  Lists(other, r)' <=> Lists(other, r)
    BY <2>5 DEF Lists
  <2>8. ASSUME NEW type \in Types
        PROVE  Len(res_alloc_index'[id][type]) = 0 /\ 0 <= MODAC_RES_PER_VIRT_DEV_MAX_COUNT
    BY <2>5, ResourceAssumption
  <2>9. TablesAgree'
    BY <2>1, <2>2, <2>4, <2>5, <2>6, <2>7, <2>8 DEF RMInv, TablesAgree
  <2> QED
    BY <2>3, <2>9 DEF RMInv
<1>2. ASSUME NEW id \in Ids, Destroy(id)
      PROVE  RMInv'
  <2>1. /\ id \in vdev_list /\ vdev_list' = vdev_list \ {id}
        /\ owner' = [r \in Resources |-> IF owner[r] = id THEN NO_OWNER ELSE owner[r]]
        /\ UNCHANGED <<device, are_set>> /\ Blank(id, NoName)
    BY <1>2 DEF Destroy
  <2>2. RMTypeOK'
    BY <1>a, <1>t, <2>1 DEF Blank, RMTypeOK
  <2>3. \A other \in vdev_list' : res_alloc_index'[other] = res_alloc_index[other]
    BY <1>t, <2>1 DEF Blank, RMTypeOK
  <2>4. ASSUME NEW other \in vdev_list', NEW r \in Resources
        PROVE  /\ Lists(other, r)' <=> Lists(other, r)
               /\ owner'[r] = other <=> owner[r] = other
    BY <1>a, <1>t, <2>1, <2>3 DEF Lists, RMTypeOK
  <2>5. TablesAgree'
    BY <2>1, <2>3, <2>4 DEF RMInv, TablesAgree
  <2> QED
    BY <2>2, <2>5 DEF RMInv
<1>3. ASSUME NEW id \in Ids, NEW r \in Resources, AllocFixed(id, r)
      PROVE  RMInv'
  BY <1>3, SeizeKeeps DEF AllocFixed, MayAlloc
<1>4. ASSUME NEW id \in Ids, NEW type \in Types, NEW filter \in Filters,
             AllocFromPool(id, type, filter)
      PROVE  RMInv'
  BY <1>4, SeizeKeeps DEF AllocFromPool, MayAlloc, PoolChoice
<1>5. ASSUME NEW id \in Ids, Open(id) \/ Close(id)
      PROVE  RMInv'
  <2>1. /\ usage_counter' \in [Ids -> 0 .. MaxOpen]
        /\ UNCHANGED <<owner, vdev_list, name, res_alloc_index, leave_res_set, device>>
    <3>1. CASE Open(id)
      BY <3>1, <1>a, <1>t DEF Open, RMTypeOK
    <3>2. CASE Close(id)
      BY <3>2, <1>a, <1>t DEF Close, RMTypeOK
    <3> QED
      BY <1>5, <3>1, <3>2
  <2>2. are_set' \subseteq Indices("pulsegen")
    BY <1>5, <1>t DEF Open, Close, InitRes, RMTypeOK
  <2> QED
    BY <1>t, <2>1, <2>2, OtherKeeps DEF RMTypeOK
<1>6. ASSUME NEW id \in Ids, NEW leave \in BOOLEAN, HwReset(id) \/ StoreConfig(id, leave)
      PROVE  RMInv'
  BY <1>6, <1>t, OtherKeeps DEF HwReset, StoreConfig, InitRes, descriptorVars, RMTypeOK
<1>7. ASSUME NEW id \in Ids, NEW k, VdevHwIoctl(id, k)
      PROVE  RMInv'
  <2>1. res_alloc_index[id]["pulsegen"][k] \in Indices("pulsegen")
    BY <1>7 DEF VdevHwIoctl, MayUse, RMInv, TablesAgree, Types
  <2> QED
    BY <1>7, <1>t, <2>1, OtherKeeps DEF VdevHwIoctl, descriptorVars, RMTypeOK
<1>8. CASE Unplug
  BY <1>8, <1>t, OtherKeeps DEF Unplug, descriptorVars, RMTypeOK
<1>9. ASSUME NEW id \in Ids, HwReset(id) PROVE RMInv'
  BY <1>6, <1>9
<1>10. CASE MngInit
  BY <1>10, <1>t, OtherKeeps DEF MngInit, descriptorVars, RMTypeOK
<1> QED
  BY <1>u, <1>1, <1>2, <1>3, <1>4, <1>5, <1>6, <1>7, <1>8, <1>9, <1>10
     DEF RMNext, RMStep, CreateFailed, CreateRefused, DestroyRefused, AllocRefused,
         MngHwIoctl

LEMMA RMInvariance == RMSpec => []RMInv
BY RMInitial, RMPreserved, PTL DEF RMSpec

\* On every card and after every history of CREATE, DESTROY and ALLOC, the table
\* of each VIRT_DEV lists only what the resource manager says it owns, and all of
\* it unless the table is full, when vdev_on_res_add fails and ALLOC does not look.
THEOREM RMTablesAgree == RMSpec => []TablesAgree
BY RMInvariance, PTL DEF RMInv

\* Where a VIRT_DEV can list all resources of a type, it lists what it owns: a full
\* table would list them all, the one it lacks included.
LEMMA OwnedIsListed ==
  ASSUME RMInv, NEW id \in vdev_list, NEW r \in Resources, owner[r] = id,
         Count(r[1]) <= MODAC_RES_PER_VIRT_DEV_MAX_COUNT
  PROVE  Lists(id, r)
<1> DEFINE table == res_alloc_index[id][r[1]]
<1> SUFFICES ASSUME ~Lists(id, r) PROVE FALSE
  OBVIOUS
<1>1. id \in Ids /\ r[1] \in Types /\ r[2] \in Indices(r[1])
  BY ResourceFacts DEF RMInv, RMTypeOK
<1>2. table \in Seq(Nat)
  BY <1>1 DEF RMInv, RMTypeOK
<1>3. TableAgrees(id)
  BY TablesAgreeByVdev DEF RMInv
<1>4. \A k \in 1 .. Len(table) : table[k] \in Indices(r[1]) \ {r[2]}
  BY <1>1, <1>3 DEF TableAgrees, Lists
<1>5. \A j, k \in 1 .. Len(table) : table[j] = table[k] => j = k
  BY <1>1, <1>3 DEF TableAgrees
<1>6. Len(table) = MODAC_RES_PER_VIRT_DEV_MAX_COUNT
  BY <1>3 DEF TableAgrees
<1> HIDE DEF table
<1>7. Len(table) < MODAC_RES_PER_VIRT_DEV_MAX_COUNT
  BY <1>1, <1>2, <1>4, <1>5, RoomForOne
<1> QED
  BY <1>6, <1>7, ResourceAssumption

\* The table of a VIRT_DEV lists exactly what it owns.
TablesExact == \A id \in vdev_list, r \in Resources : owner[r] = id <=> Lists(id, r)

\* On the cards with no more outputs than a table has places, which are all that
\* pci-evr.c selects, ALLOC ignores nothing: owners and tables agree exactly.
THEOREM RMTablesExact ==
  ASSUME OutputCount <= MODAC_RES_PER_VIRT_DEV_MAX_COUNT
  PROVE  RMSpec => []TablesExact
<1>1. \A r \in Resources : Count(r[1]) <= MODAC_RES_PER_VIRT_DEV_MAX_COUNT
  BY ResourceAssumption DEF Count
<1>2. RMInv => TablesExact
  BY <1>1, OwnedIsListed DEF TablesExact, RMInv, TablesAgree
<1> QED
  BY <1>2, RMInvariance, PTL

-----------------------------------------------------------------------------
(* What a step may not do.                                                 *)

\* Every step creates, destroys, allocates, opens or closes, or leaves the
\* owners, the tables and the counters alone.
LEMMA StepKinds ==
  ASSUME RMNext
  PROVE  \/ UNCHANGED <<owner, res_alloc_index, usage_counter>>
         \/ \E n \in Names : Create(n)
         \/ \E id \in Ids : Destroy(id) \/ Open(id) \/ Close(id)
         \/ \E id \in Ids, r \in Resources :
              MayAlloc(id) /\ owner[r] = NO_OWNER /\ Seize(id, r)
<1>1. ASSUME NEW id \in Ids, NEW type \in Types, NEW filter \in Filters,
             AllocFromPool(id, type, filter)
      PROVE  \E r \in Resources : MayAlloc(id) /\ owner[r] = NO_OWNER /\ Seize(id, r)
  BY <1>1 DEF AllocFromPool, PoolChoice
<1>2. ASSUME NEW id \in Ids, NEW r \in Resources, AllocFixed(id, r)
      PROVE  MayAlloc(id) /\ owner[r] = NO_OWNER /\ Seize(id, r)
  BY <1>2 DEF AllocFixed
<1>3. ASSUME NEW id \in Ids, NEW type \in Types, AllocRefused(id, type)
      PROVE  UNCHANGED <<owner, res_alloc_index, usage_counter>>
  BY <1>3 DEF AllocRefused, rmVars, descriptorVars
<1>4. ASSUME NEW id \in Ids,
             \/ DestroyRefused(id) \/ HwReset(id)
             \/ \E leave \in BOOLEAN : StoreConfig(id, leave)
      PROVE  UNCHANGED <<owner, res_alloc_index, usage_counter>>
  BY <1>4 DEF DestroyRefused, HwReset, StoreConfig, rmVars, descriptorVars
<1>5. ASSUME Unplug \/ MngInit \/ \E n, e : CreateFailed(n) \/ CreateRefused(e, n)
      PROVE  UNCHANGED <<owner, res_alloc_index, usage_counter>>
  BY <1>5 DEF CreateFailed, CreateRefused, Unplug, MngInit, rmVars, descriptorVars
<1>6. ASSUME NEW id \in Ids, NEW k, MngHwIoctl(id, k) \/ VdevHwIoctl(id, k)
      PROVE  UNCHANGED <<owner, res_alloc_index, usage_counter>>
  BY <1>6 DEF MngHwIoctl, VdevHwIoctl, rmVars, descriptorVars
<1> QED
  BY <1>1, <1>2, <1>3, <1>4, <1>5, <1>6 DEF RMNext, RMStep

\* A created VIRT_DEV was not on the list, and disturbs no other.
LEMMA CreateStep ==
  ASSUME RMInv, NEW n \in Names, Create(n)
  PROVE  /\ UNCHANGED owner
         /\ \A id \in vdev_list : /\ res_alloc_index'[id] = res_alloc_index[id]
                                   /\ usage_counter'[id] = usage_counter[id]
<1>1. PICK id \in Ids \ vdev_list : Blank(id, n)
  BY DEF Create
<1> QED
  BY <1>1 DEF Create, Blank, RMInv, RMTypeOK

\* A resource is given up only when its owner goes.
LEMMA NeverTakenStep ==
  ASSUME RMInv, RMNext, NEW r \in Resources, owner[r] # NO_OWNER, owner'[r] # owner[r]
  PROVE  owner'[r] = NO_OWNER /\ owner[r] \notin vdev_list'
<1> DEFINE Goal == owner'[r] = NO_OWNER /\ owner[r] \notin vdev_list'
<1>1. CASE UNCHANGED owner
  BY <1>1
<1>2. ASSUME NEW id \in Ids, Destroy(id) PROVE Goal
  BY <1>2 DEF Destroy
<1>3. ASSUME NEW id \in Ids, NEW q \in Resources, owner[q] = NO_OWNER, Seize(id, q)
      PROVE  Goal
  BY <1>3 DEF Seize, RMInv, RMTypeOK
<1>4. ASSUME NEW n \in Names, Create(n) PROVE Goal
  BY <1>4, CreateStep
<1>5. ASSUME NEW id \in Ids, Open(id) \/ Close(id) PROVE Goal
  BY <1>5 DEF Open, Close
<1> QED
  BY StepKinds, <1>1, <1>2, <1>3, <1>4, <1>5

\* rm.c never moves a resource from one VIRT_DEV to another: it is given up only
\* by modac_rm_free_owner, when its owner goes.
THEOREM RMNeverTakenAway == RMSpec => NeverTakenAway
<1> DEFINE Step == \A r \in Resources :
                     owner[r] # NO_OWNER /\ owner'[r] # owner[r] =>
                       owner'[r] = NO_OWNER /\ owner[r] \notin vdev_list'
<1>1. RMInv /\ [RMNext]_rmVars => [Step]_rmVars
  BY NeverTakenStep
<1> QED
  BY <1>1, RMInvariance, PTL DEF RMSpec, NeverTakenAway

\* The resources of an open VIRT_DEV, and the indices its application knows them
\* by, do not change: ALLOC refuses while usage_counter is positive.
THEOREM RMOpenKeepsResources == RMSpec => OpenKeepsResources
<1> DEFINE Step == \A id \in vdev_list \cap vdev_list' :
                     usage_counter[id] > 0 => res_alloc_index'[id] = res_alloc_index[id]
<1>1. RMInv /\ [RMNext]_rmVars => [Step]_rmVars
  <2> SUFFICES ASSUME RMInv, RMNext PROVE Step
    OBVIOUS
  <2>1. CASE UNCHANGED res_alloc_index
    BY <2>1
  <2>2. ASSUME NEW n \in Names, Create(n) PROVE Step
    BY <2>2, CreateStep
  <2>3. ASSUME NEW id \in Ids, Destroy(id) PROVE Step
    BY <2>3 DEF Destroy, Blank, RMInv, RMTypeOK
  <2>4. ASSUME NEW id \in Ids, NEW r \in Resources, MayAlloc(id), Seize(id, r)
        PROVE  Step
    <3>1. usage_counter[id] = 0
      BY <2>4 DEF MayAlloc
    <3>2. \A other \in Ids : other # id => res_alloc_index'[other] = res_alloc_index[other]
      BY <2>4 DEF Seize, AddRes, RMInv, RMTypeOK
    <3> QED
      BY <3>1, <3>2 DEF RMInv, RMTypeOK
  <2>5. ASSUME NEW id \in Ids, Open(id) \/ Close(id) PROVE Step
    BY <2>5 DEF Open, Close
  <2> QED
    BY StepKinds, <2>1, <2>2, <2>3, <2>4, <2>5
<1> QED
  BY <1>1, RMInvariance, PTL DEF RMSpec, OpenKeepsResources

\* The last close initialises every pulse generator the VIRT_DEV owns, though
\* modac_c_vdev_init_res goes by the table and not by the owners: a table has room
\* for all pulse generators of any card.
THEOREM RMLastCloseInitialises == RMSpec => LastCloseInitialises
<1> DEFINE Step == \A id \in vdev_list \cap vdev_list' :
                     usage_counter[id] = 1 /\ usage_counter'[id] = 0 /\ device
                       /\ id \notin leave_res_set =>
                       \A i \in Indices("pulsegen") :
                         owner[<<"pulsegen", i>>] = id => i \notin are_set'
<1>1. RMInv /\ [RMNext]_rmVars => [Step]_rmVars
  <2> SUFFICES ASSUME RMInv, RMNext PROVE Step
    OBVIOUS
  <2>1. CASE UNCHANGED usage_counter
    BY <2>1
  <2>2. ASSUME NEW n \in Names, Create(n) PROVE Step
    BY <2>2, CreateStep
  <2>3. ASSUME NEW id \in Ids, Destroy(id) PROVE Step
    BY <2>3 DEF Destroy, Blank, RMInv, RMTypeOK
  <2>4. ASSUME NEW id \in Ids, Open(id) PROVE Step
    BY <2>4 DEF Open, RMInv, RMTypeOK
  <2>5. ASSUME NEW id \in Ids, Close(id) PROVE Step
    <3> SUFFICES ASSUME NEW other \in vdev_list \cap vdev_list',
                        usage_counter[other] = 1, usage_counter'[other] = 0, device,
                        other \notin leave_res_set,
                        NEW i \in Indices("pulsegen"), owner[<<"pulsegen", i>>] = other
                 PROVE  i \notin are_set'
      OBVIOUS
    <3>1. other = id
      BY <2>5 DEF Close, RMInv, RMTypeOK
    <3>2. Lists(id, <<"pulsegen", i>>)
      BY <3>1, OwnedIsListed, ResourceFacts, ResourceAssumption DEF Types, Count
    <3> QED
      BY <2>5, <3>1, <3>2 DEF Close, InitRes
  <2>6. ASSUME NEW id \in Ids, NEW r \in Resources, Seize(id, r) PROVE Step
    BY <2>6 DEF Seize
  <2> QED
    BY StepKinds, <2>1, <2>2, <2>3, <2>4, <2>5, <2>6
<1> QED
  BY <1>1, RMInvariance, PTL DEF RMSpec, LastCloseInitialises

\* What pulsegen_suits returns: for a resource that does, the three differences.
LEMMA SuitsExact ==
  ASSUME NEW r \in Resources, NEW filter \in Filters, r[1] = "pulsegen"
  PROVE  LET bits == PulsegenBits[r[2] + 1]
             s(p) == PropertySuitability(bits[p], filter[p])
         IN  /\ \A p \in Properties : bits[p] \in Nat /\ filter[p] \in Int
             /\ \A p \in Properties : s(p) >= 1 => bits[p] >= filter[p]
             /\ (\A p \in Properties : s(p) >= 1)
                  => /\ Suits(r, filter) = 99 + filter[1] + filter[2] + filter[3]
                                             - bits[1] - bits[2] - bits[3]
                     /\ Suits(r, filter) > 0
             /\ ~(\A p \in Properties : s(p) >= 1) => Suits(r, filter) = 0
<1> DEFINE bits == PulsegenBits[r[2] + 1]
           s(p) == PropertySuitability(bits[p], filter[p])
<1>1. r[2] + 1 \in 1 .. Len(PulsegenBits)
  BY ResourceFacts, ResourceAssumption DEF Indices, Count, PulsegenCount
<1>2. bits \in [Properties -> Nat] /\ filter \in [Properties -> Int]
  BY <1>1, ResourceAssumption
<1>3. \A p \in Properties : /\ bits[p] \in Nat /\ filter[p] \in Int
                            /\ s(p) >= 1 => bits[p] >= filter[p]
                            /\ s(p) >= 1 => s(p) = 33 + filter[p] - bits[p]
  BY <1>2 DEF PropertySuitability
<1>4. Suits(r, filter) = IF \A p \in Properties : s(p) >= 1 THEN s(1) + s(2) + s(3) ELSE 0
  BY DEF Suits, Properties
<1>5. 1 \in Properties /\ 2 \in Properties /\ 3 \in Properties
  BY DEF Properties
<1> HIDE DEF s, bits
<1>6. ASSUME \A p \in Properties : s(p) >= 1
      PROVE  /\ Suits(r, filter) = 99 + filter[1] + filter[2] + filter[3]
                                      - bits[1] - bits[2] - bits[3]
             /\ Suits(r, filter) > 0
  BY <1>3, <1>4, <1>5, <1>6
<1> QED BY <1>3, <1>4, <1>6 DEF s, bits

\* A suitability is a number.
LEMMA SuitsInt ==
  ASSUME NEW r \in Resources, NEW filter \in Filters, r[1] = "pulsegen"
  PROVE  Suits(r, filter) \in Int
<1> DEFINE bits == PulsegenBits[r[2] + 1]
           s == [p \in Properties |-> PropertySuitability(bits[p], filter[p])]
<1>1. 1 \in Properties /\ 2 \in Properties /\ 3 \in Properties
  BY DEF Properties
<1>2. \A p \in Properties : bits[p] \in Nat /\ filter[p] \in Int
  BY SuitsExact
<1>3. \A p \in Properties : s[p] \in Int
  BY <1>2 DEF PropertySuitability
<1> QED
  BY <1>1, <1>3 DEF Suits

\* Of two pulsegens the shorter is the more suitable.
LEMMA ShorterSuitsBetter ==
  ASSUME NEW filter \in Filters, NEW q \in Resources, NEW r \in Resources,
         q[1] = "pulsegen", r[1] = "pulsegen", Suits(r, filter) > 0,
         Satisfies(q, filter), ShorterThan(q, r)
  PROVE  Suits(q, filter) > Suits(r, filter)
<1> DEFINE long == PulsegenBits[r[2] + 1]
           short == PulsegenBits[q[2] + 1]
<1>1. /\ \A p \in Properties : PropertySuitability(long[p], filter[p]) >= 1
      /\ \A p \in Properties : long[p] \in Nat /\ short[p] \in Nat /\ filter[p] \in Int
  BY SuitsExact
<1>2. \A p \in Properties : filter[p] <= short[p] /\ short[p] <= long[p]
  BY <1>1 DEF Satisfies, ShorterThan
<1>3. \A p \in Properties : PropertySuitability(short[p], filter[p]) >= 1
  BY <1>1, <1>2 DEF PropertySuitability
<1>4. /\ Suits(r, filter) = 99 + filter[1] + filter[2] + filter[3] - long[1] - long[2] - long[3]
      /\ Suits(q, filter) = 99 + filter[1] + filter[2] + filter[3] - short[1] - short[2] - short[3]
  BY <1>1, <1>3, SuitsExact
<1>5. \/ short[1] < long[1] \/ short[2] < long[2] \/ short[3] < long[3]
  BY DEF ShorterThan, Properties
<1>6. 1 \in Properties /\ 2 \in Properties /\ 3 \in Properties
  BY DEF Properties
<1> HIDE DEF long, short
<1> QED BY <1>1, <1>2, <1>4, <1>5, <1>6

\* modac_rm_alloc gives the most suitable free pulsegen (rm.c), and none that is
\* longer than need be is (pulsegen_property_suitability, evr.c:253).
THEOREM RMPoolTakesShortest == RMSpec => PoolTakesShortest
<1> DEFINE Step ==
      \A r \in Resources : owner[r] = NO_OWNER /\ owner'[r] \in Ids =>
        \A filter \in Filters : AllocFromPool(owner'[r], "pulsegen", filter) =>
          /\ r[1] = "pulsegen" /\ Satisfies(r, filter)
          /\ \A q \in Resources :
               q[1] = "pulsegen" /\ owner[q] = NO_OWNER /\ Satisfies(q, filter)
                 => ~ShorterThan(q, r)
<1>1. RMInv /\ [RMNext]_rmVars => [Step]_rmVars
  <2> SUFFICES ASSUME RMInv, NEW filter \in Filters, NEW r \in Resources,
                      owner[r] = NO_OWNER, owner'[r] \in Ids,
                      AllocFromPool(owner'[r], "pulsegen", filter)
      PROVE  /\ r[1] = "pulsegen" /\ Satisfies(r, filter)
             /\ \A q \in Resources :
                  q[1] = "pulsegen" /\ owner[q] = NO_OWNER /\ Satisfies(q, filter)
                    => ~ShorterThan(q, r)
    OBVIOUS
  <2>1. PICK given \in PoolChoice("pulsegen", filter) : Seize(owner'[r], given)
    BY DEF AllocFromPool
  <2>2. given = r
    BY <2>1, ResourceAssumption DEF Seize, RMInv, RMTypeOK, PoolChoice
  <2>3. /\ r[1] = "pulsegen" /\ Suits(r, filter) > 0
        /\ \A q \in Resources : q[1] = "pulsegen" /\ owner[q] = NO_OWNER
                                  => Suits(q, filter) <= Suits(r, filter)
    BY <2>1, <2>2 DEF PoolChoice
  <2>4. Satisfies(r, filter)
    BY <2>3, SuitsExact DEF Satisfies
  <2>5. ASSUME NEW q \in Resources, q[1] = "pulsegen", owner[q] = NO_OWNER,
               Satisfies(q, filter), ShorterThan(q, r)
        PROVE  FALSE
    <3>1. Suits(q, filter) > Suits(r, filter) /\ Suits(q, filter) <= Suits(r, filter)
      BY <2>3, <2>5, ShorterSuitsBetter
    <3>2. Suits(q, filter) \in Int /\ Suits(r, filter) \in Int
      BY <2>3, <2>5, SuitsInt
    <3> QED BY <3>1, <3>2
  <2> QED BY <2>3, <2>4, <2>5
<1> QED
  BY <1>1, RMInvariance, PTL DEF RMSpec, PoolTakesShortest

-----------------------------------------------------------------------------
(* The outputs.                                                            *)

OUInv == RMInv /\ OUTypeOK /\ OwnPulses

\* Every output is of one kind; the kinds that another follows have at most 32.
LEMMA KindFacts ==
  ASSUME NEW output \in Outputs
  PROVE  /\ output \in Int
         /\ KindOf(output) \in Kinds
         /\ OutCounts[KindOf(output)] \in 0 .. 64
         /\ KindOf(output) # 3 => OutCounts[KindOf(output)] <= 32
         /\ res_start[KindOf(output)] \in Nat
         /\ output \in res_start[KindOf(output)] ..
                        res_start[KindOf(output)] + OutCounts[KindOf(output)] - 1
<1>1. /\ OutCounts[1] \in 0 .. 32 /\ OutCounts[2] \in 0 .. 32 /\ OutCounts[3] \in 0 .. 64
      /\ output \in 0 .. OutCounts[1] + OutCounts[2] + OutCounts[3] - 1
  <2>1. 1 \in Kinds /\ 2 \in Kinds /\ 3 \in Kinds
    BY DEF Kinds
  <2>2. output \in Int /\ 0 <= output /\ output <= OutputCount - 1
    BY ResourceAssumption DEF Outputs, Indices, Count
  <2>3. OutCounts[1] \in 0 .. 64 /\ OutCounts[2] \in 0 .. 64 /\ OutCounts[3] \in 0 .. 64
    BY <2>1, OutputAssumption
  <2>4. /\ OutCounts[1] <= 32 /\ OutCounts[2] <= 32
        /\ OutputCount = OutCounts[1] + OutCounts[2] + OutCounts[3]
    BY OutputAssumption, Zenon
  <2>5. OutCounts[1] \in 0 .. 32 /\ OutCounts[2] \in 0 .. 32
    BY <2>3, <2>4
  <2>6. output \in 0 .. OutCounts[1] + OutCounts[2] + OutCounts[3] - 1
    <3> DEFINE n1 == OutCounts[1]
               n2 == OutCounts[2]
               n3 == OutCounts[3]
               n == OutputCount
    <3>1. /\ n1 \in Nat /\ n2 \in Nat /\ n3 \in Nat /\ n = n1 + n2 + n3
          /\ output \in Int /\ 0 <= output /\ output <= n - 1
      BY <2>2, <2>3, <2>4
    <3> HIDE DEF n1, n2, n3, n
    <3>2. output \in 0 .. n1 + n2 + n3 - 1
      BY <3>1
    <3> QED
      BY <3>2 DEF n1, n2, n3
  <2> QED
    BY <2>3, <2>5, <2>6
<1>2. res_start[1] = 0 /\ res_start[2] = OutCounts[1]
      /\ res_start[3] = OutCounts[1] + OutCounts[2]
  BY DEF res_start
<1>3. \A kind \in Kinds : kind = 1 \/ kind = 2 \/ kind = 3
  BY DEF Kinds
<1>4. 1 \in Kinds /\ 2 \in Kinds /\ 3 \in Kinds
  BY DEF Kinds
<1>5. \E kind \in Kinds :
        output \in res_start[kind] .. res_start[kind] + OutCounts[kind] - 1
  <2>1. CASE output < OutCounts[1]
    BY <1>1, <1>2, <1>4, <2>1
  <2>2. CASE output >= OutCounts[1] /\ output < OutCounts[1] + OutCounts[2]
    BY <1>1, <1>2, <1>4, <2>2
  <2>3. CASE output >= OutCounts[1] + OutCounts[2]
    BY <1>1, <1>2, <1>4, <2>3
  <2> QED
    BY <1>1, <2>1, <2>2, <2>3
<1>6. /\ KindOf(output) \in Kinds
      /\ output \in res_start[KindOf(output)] ..
                     res_start[KindOf(output)] + OutCounts[KindOf(output)] - 1
  BY <1>5 DEF KindOf
<1>7. \A kind \in Kinds : /\ OutCounts[kind] \in 0 .. 64 /\ res_start[kind] \in Nat
                          /\ kind # 3 => OutCounts[kind] <= 32
  BY <1>1, <1>2, <1>3
<1> QED
  BY <1>1, <1>6, <1>7

\* No two outputs share a register.
LEMMA OutRegOne ==
  ASSUME NEW o \in Outputs, NEW q \in Outputs, OutReg(o) = OutReg(q)
  PROVE  o = q
<1> DEFINE ko == KindOf(o)
           kq == KindOf(q)
           do == o - res_start[ko]
           dq == q - res_start[kq]
<1>1. /\ ko \in Kinds /\ do \in Nat /\ o = res_start[ko] + do /\ (ko # 3 => do <= 31)
      /\ kq \in Kinds /\ dq \in Nat /\ q = res_start[kq] + dq /\ (kq # 3 => dq <= 31)
  BY KindFacts
<1>2. evr_map_reg_start[ko] + do * 2 = evr_map_reg_start[kq] + dq * 2
  BY DEF OutReg, EVR_REG_OUTPUT_SLOT_SIZE
<1>3. /\ evr_map_reg_start[1] = 1024 /\ evr_map_reg_start[2] = 1088
      /\ evr_map_reg_start[3] = 1152
  BY DEF evr_map_reg_start
<1> HIDE DEF ko, kq, do, dq
<1>4. ko \in {1, 2, 3} /\ kq \in {1, 2, 3}
  BY <1>1 DEF Kinds
<1>5. ko = kq
  BY <1>1, <1>2, <1>3, <1>4
<1>6. do = dq
  BY <1>1, <1>2, <1>3, <1>4, <1>5
<1> QED
  BY <1>1, <1>5, <1>6

LEMMA PulsegenIndices == Indices("pulsegen") \subseteq PulsegenSources
BY OutputAssumption, ResourceFacts DEF Indices, Count, Types, PulsegenSources

LEMMA OUInitial == OUInit => OUInv
<1> SUFFICES ASSUME OUInit PROVE OUInv
  OBVIOUS
<1>1. RMInv
  BY RMInitial DEF OUInit
<1>2. Indices("pulsegen") \cup {OUTPUT_REG_MAPPING_FORCE_LOW} \subseteq Nat
  BY ResourceFacts DEF Types, OUTPUT_REG_MAPPING_FORCE_LOW
<1> QED
  BY <1>1, <1>2 DEF OUInv, OUTypeOK, OwnPulses, OUInit, RMInv

\* The outputs do nothing to the VIRT_DEVs the resource manager would not.
LEMMA OUStepIsRMStep == [OUNext]_ouVars => [RMNext]_rmVars
BY DEF OUNext, OutSetPulsegen, OutSetMisc, InitOutputs, Other, ouVars, RMNext

\* A register written for the output o, with a source that is no pulse generator
\* but one of o's owner.
LEMMA SetOutMapKeeps ==
  ASSUME OUInv, RMInv', UNCHANGED <<owner, vdev_list>>, NEW o \in Outputs,
         NEW source \in Nat, SetOutMap(o, source), owner[<<"output", o>>] \in vdev_list,
         source \in Indices("pulsegen") =>
           owner[<<"pulsegen", source>>] = owner[<<"output", o>>]
  PROVE  OUInv'
<1>1. \A q \in Outputs : OutReg(q) \in Registers
  BY DEF Registers
<1>2. out_map \in [Registers -> Nat] /\ configured \subseteq Outputs
  BY DEF OUInv, OUTypeOK
<1>3. out_map' \in [Registers -> Nat] /\ configured' \subseteq Outputs
  BY <1>2 DEF SetOutMap
<1>4. out_map'[OutReg(o)] = source
  BY <1>1, <1>2 DEF SetOutMap
<1>5. \A q \in configured : q # o => out_map'[OutReg(q)] = out_map[OutReg(q)]
  BY <1>1, <1>2, OutRegOne DEF SetOutMap
<1>6. OwnPulses'
  BY <1>4, <1>5 DEF OwnPulses, OUInv, SetOutMap
<1> QED
  BY <1>3, <1>6 DEF OUInv, OUTypeOK, RMInv

LEMMA OUPreserved == OUInv /\ [OUNext]_ouVars => OUInv'
<1> SUFFICES ASSUME OUInv, [OUNext]_ouVars PROVE OUInv'
  OBVIOUS
<1>i. RMInv /\ RMInv'
  BY OUStepIsRMStep, RMPreserved DEF OUInv
<1>o. ASSUME NEW id \in Ids, NEW k, MngHwIoctl(id, k)
      PROVE  LET o == res_alloc_index[id]["output"][k]
             IN  /\ o \in Outputs /\ owner[<<"output", o>>] = id /\ id \in vdev_list
                 /\ UNCHANGED <<owner, vdev_list>>
  BY <1>o, <1>i, ResourceFacts DEF MngHwIoctl, MayUse, Outputs, rmVars, RMInv, TablesAgree, Types
<1>1. ASSUME NEW id \in Ids, NEW k, NEW j, OutSetPulsegen(id, k, j)
      PROVE  OUInv'
  <2>1. MngHwIoctl(id, k) /\ id \in vdev_list
    BY <1>1, <1>o DEF OutSetPulsegen
  <2>2. PICK p : /\ p = res_alloc_index[id]["pulsegen"][j]
                 /\ owner[<<"pulsegen", p>>] = id
                 /\ SetOutMap(res_alloc_index[id]["output"][k], p)
    BY <1>1 DEF OutSetPulsegen, MayUse
  <2>3. p \in Indices("pulsegen") /\ p \in Nat
    BY <1>1, <1>i, <2>1, <2>2, ResourceFacts
       DEF OutSetPulsegen, MayUse, RMInv, TablesAgree, Types
  <2> DEFINE o == res_alloc_index[id]["output"][k]
  <2>4. /\ o \in Outputs /\ owner[<<"output", o>>] = id
        /\ UNCHANGED <<owner, vdev_list>> /\ SetOutMap(o, p)
    BY <1>o, <2>1, <2>2
  <2> HIDE DEF o
  <2> QED
    BY <1>i, <2>1, <2>2, <2>3, <2>4, SetOutMapKeeps
<1>2. ASSUME NEW id \in Ids, NEW k, NEW misc_func \in MiscFuncs,
             OutSetMisc(id, k, misc_func)
      PROVE  OUInv'
  <2>1. MngHwIoctl(id, k) /\ misc_func \notin Indices("pulsegen")
    BY <1>2, PulsegenIndices DEF OutSetMisc
  <2>2. misc_func \in Nat
    BY OutputAssumption
  <2> QED
    BY <1>2, <1>i, <1>o, <2>1, <2>2, SetOutMapKeeps DEF OutSetMisc
<1>3. CASE InitOutputs
  <2>1. OUTPUT_REG_MAPPING_FORCE_LOW \in Nat /\ OUTPUT_REG_MAPPING_FORCE_LOW \notin Indices("pulsegen")
    BY PulsegenIndices DEF PulsegenSources, OUTPUT_REG_MAPPING_FORCE_LOW
  <2>2. \A q \in configured' : out_map'[OutReg(q)] = OUTPUT_REG_MAPPING_FORCE_LOW
    BY <1>3 DEF InitOutputs, Registers, OUInv, OUTypeOK
  <2> QED
    BY <1>3, <1>i, <2>1, <2>2 DEF InitOutputs, MngInit, OUInv, OUTypeOK, OwnPulses, RMInv
<1>4. CASE Other
  <2>1. /\ RMNext /\ UNCHANGED out_map /\ configured' \subseteq configured
        /\ \A o \in configured' : owner'[<<"output", o>>] = owner[<<"output", o>>]
    BY <1>4 DEF Other, RMNext
  <2>2. ASSUME NEW o \in configured', out_map[OutReg(o)] \in Indices("pulsegen")
        PROVE  /\ owner'[<<"output", o>>] \in vdev_list'
               /\ owner'[<<"pulsegen", out_map[OutReg(o)]>>] = owner'[<<"output", o>>]
    <3> DEFINE w == owner[<<"output", o>>]
               r == <<"pulsegen", out_map[OutReg(o)]>>
    <3>1. w \in vdev_list /\ owner[r] = w /\ owner'[<<"output", o>>] = w
      BY <2>1, <2>2 DEF OUInv, OwnPulses
    <3>2. w # NO_OWNER
      BY <3>1, ResourceAssumption DEF OUInv, RMInv, RMTypeOK
    <3>3. r \in Resources /\ <<"output", o>> \in Resources
      BY <2>1, <2>2, ResourceFacts DEF OUInv, OUTypeOK, Outputs, Types
    <3>4. w \in vdev_list'
      BY <1>i, <3>1, <3>2, <3>3 DEF RMInv, TablesAgree
    <3>5. owner'[r] = w
      BY <1>i, <2>1, <3>1, <3>2, <3>3, <3>4, NeverTakenStep
    <3> QED
      BY <3>1, <3>4, <3>5
  <2>3. OwnPulses'
    BY <2>1, <2>2 DEF OwnPulses
  <2> QED
    BY <1>i, <2>1, <2>3 DEF OUInv, OUTypeOK, RMInv
<1>5. CASE UNCHANGED ouVars
  BY <1>5, <1>i DEF ouVars, outVars, rmVars, OUInv, OUTypeOK, OwnPulses, RMInv
<1> QED
  BY <1>1, <1>2, <1>3, <1>4, <1>5 DEF OUNext

\* The MNG_DEV with its outputs is the MNG_DEV of ResourceManager: what is proved
\* of that one, of the tables and of the last close, holds of this one.
LEMMA OUImplementsRM == OUSpec => RMSpec
<1>1. OUInit => RMInit
  BY DEF OUInit
<1> QED
  BY <1>1, OUStepIsRMStep, PTL DEF OUSpec, RMSpec

\* What the resource manager promises holds of the MNG_DEV with its outputs too, for
\* setting an output, and INIT, which knows no owners, leave its tables alone
\* (evr.c:523-624, 746-762).
THEOREM OUKeepsPromises ==
  OUSpec => /\ []TablesAgree /\ NeverTakenAway /\ OpenKeepsResources
            /\ LastCloseInitialises /\ PoolTakesShortest
BY OUImplementsRM, RMTablesAgree, RMNeverTakenAway, RMOpenKeepsResources,
   RMLastCloseInitialises, RMPoolTakesShortest, PTL

\* On every card an output that was set carries no other VIRT_DEV's pulses, though
\* OUTSET checks the owner only once and nothing clears the register later.
THEOREM OUOwnPulses == OUSpec => []OwnPulses
<1>1. OUInv => OwnPulses
  BY DEF OUInv
<1> QED
  BY <1>1, OUInitial, OUPreserved, PTL DEF OUSpec

\* The type invariant of the MNG_DEV and its outputs.
THEOREM OUTypeCorrect == OUSpec => []OUTypeOK
<1>1. OUInv => OUTypeOK
  BY DEF OUInv
<1> QED
  BY <1>1, OUInitial, OUPreserved, PTL DEF OUSpec
=============================================================================
