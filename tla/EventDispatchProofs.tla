------------------------ MODULE EventDispatchProofs ------------------------
(***************************************************************************)
(* Proofs about EventDispatch, for every number of VIRT_DEVs, events and   *)
(* places in a row.                                                        *)
(*                                                                         *)
(* First what event_dispatch_list_add and event_dispatch_list_remove do to *)
(* one row: they keep it without gaps and repetitions, and add or remove   *)
(* exactly their subscriber.  Then the inductive invariant of the          *)
(* specification, and the refinement of Subscriptions.                     *)
(***************************************************************************)
EXTENDS EventDispatch, FiniteSetTheorems, WellFoundedInduction, TLAPS

-----------------------------------------------------------------------------
(* One row.                                                                *)

LEMMA IndexFacts ==
  /\ Index \subseteq Nat
  /\ 0 \in Index
  /\ \A i \in Index, j \in Nat : j <= i => j \in Index
BY DispatchAssumption DEF Index

LEMMA AddType ==
  ASSUME NEW row \in Row, NEW s \in Vdevs
  PROVE  WithSubscriber(row, s) \in Row
BY DEF Row, WithSubscriber

LEMMA RemoveType ==
  ASSUME NEW row \in Row, NEW s \in Vdevs
  PROVE  WithoutSubscriber(row, s) \in Row
BY IndexFacts DEF Row, WithoutSubscriber

\* event_dispatch_list_add fills the first hole or leaves the row alone, so it
\* makes neither a gap nor a repetition.
LEMMA AddKeepsSet ==
  ASSUME NEW row \in Row, NEW s \in Vdevs, RowIsSet(row)
  PROVE  RowIsSet(WithSubscriber(row, s))
<1> SUFFICES ASSUME NEW i \in Index, NEW j \in Index, i < j,
                    WithSubscriber(row, s)[j] # NULL
             PROVE  /\ WithSubscriber(row, s)[i] # NULL
                    /\ WithSubscriber(row, s)[i] # WithSubscriber(row, s)[j]
  BY DEF RowIsSet
<1> DEFINE Chosen(k) == /\ row[k] = NULL
                        /\ \A l \in Index : l < k => row[l] # NULL /\ row[l] # s
<1>1. \A k \in Index :
        WithSubscriber(row, s)[k] = IF Chosen(k) THEN s ELSE row[k]
  BY DEF WithSubscriber
<1>2. NULL # s
  BY DispatchAssumption
<1>3. CASE Chosen(j)
  <2>1. row[i] # NULL /\ row[i] # s
    BY <1>3
  <2> QED
    BY <1>1, <1>3, <2>1
<1>4. CASE ~Chosen(j)
  <2>1. row[j] # NULL
    BY <1>1, <1>4
  <2>2. row[i] # NULL /\ row[i] # row[j]
    BY <2>1 DEF RowIsSet
  <2> QED
    BY <1>1, <1>4, <2>2
<1> QED
  BY <1>3, <1>4

\* The memmove of event_dispatch_list_remove closes the hole it makes.
LEMMA RemoveKeepsSet ==
  ASSUME NEW row \in Row, NEW s \in Vdevs, RowIsSet(row)
  PROVE  RowIsSet(WithoutSubscriber(row, s))
<1> SUFFICES ASSUME NEW i \in Index, NEW j \in Index, i < j,
                    WithoutSubscriber(row, s)[j] # NULL
             PROVE  /\ WithoutSubscriber(row, s)[i] # NULL
                    /\ WithoutSubscriber(row, s)[i] # WithoutSubscriber(row, s)[j]
  BY DEF RowIsSet
<1> DEFINE Moved(k) == \E l \in Index : l <= k /\ row[l] = s /\ Reaches(row, l)
<1>1. \A k \in Index :
        WithoutSubscriber(row, s)[k] =
          IF Moved(k) THEN (IF k + 1 \in Index THEN row[k + 1] ELSE NULL)
          ELSE row[k]
  BY DEF WithoutSubscriber
<1>2. Moved(i) => Moved(j)
  BY IndexFacts
<1>3. CASE Moved(j)
  <2>1. j + 1 \in Index /\ row[j + 1] # NULL
    BY <1>1, <1>3
  <2>2. /\ row[i] # NULL /\ row[i] # row[j + 1]
        /\ i + 1 \in Index /\ row[i + 1] # NULL /\ row[i + 1] # row[j + 1]
    BY <2>1, IndexFacts DEF RowIsSet
  <2> QED
    BY <1>1, <1>3, <2>1, <2>2
<1>4. CASE ~Moved(j)
  <2>1. ~Moved(i)
    BY <1>2, <1>4
  <2>2. row[j] # NULL
    BY <1>1, <1>4
  <2> QED
    BY <1>1, <1>4, <2>1, <2>2 DEF RowIsSet
<1> QED
  BY <1>3, <1>4

\* A row that is not full has a first hole.
LEMMA FirstHole ==
  ASSUME NEW row \in Row, NEW k \in Index, row[k] = NULL
  PROVE  \E i \in Index : row[i] = NULL /\ \A j \in Index : j < i => row[j] # NULL
<1> DEFINE T == {i \in Index : row[i] = NULL}
<1> DEFINE R == OpToRel(<, Nat)
<1>1. T \subseteq Nat /\ T # {}
  BY IndexFacts
<1>2. IsWellFoundedOn(R, Nat)
  BY NatLessThanWellFounded
<1> HIDE DEF T, R
<1>3. PICK x \in T : \A y \in T : ~ (<<y, x>> \in R)
  BY <1>1, <1>2, WFMin
<1> USE DEF T, R
<1>4. \A y \in T : ~ (y < x)
  BY <1>1, <1>3 DEF OpToRel
<1> QED
  BY <1>3, <1>4

\* The subscriber is on the list afterwards, and nobody else has come or gone.
LEMMA AddMembers ==
  ASSUME NEW row \in Row, NEW s \in Vdevs, RowIsSet(row), ~RowFull(row, s)
  PROVE  Members(WithSubscriber(row, s)) = Members(row) \cup {s}
<1> DEFINE new == WithSubscriber(row, s)
<1> DEFINE Chosen(k) == /\ row[k] = NULL
                        /\ \A l \in Index : l < k => row[l] # NULL /\ row[l] # s
<1>1. \A k \in Index : new[k] = IF Chosen(k) THEN s ELSE row[k]
  BY DEF WithSubscriber
<1>2. NULL # s
  BY DispatchAssumption
<1>3. \A k \in Index : row[k] # NULL => new[k] = row[k]
  BY <1>1
<1>4. \E k \in Index : new[k] = s
  <2>1. CASE \E k \in Index : row[k] = s
    BY <1>2, <1>3, <2>1
  <2>2. CASE ~ \E k \in Index : row[k] = s
    <3>1. PICK k \in Index : row[k] = NULL
      BY <2>2 DEF RowFull
    <3>2. PICK i \in Index : row[i] = NULL /\ \A j \in Index : j < i => row[j] # NULL
      BY <3>1, FirstHole
    <3>3. Chosen(i)
      BY <2>2, <3>2
    <3> QED
      BY <1>1, <3>3
  <2> QED
    BY <2>1, <2>2
<1>5. \A k \in Index : new[k] \in {s, row[k]}
  BY <1>1
<1> HIDE DEF new, Chosen
<1>6. \A x : x \in Members(new) <=> x \in Members(row) \cup {s}
  BY <1>2, <1>3, <1>4, <1>5 DEF Members
<1> QED
  BY <1>6 DEF new

\* The subscriber is gone afterwards, and nobody else is.
LEMMA RemoveMembers ==
  ASSUME NEW row \in Row, NEW s \in Vdevs, RowIsSet(row)
  PROVE  Members(WithoutSubscriber(row, s)) = Members(row) \ {s}
<1> DEFINE new == WithoutSubscriber(row, s)
<1> DEFINE Moved(k) == \E l \in Index : l <= k /\ row[l] = s /\ Reaches(row, l)
<1>1. \A k \in Index :
        new[k] = IF Moved(k) THEN (IF k + 1 \in Index THEN row[k + 1] ELSE NULL)
                 ELSE row[k]
  BY DEF WithoutSubscriber
<1>2. NULL # s
  BY DispatchAssumption
<1>3. \A l \in Index : row[l] = s => Reaches(row, l)
  BY <1>2 DEF Reaches, RowIsSet
<1>4. \A k \in Index : new[k] # s
  <2> TAKE k \in Index
  <2>1. CASE Moved(k)
    <3>1. PICK l \in Index : l <= k /\ row[l] = s
      BY <2>1
    <3>2. k + 1 \in Index => row[k + 1] # s
      BY <1>2, <3>1, IndexFacts DEF RowIsSet
    <3> QED
      BY <1>1, <1>2, <2>1, <3>2
  <2>2. CASE ~Moved(k)
    <3>1. row[k] # s
      BY <1>3, <2>2, IndexFacts
    <3> QED
      BY <1>1, <2>2, <3>1
  <2> QED
    BY <2>1, <2>2
<1>5. \A k \in Index : new[k] # NULL => \E l \in Index : row[l] = new[k]
  BY <1>1
<1>6. \A l \in Index : row[l] # NULL /\ row[l] # s => \E k \in Index : new[k] = row[l]
  <2> SUFFICES ASSUME NEW l \in Index, row[l] # NULL, row[l] # s
               PROVE  \E k \in Index : new[k] = row[l]
    OBVIOUS
  <2>1. CASE Moved(l)
    <3>1. PICK m \in Index : m <= l /\ row[m] = s /\ Reaches(row, m)
      BY <2>1
    <3>2. m < l
      BY <3>1, IndexFacts
    <3>3. l - 1 \in Index /\ m <= l - 1 /\ (l - 1) + 1 = l
      BY <3>2, IndexFacts
    <3>4. Moved(l - 1)
      BY <3>1, <3>3
    <3>5. new[l - 1] = row[l]
      BY <1>1, <3>3, <3>4
    <3> QED
      BY <3>3, <3>5
  <2>2. CASE ~Moved(l)
    BY <1>1, <2>2
  <2> QED
    BY <2>1, <2>2
<1> HIDE DEF new, Moved
<1>7. \A x : x \in Members(new) <=> x \in Members(row) \ {s}
  BY <1>4, <1>5, <1>6 DEF Members
<1> QED
  BY <1>7 DEF new

\* event_dispatch_list_for_all_subscribers calls each subscriber back once.
LEMMA CalledOnce ==
  ASSUME NEW row \in Row, NEW v \in Vdevs, RowIsSet(row)
  PROVE  Cardinality({i \in CalledBack(row) : row[i] = v}) =
           IF v \in Members(row) THEN 1 ELSE 0
<1> DEFINE S == {i \in CalledBack(row) : row[i] = v}
<1>1. NULL # v
  BY DispatchAssumption
<1>2. CASE v \in Members(row)
  <2>1. PICK i \in Index : row[i] = v
    BY <1>2 DEF Members
  <2>2. i \in CalledBack(row)
    BY <1>1, <2>1 DEF CalledBack, Reaches, RowIsSet
  <2>3. \A j \in Index : row[j] = v => j = i
    BY <1>1, <2>1, IndexFacts DEF RowIsSet
  <2>4. S = {i}
    BY <2>1, <2>2, <2>3 DEF CalledBack
  <2> QED
    BY <1>2, <2>4, FS_Singleton
<1>3. CASE v \notin Members(row)
  <2>1. S = {}
    BY <1>1, <1>3 DEF Members, CalledBack
  <2> QED
    BY <1>3, <2>1, FS_EmptySet
<1> QED
  BY <1>2, <1>3

-----------------------------------------------------------------------------
(* The inductive invariant.                                                *)

\* The devref lock is held exactly while a change is being carried to the
\* hardware, and the copy made on the way is the list.
ChangeInv ==
  /\ ref_lock = NULL <=> pc = "idle"
  /\ pc = "copied" => all_subscriptions = SubscribedEvents(subs)

\* If applications wait for the end of the probe, it finds nothing subscribed.
ProbeInv ==
  probing /\ ~OpenWhileProbing =>
    /\ exists = {} /\ pc = "idle" /\ \A v \in Vdevs : usage_counter[v] = 0
    /\ \A e \in Events, i \in Index : subs[e][i] = NULL

\* Who is on the list has an open file, on a living descriptor or on a freed one.
SubscribersHaveFiles ==
  \A e \in Events : \A i \in Index : subs[e][i] # NULL => usage_counter[subs[e][i]] > 0

EDInv == EDTypeOK /\ RowsAreSets /\ SubscribersHaveFiles /\ ChangeInv

\* A file is open on a living descriptor.
FilesOnLiving == \A v \in Vdevs : usage_counter[v] > 0 => v \in exists

LEMMA EDInitial == EDInit => EDInv
<1> SUFFICES ASSUME EDInit PROVE EDInv
  OBVIOUS
<1>1. EDTypeOK
  BY DispatchAssumption DEF EDInit, EDTypeOK, Row
<1>2. RowsAreSets
  BY DEF EDInit, RowsAreSets, RowIsSet
<1>3. SubscribersHaveFiles
  BY DEF EDInit, SubscribersHaveFiles
<1>4. ChangeInv
  BY DEF EDInit, ChangeInv
<1> QED
  BY <1>1, <1>2, <1>3, <1>4 DEF EDInv

\* Whom a changed row names, place by place.
LEMMA AddNames ==
  ASSUME NEW row \in Row, NEW s \in Vdevs, NEW i \in Index
  PROVE  WithSubscriber(row, s)[i] \in {s, row[i]}
BY DEF WithSubscriber

LEMMA RemoveNames ==
  ASSUME NEW row \in Row, NEW s \in Vdevs, RowIsSet(row), NEW i \in Index,
         WithoutSubscriber(row, s)[i] # NULL
  PROVE  /\ WithoutSubscriber(row, s)[i] # s
         /\ \E j \in Index : row[j] = WithoutSubscriber(row, s)[i]
<1>1. WithoutSubscriber(row, s)[i] \in Members(row) \ {s}
  BY RemoveMembers DEF Members
<1> QED
  BY <1>1 DEF Members

\* The list after a VIRT_DEV was taken off every row.
LEMMA RemoveAll ==
  ASSUME NEW list \in [Events -> Row], NEW s \in Vdevs,
         \A e \in Events : RowIsSet(list[e])
  PROVE  /\ WithoutSubscriberAnywhere(list, s) \in [Events -> Row]
         /\ \A e \in Events :
              LET row == WithoutSubscriberAnywhere(list, s)[e]
              IN  /\ RowIsSet(row)
                  /\ \A i \in Index : row[i] # NULL =>
                       row[i] # s /\ \E j \in Index : list[e][j] = row[i]
<1>1. ASSUME NEW e \in Events
      PROVE  /\ WithoutSubscriber(list[e], s) \in Row
             /\ RowIsSet(WithoutSubscriber(list[e], s))
             /\ \A i \in Index : WithoutSubscriber(list[e], s)[i] # NULL =>
                  /\ WithoutSubscriber(list[e], s)[i] # s
                  /\ \E j \in Index : list[e][j] = WithoutSubscriber(list[e], s)[i]
  <2>1. list[e] \in Row
    OBVIOUS
  <2> QED
    BY <2>1, RemoveType, RemoveKeepsSet, RemoveNames
<1> QED
  BY <1>1 DEF WithoutSubscriberAnywhere

\* EDInv is kept by every step.
LEMMA EDPreserved == EDInv /\ [EDNext]_dispatchVars => EDInv'
<1> SUFFICES ASSUME EDInv, [EDNext]_dispatchVars PROVE EDInv'
  OBVIOUS
<1> USE DEF EDInv
<1>n. NULL \notin Vdevs
  BY DispatchAssumption
<1>u. CASE UNCHANGED dispatchVars
  BY <1>u DEF dispatchVars, EDTypeOK, RowsAreSets, SubscribersHaveFiles, ChangeInv,
              RowIsSet, SubscribedEvents
<1>1. ASSUME NEW v \in Vdevs, NEW e \in Events, Subscribe(v, e)
      PROVE  EDInv'
  <2>1. EDTypeOK'
    BY <1>1, AddType DEF Subscribe, Lock, Frame, EDTypeOK
  <2>2. RowsAreSets'
    BY <1>1, AddKeepsSet DEF Subscribe, EDTypeOK, RowsAreSets
  <2>3. SubscribersHaveFiles'
    BY <1>1, AddNames DEF Subscribe, EDTypeOK, SubscribersHaveFiles
  <2>4. ChangeInv'
    BY <1>1, <1>n DEF Subscribe, Lock, ChangeInv
  <2> QED
    BY <2>1, <2>2, <2>3, <2>4
<1>2. ASSUME NEW v \in Vdevs, NEW e \in Events, Unsubscribe(v, e)
      PROVE  EDInv'
  <2>1. EDTypeOK'
    BY <1>2, RemoveType DEF Unsubscribe, Lock, Frame, EDTypeOK
  <2>2. RowsAreSets'
    BY <1>2, RemoveKeepsSet DEF Unsubscribe, EDTypeOK, RowsAreSets
  <2>3. SubscribersHaveFiles'
    BY <1>2, RemoveNames DEF Unsubscribe, EDTypeOK, SubscribersHaveFiles, RowsAreSets
  <2>4. ChangeInv'
    BY <1>2, <1>n DEF Unsubscribe, Lock, ChangeInv
  <2> QED
    BY <2>1, <2>2, <2>3, <2>4
<1>3. ASSUME NEW v \in Vdevs, Clear(v) \/ LastClose(v) \/ Destroy(v)
      PROVE  EDInv'
  <2> DEFINE new == WithoutSubscriberAnywhere(subs, v)
  <2>1. /\ new \in [Events -> Row]
        /\ \A e \in Events : RowIsSet(new[e])
        /\ \A e \in Events, i \in Index : new[e][i] # NULL =>
             new[e][i] # v /\ \E j \in Index : subs[e][j] = new[e][i]
    BY RemoveAll DEF EDTypeOK, RowsAreSets
  <2> HIDE DEF new
  <2>2. subs' = new /\ pc' = "changed" /\ ref_lock' = v /\ Frame
    BY <1>3 DEF Clear, LastClose, Destroy, Lock, new
  <2>3. /\ usage_counter' \in [Vdevs -> 0 .. MaxOpen] /\ exists' \subseteq Vdevs
        /\ \A w \in Vdevs : w # v => usage_counter'[w] = usage_counter[w]
    BY <1>3, DispatchAssumption DEF Clear, LastClose, Destroy, EDTypeOK
  <2>4. EDTypeOK'
    BY <2>1, <2>2, <2>3 DEF Frame, EDTypeOK
  <2>5. RowsAreSets'
    BY <2>1, <2>2 DEF RowsAreSets
  <2>6. SubscribersHaveFiles'
    <3> SUFFICES ASSUME NEW e \in Events, NEW i \in Index, new[e][i] # NULL
                 PROVE  usage_counter'[new[e][i]] > 0
      BY <2>2 DEF SubscribersHaveFiles
    <3>1. new[e][i] # v /\ \E j \in Index : subs[e][j] = new[e][i]
      BY <2>1
    <3>2. new[e][i] \in Vdevs
      BY <2>1, <3>1 DEF Row
    <3>3. usage_counter[new[e][i]] > 0
      BY <3>1 DEF SubscribersHaveFiles
    <3> QED
      BY <2>3, <3>1, <3>2, <3>3
  <2>7. ChangeInv'
    BY <2>2, <1>n DEF ChangeInv
  <2> QED
    BY <2>4, <2>5, <2>6, <2>7
<1>4. ASSUME NEW v \in Vdevs, Close(v) \/ Create(v) \/ Open(v)
      PROVE  EDInv'
  <2>1. UNCHANGED <<subs, ref_lock, pc>> /\ Frame
    BY <1>4 DEF Close, Create, Open
  <2>2. /\ usage_counter' \in [Vdevs -> 0 .. MaxOpen] /\ exists' \subseteq Vdevs
        /\ \A w \in Vdevs : usage_counter[w] > 0 => usage_counter'[w] > 0
    BY <1>4, DispatchAssumption DEF Close, Create, Open, EDTypeOK
  <2>3. EDTypeOK'
    BY <2>1, <2>2 DEF Frame, EDTypeOK
  <2>4. RowsAreSets' /\ ChangeInv'
    BY <2>1 DEF Frame, RowsAreSets, ChangeInv, SubscribedEvents
  <2>5. SubscribersHaveFiles'
    BY <2>1, <2>2 DEF SubscribersHaveFiles, EDTypeOK, Row
  <2> QED
    BY <2>3, <2>4, <2>5
<1>5. ASSUME CopySubscriptions \/ UpdateHardware \/ FinishProbe \/ Unplug
      PROVE  EDInv'
  <2>1. UNCHANGED <<subs, calls, usage_counter, exists>>
    BY <1>5 DEF CopySubscriptions, UpdateHardware, FinishProbe, Unplug
  <2>2. EDTypeOK'
    BY <1>5, <2>1 DEF CopySubscriptions, UpdateHardware, FinishProbe, Unplug,
                      EDTypeOK, SubscribedEvents
  <2>3. RowsAreSets' /\ SubscribersHaveFiles'
    BY <2>1 DEF RowsAreSets, SubscribersHaveFiles
  <2>4. ChangeInv'
    BY <1>5, <1>n DEF CopySubscriptions, UpdateHardware, FinishProbe, Unplug,
                      ChangeInv, SubscribedEvents
  <2> QED
    BY <2>2, <2>3, <2>4
<1>6. ASSUME NEW e \in Events, Dispatch(e)
      PROVE  EDInv'
  <2>1. \A v \in Vdevs : Cardinality({i \in CalledBack(subs[e]) : subs[e][i] = v}) \in Nat
    BY CalledOnce DEF EDTypeOK, RowsAreSets
  <2>2. calls' \in [Vdevs -> Nat]
    BY <1>6, <2>1 DEF Dispatch
  <2>3. UNCHANGED <<subs, hw_events, ref_lock, pc, all_subscriptions, usage_counter,
                    exists, device, probing>>
    BY <1>6 DEF Dispatch
  <2> QED
    BY <2>2, <2>3 DEF EDTypeOK, RowsAreSets, SubscribersHaveFiles, ChangeInv,
                      SubscribedEvents
<1> QED
  BY <1>u, <1>1, <1>2, <1>3, <1>4, <1>5, <1>6 DEF EDNext, SubscribeRefused

LEMMA EDInvariance == EDSpec => []EDInv
<1> QED
  BY EDInitial, EDPreserved, PTL DEF EDSpec

\* After any history of subscribing and removing, whatever the number of
\* VIRT_DEVs, events and places, no row of the dispatch list of event-list.c has
\* a gap or a repetition.
THEOREM EDRowsAreSets == EDSpec => []RowsAreSets
BY EDInvariance, PTL DEF EDInv

\* The dispatch list of event-list.c, the VIRT_DEVs and the interrupt's walk keep
\* their types.
THEOREM EDTypeCorrect == EDSpec => []EDTypeOK
BY EDInvariance, PTL DEF EDInv

\* Only DESTROY of an open VIRT_DEV leaves a file on a freed descriptor.
LEMMA FilesPreserved ==
  ASSUME ~DestroyWhileOpen, EDTypeOK, FilesOnLiving, [EDNext]_dispatchVars
  PROVE  FilesOnLiving'
<1> USE DEF EDTypeOK, FilesOnLiving
<1>1. ASSUME NEW v \in Vdevs, Close(v) \/ LastClose(v) \/ Destroy(v) \/ Create(v) \/ Open(v)
      PROVE  FilesOnLiving'
  BY <1>1 DEF Close, LastClose, Destroy, Create, Open
<1>2. ASSUME NEW v \in Vdevs,
             Clear(v) \/ \E e \in Events :
                          Subscribe(v, e) \/ SubscribeRefused(v, e) \/ Unsubscribe(v, e)
      PROVE  UNCHANGED <<usage_counter, exists>>
  BY <1>2 DEF Clear, Subscribe, SubscribeRefused, Unsubscribe, dispatchVars
<1>3. ASSUME CopySubscriptions \/ UpdateHardware \/ FinishProbe \/ Unplug
      PROVE  UNCHANGED <<usage_counter, exists>>
  BY <1>3 DEF CopySubscriptions, UpdateHardware, FinishProbe, Unplug
<1>4. ASSUME NEW e \in Events, Dispatch(e) PROVE UNCHANGED <<usage_counter, exists>>
  BY <1>4 DEF Dispatch
<1>5. CASE UNCHANGED dispatchVars
  BY <1>5 DEF dispatchVars
<1> QED
  BY <1>1, <1>2, <1>3, <1>4, <1>5 DEF EDNext

\* Whoever is on the list has a file open, whatever is destroyed: the last close
\* takes the descriptor off, though DESTROY has freed it.
THEOREM EDSubscribersHaveFiles == EDSpec => []SubscribersHaveFiles
BY EDInvariance, PTL DEF EDInv

\* No row names a closed or destroyed VIRT_DEV: list_destroy_vdev and the last
\* close take the descriptor off the list before it goes.  DESTROY of a VIRT_DEV that
\* is open is excluded: its file stays and can subscribe the freed descriptor.
THEOREM EDOnlyOpenSubscribed ==
  ASSUME ~DestroyWhileOpen PROVE EDSpec => []OnlyOpenSubscribed
<1>1. EDInit => FilesOnLiving
  BY DEF EDInit, FilesOnLiving
<1>2. EDInv /\ FilesOnLiving /\ [EDNext]_dispatchVars => FilesOnLiving'
  BY FilesPreserved DEF EDInv
<1>3. EDInv /\ FilesOnLiving => OnlyOpenSubscribed
  BY DEF EDInv, EDTypeOK, Row, SubscribersHaveFiles, FilesOnLiving, OnlyOpenSubscribed
<1> QED
  BY <1>1, <1>2, <1>3, EDInvariance, PTL DEF EDSpec

-----------------------------------------------------------------------------
(* The hardware.                                                           *)

LEMMA HWInitial == EDInit => HardwareFollowsList /\ ProbeInv
BY IndexFacts DEF EDInit, HardwareFollowsList, ProbeInv, SubscribedEvents

LEMMA HWPreserved ==
  ASSUME ~OpenWhileProbing
  PROVE  EDInv /\ HardwareFollowsList /\ ProbeInv /\ [EDNext]_dispatchVars
           => HardwareFollowsList' /\ ProbeInv'
<1> SUFFICES ASSUME EDInv, HardwareFollowsList, ProbeInv, [EDNext]_dispatchVars
             PROVE  HardwareFollowsList' /\ ProbeInv'
  OBVIOUS
<1>n. NULL \notin Vdevs
  BY DispatchAssumption
<1>u. CASE UNCHANGED dispatchVars
  BY <1>u DEF dispatchVars, HardwareFollowsList, ProbeInv, SubscribedEvents
<1>1. ASSUME NEW v \in Vdevs,
             \/ \E e \in Events : Subscribe(v, e) \/ Unsubscribe(v, e)
             \/ Clear(v) \/ LastClose(v) \/ Destroy(v)
      PROVE  HardwareFollowsList' /\ ProbeInv'
  <2>1. (v \in exists \/ usage_counter[v] # 0) /\ ref_lock' = v /\ Frame
    BY <1>1 DEF Subscribe, Unsubscribe, Clear, LastClose, Destroy, Lock
  <2> QED
    BY <1>n, <2>1 DEF Frame, HardwareFollowsList, ProbeInv
<1>2. ASSUME NEW v \in Vdevs, Close(v) \/ Create(v) \/ Open(v)
      PROVE  HardwareFollowsList' /\ ProbeInv'
  <2>1. UNCHANGED <<subs, ref_lock, pc, hw_events, device, probing>> /\ ~probing
    BY <1>2 DEF Close, Create, Open, Frame, ProbeInv
  <2> QED
    BY <2>1 DEF HardwareFollowsList, ProbeInv, SubscribedEvents
<1>3. CASE CopySubscriptions
  <2>1. ref_lock' # NULL /\ ~probing'
    BY <1>3 DEF CopySubscriptions, EDInv, ChangeInv, ProbeInv
  <2> QED
    BY <2>1 DEF HardwareFollowsList, ProbeInv
<1>4. CASE UpdateHardware
  <2>1. UNCHANGED <<subs, device, probing>> /\ ~probing
    BY <1>4 DEF UpdateHardware, ProbeInv
  <2>2. device => hw_events' = SubscribedEvents(subs)
    BY <1>4 DEF UpdateHardware, EDInv, ChangeInv
  <2> QED
    BY <2>1, <2>2 DEF HardwareFollowsList, ProbeInv, SubscribedEvents
<1>5. CASE FinishProbe
  <2>1. SubscribedEvents(subs) = {}
    BY <1>5, IndexFacts DEF FinishProbe, ProbeInv, SubscribedEvents
  <2> QED
    BY <1>5, <2>1 DEF FinishProbe, HardwareFollowsList, ProbeInv, SubscribedEvents
<1>6. CASE Unplug
  BY <1>6 DEF Unplug, HardwareFollowsList, ProbeInv
<1>7. ASSUME NEW e \in Events, Dispatch(e)
      PROVE  HardwareFollowsList' /\ ProbeInv'
  BY <1>7 DEF Dispatch, HardwareFollowsList, ProbeInv, SubscribedEvents
<1> QED
  BY <1>u, <1>1, <1>2, <1>3, <1>4, <1>5, <1>6, <1>7 DEF EDNext, SubscribeRefused

\* If applications wait for the end of the probe, the hardware delivers exactly
\* the events somebody is subscribed to whenever no change is under way.
THEOREM EDHardwareFollowsList ==
  ASSUME ~OpenWhileProbing
  PROVE  EDSpec => []HardwareFollowsList
BY EDInvariance, HWInitial, HWPreserved, PTL DEF EDSpec

-----------------------------------------------------------------------------
(* The refinement.                                                         *)

LEMMA AbsInitial == EDInit => Abstract!AbsInit
<1> SUFFICES ASSUME EDInit PROVE Abstract!AbsInit
  OBVIOUS
<1>1. ASSUME NEW e \in Events PROVE Members(subs[e]) = {}
  BY DEF EDInit, Members
<1>2. Subscribed = [e \in Events |-> {}]
  BY <1>1 DEF Subscribed
<1> QED
  BY <1>2 DEF EDInit, Abstract!AbsInit

LEMMA AbsStep ==
  EDInv /\ [EDNext]_dispatchVars => [Abstract!AbsNext]_<<Subscribed, calls>>
<1> SUFFICES ASSUME EDInv, EDNext
             PROVE  Abstract!AbsNext \/ UNCHANGED <<Subscribed, calls>>
  BY DEF dispatchVars, Subscribed
<1>t. /\ subs \in [Events -> Row]
      /\ \A e \in Events : subs[e] \in Row /\ RowIsSet(subs[e])
  BY DEF EDInv, EDTypeOK, RowsAreSets
<1>1. ASSUME NEW v \in Vdevs, NEW e \in Events, Subscribe(v, e)
      PROVE  Abstract!AbsSubscribe(v, e)
  <2>1. subs' = [subs EXCEPT ![e] = WithSubscriber(subs[e], v)] /\ UNCHANGED calls
    BY <1>1 DEF Subscribe, Frame
  <2>2. Members(WithSubscriber(subs[e], v)) = Members(subs[e]) \cup {v}
    BY <1>1, <1>t, AddMembers DEF Subscribe
  <2>3. \A d \in Events :
          Members(subs'[d]) = IF d = e THEN Members(subs[e]) \cup {v} ELSE Members(subs[d])
    BY <1>t, <2>1, <2>2
  <2>4. Subscribed' = [Subscribed EXCEPT ![e] = Subscribed[e] \cup {v}]
    BY <2>3 DEF Subscribed
  <2> QED
    BY <2>1, <2>4 DEF Abstract!AbsSubscribe
<1>2. ASSUME NEW v \in Vdevs, NEW e \in Events, Unsubscribe(v, e)
      PROVE  Abstract!AbsUnsubscribe(v, e)
  <2>1. subs' = [subs EXCEPT ![e] = WithoutSubscriber(subs[e], v)] /\ UNCHANGED calls
    BY <1>2 DEF Unsubscribe, Frame
  <2>2. Members(WithoutSubscriber(subs[e], v)) = Members(subs[e]) \ {v}
    BY <1>t, RemoveMembers
  <2>3. \A d \in Events :
          Members(subs'[d]) = IF d = e THEN Members(subs[e]) \ {v} ELSE Members(subs[d])
    BY <1>t, <2>1, <2>2
  <2>4. Subscribed' = [Subscribed EXCEPT ![e] = Subscribed[e] \ {v}]
    BY <2>3 DEF Subscribed
  <2> QED
    BY <2>1, <2>4 DEF Abstract!AbsUnsubscribe
<1>3. ASSUME NEW v \in Vdevs, Clear(v) \/ LastClose(v) \/ Destroy(v)
      PROVE  Abstract!AbsClear(v)
  <2>1. subs' = WithoutSubscriberAnywhere(subs, v) /\ UNCHANGED calls
    BY <1>3 DEF Clear, LastClose, Destroy, Frame
  <2>2. ASSUME NEW e \in Events
        PROVE  Members(subs'[e]) = Members(subs[e]) \ {v}
    <3>1. subs'[e] = WithoutSubscriber(subs[e], v)
      BY <2>1 DEF WithoutSubscriberAnywhere
    <3> QED
      BY <1>t, <3>1, RemoveMembers
  <2>3. Subscribed' = [e \in Events |-> Subscribed[e] \ {v}]
    BY <2>2 DEF Subscribed
  <2> QED
    BY <2>1, <2>3 DEF Abstract!AbsClear
<1>4. ASSUME NEW v \in Vdevs, Close(v) \/ Create(v) \/ Open(v)
      PROVE  UNCHANGED <<Subscribed, calls>>
  BY <1>4 DEF Close, Create, Open, Frame, Subscribed
<1>5. ASSUME CopySubscriptions \/ UpdateHardware \/ FinishProbe \/ Unplug
      PROVE  UNCHANGED <<Subscribed, calls>>
  BY <1>5 DEF CopySubscriptions, UpdateHardware, FinishProbe, Unplug, Subscribed
<1>6. ASSUME NEW e \in Events, Dispatch(e)
      PROVE  Abstract!AbsDispatch(e)
  <2>1. ASSUME NEW v \in Vdevs
        PROVE  Cardinality({i \in CalledBack(subs[e]) : subs[e][i] = v})
                 = IF v \in Subscribed[e] THEN 1 ELSE 0
    <3>1. Subscribed[e] = Members(subs[e])
      BY DEF Subscribed
    <3> QED
      BY <1>t, <3>1, CalledOnce
  <2>2. calls' = [v \in Vdevs |-> IF v \in Subscribed[e] THEN 1 ELSE 0]
    BY <1>6, <2>1 DEF Dispatch
  <2>3. UNCHANGED Subscribed
    BY <1>6 DEF Dispatch, Subscribed
  <2> QED
    BY <2>2, <2>3 DEF Abstract!AbsDispatch
<1>7. ASSUME NEW v \in Vdevs, NEW e \in Events, SubscribeRefused(v, e)
      PROVE  UNCHANGED <<Subscribed, calls>>
  BY <1>7 DEF SubscribeRefused, dispatchVars, Subscribed
<1> QED
  BY <1>1, <1>2, <1>3, <1>4, <1>5, <1>6, <1>7 DEF EDNext, Abstract!AbsNext

\* The dispatch list of event-list.c implements the relation of Subscriptions:
\* every change adds or removes exactly what was asked, and every interrupt
\* calls each subscribed VIRT_DEV back once and nobody else.
THEOREM EDImplementsSubscriptions == EDSpec => ImplementsSubscriptions
<1>1. EDSpec => Abstract!AbsInit
  BY AbsInitial DEF EDSpec
<1>2. EDSpec => [][Abstract!AbsNext]_<<Subscribed, calls>>
  BY EDInvariance, AbsStep, PTL DEF EDSpec
<1> QED
  BY <1>1, <1>2, PTL DEF ImplementsSubscriptions, Abstract!AbsSpec
=============================================================================
