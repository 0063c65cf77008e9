------------------------ MODULE ScheduleServiceProofs ------------------------
(***************************************************************************)
(* Proofs about ScheduleService, for every set of names and every bound.   *)
(***************************************************************************)
EXTENDS ScheduleService, FiniteSetTheorems, TLAPS

(* A registry has finitely many keys, so the decrements of one locked        *)
(* removal can be counted.                                                   *)
LEMMA KeysFinite == IsFiniteSet(Keys)
<1> DEFINE Pairs == Labels \X Resources
           flatten == [p \in Pairs |-> <<p[1][1], p[1][2], p[2]>>]
<1>1. IsFiniteSet(Pairs)
  <2>1. IsFiniteSet(Labels)
    BY FS_Product, NamesAssumption DEF Labels
  <2> QED
    BY <2>1, FS_Product, NamesAssumption
<1>2. flatten \in [Pairs -> Keys]
  BY DEF Keys, Labels
<1>3. ASSUME NEW k \in Keys PROVE \E p \in Pairs : flatten[p] = k
  <2>1. <<Label(k), k[3]>> \in Pairs
    BY DEF Keys, Labels, Label
  <2>2. flatten[<<Label(k), k[3]>>] = k
    BY <2>1 DEF Keys, Label
  <2> QED
    BY <2>1, <2>2
<1>4. flatten \in Surjection(Pairs, Keys)
  BY <1>2, <1>3 DEF Surjection
<1> QED
  BY <1>1, <1>4, FS_Surjection

(* Every method keeps the types of the registry's state: in particular the  *)
(* gauge stays an integer and ids stay above 0.                             *)
LEMMA TypeStep == ServiceTypeOK /\ [ServiceNext]_svcVars => ServiceTypeOK'
<1> SUFFICES ASSUME ServiceTypeOK, [ServiceNext]_svcVars PROVE ServiceTypeOK'
  OBVIOUS
<1> USE DEF ServiceTypeOK, Ids
<1>1. ASSUME NEW k \in Keys, NEW spec \in Crons, AddFunc(k, spec) PROVE ServiceTypeOK'
  BY <1>1 DEF AddFunc, CronAdd, Entries
<1>2. ASSUME NEW k \in Keys, NEW spec \in Crons, UpdateAdd(k, spec) PROVE ServiceTypeOK'
  BY <1>2 DEF UpdateAdd, CanUpdate, Tracked, CronAdd, Entries, Swaps
<1>3. ASSUME NEW e \in adding, AddRecord(e) PROVE ServiceTypeOK'
  <2>1. e.id \in Nat /\ e.key \in Keys
    BY DEF Entries
  <2>2. m' \in [Keys -> Nat]
    BY <1>3, <2>1 DEF AddRecord
  <2>3. Label(e.key) \in Labels
    BY <2>1 DEF Keys, Label, Labels
  <2>4. gauge' \in [Labels -> Int]
    BY <1>3, <2>3 DEF AddRecord
  <2> QED
    BY <1>3, <2>2, <2>4 DEF AddRecord
<1>4. CASE UpdateReplace
  <2> PICK u \in swapping : /\ m' = [m EXCEPT ![u.key] = u.new]
                            /\ entries' = {e \in entries : e.id # u.old}
                            /\ swapping' = {}
                            /\ UNCHANGED <<nextId, gauge, adding>>
    BY <1>4 DEF UpdateReplace
  <2>1. u.new \in Nat
    BY DEF Swaps
  <2>2. m' \in [Keys -> Nat]
    BY <2>1
  <2> QED
    BY <2>2
<1>5. ASSUME NEW ks \in SUBSET Keys, RemoveLocked(ks) PROVE ServiceTypeOK'
  <2>1. \A l \in Labels : Cardinality({k \in ks : Tracked(k) /\ Label(k) = l}) \in Nat
    <3> SUFFICES ASSUME NEW l \in Labels
                 PROVE  Cardinality({k \in ks : Tracked(k) /\ Label(k) = l}) \in Nat
      OBVIOUS
    <3>1. IsFiniteSet({k \in ks : Tracked(k) /\ Label(k) = l})
      BY KeysFinite, FS_Subset
    <3> QED
      BY <3>1, FS_CardinalityType
  <2>2. gauge' \in [Labels -> Int]
    BY <1>5, <2>1 DEF RemoveLocked
  <2>3. m' \in [Keys -> Nat]
    BY <1>5 DEF RemoveLocked
  <2> QED
    BY <1>5, <2>2, <2>3 DEF RemoveLocked
<1>8. CASE Restart
  BY <1>8 DEF Restart
<1>9. CASE UNCHANGED svcVars
  BY <1>9 DEF svcVars
<1> QED
  BY <1>1, <1>2, <1>3, <1>4, <1>5, <1>8, <1>9
     DEF ServiceNext, Remove, RemoveResource, NonCurrent,
         RemoveActionsOfResourceFromNonCurrentSchedule

-----------------------------------------------------------------------------
(* Every method keeps the inductive invariant: an Add that overwrites an id, *)
(* a removal of any set of keys, and the two halves of UpdateCronSpec with   *)
(* any Add between them.                                                     *)
LEMMA InvStep == ServiceInv /\ [ServiceNext]_svcVars => ServiceInv'
<1> SUFFICES ASSUME ServiceInv, [ServiceNext]_svcVars PROVE ServiceInv'
  OBVIOUS
<1>0. ServiceTypeOK'
  BY TypeStep DEF ServiceInv
<1> USE DEF ServiceTypeOK, Ids, Tracked
<1>t. nextId \in Nat /\ m \in [Keys -> Nat] /\ entries \subseteq Entries
  BY DEF ServiceInv
<1>f. /\ \A e \in entries : e.id \in Nat /\ e.id # 0 /\ e.key \in Keys /\ e.id # nextId
      /\ \A k \in Keys : m[k] # nextId
  <2>1. \A e \in entries : e.id \in Nat /\ e.id # 0 /\ e.key \in Keys
    BY <1>t DEF Entries
  <2> QED
    BY <1>t, <2>1 DEF ServiceInv, IdsAreFresh, TrackedIdsAreLive
<1>1. ASSUME NEW k \in Keys, NEW spec \in Crons, AddFunc(k, spec) PROVE ServiceInv'
  <2> DEFINE new == [id |-> nextId, key |-> k, spec |-> spec]
  <2>1. /\ entries' = entries \cup {new} /\ adding' = adding \cup {new}
        /\ nextId' = nextId + 1 /\ m' = m /\ swapping' = swapping
        /\ new.id = nextId
    BY <1>1 DEF AddFunc, CronAdd
  <2> HIDE DEF new
  <2>2. TrackedIdsAreLive'
    BY <2>1 DEF ServiceInv, TrackedIdsAreLive
  <2>3. IdsAreFresh'
    BY <2>1, <1>t, <1>f DEF ServiceInv, IdsAreFresh
  <2>4. SwapIsPrivate'
    BY <2>1, <1>f DEF ServiceInv, SwapIsPrivate
  <2> QED
    BY <1>0, <2>2, <2>3, <2>4 DEF ServiceInv
<1>2. ASSUME NEW k \in Keys, NEW spec \in Crons, UpdateAdd(k, spec) PROVE ServiceInv'
  <2> DEFINE new == [id |-> nextId, key |-> k, spec |-> spec]
             u == [key |-> k, old |-> m[k], new |-> nextId]
  <2>1. /\ entries' = entries \cup {new} /\ swapping' = {u}
        /\ nextId' = nextId + 1 /\ m' = m /\ adding' = adding
        /\ new.id = nextId /\ new.key = k
        /\ u.key = k /\ u.old = m[k] /\ u.new = nextId
    BY <1>2 DEF UpdateAdd, CronAdd
  <2> HIDE DEF new, u
  <2>2. TrackedIdsAreLive'
    BY <2>1 DEF ServiceInv, TrackedIdsAreLive
  <2>3. IdsAreFresh'
    BY <2>1, <1>t, <1>f DEF ServiceInv, IdsAreFresh
  <2>4. SwapIsPrivate'
    BY <2>1, <1>f DEF ServiceInv, SwapIsPrivate, IdsAreFresh
  <2> QED
    BY <1>0, <2>2, <2>3, <2>4 DEF ServiceInv
<1>3. ASSUME NEW e \in adding, AddRecord(e) PROVE ServiceInv'
  <2>1. /\ entries' = entries /\ adding' = adding \ {e} /\ nextId' = nextId
        /\ m' = [m EXCEPT ![e.key] = e.id] /\ swapping = {} /\ swapping' = {}
    BY <1>3 DEF AddRecord, MuFree
  <2>2. e \in entries /\ e.key \in Keys
    BY <1>f DEF ServiceInv, IdsAreFresh
  <2>3. TrackedIdsAreLive'
    BY <2>1, <2>2, <1>t DEF ServiceInv, TrackedIdsAreLive
  <2>4. IdsAreFresh'
    BY <2>1, <2>2, <1>t DEF ServiceInv, IdsAreFresh
  <2>5. SwapIsPrivate'
    BY <2>1 DEF SwapIsPrivate
  <2> QED
    BY <1>0, <2>3, <2>4, <2>5 DEF ServiceInv
<1>4. CASE UpdateReplace
  <2> PICK u \in swapping : /\ m' = [m EXCEPT ![u.key] = u.new]
                            /\ entries' = {e \in entries : e.id # u.old}
                            /\ swapping' = {}
                            /\ UNCHANGED <<nextId, gauge, adding>>
    BY <1>4 DEF UpdateReplace
  <2>1. /\ u.key \in Keys /\ m[u.key] = u.old /\ u.old # u.new
        /\ \E e \in entries : e.id = u.new /\ e.key = u.key
    BY DEF ServiceInv, SwapIsPrivate, Swaps
  <2>2. \A k \in Keys : k # u.key /\ m[k] # 0 => m[k] # u.old
    BY <2>1, <1>t DEF ServiceInv, TrackedIdsAreLive, IdsAreFresh
  <2>3. TrackedIdsAreLive'
    BY <2>1, <2>2, <1>t DEF ServiceInv, TrackedIdsAreLive
  <2>4. IdsAreFresh'
    <3>1. \A e \in adding : e.id # u.old /\ e.id # u.new
      BY <2>1 DEF ServiceInv, IdsAreFresh, SwapIsPrivate
    <3> QED
      BY <2>1, <3>1, <1>t DEF ServiceInv, IdsAreFresh
  <2>5. SwapIsPrivate'
    BY DEF SwapIsPrivate
  <2> QED
    BY <1>0, <2>3, <2>4, <2>5 DEF ServiceInv
<1>5. ASSUME NEW ks \in SUBSET Keys, RemoveLocked(ks) PROVE ServiceInv'
  <2>1. /\ entries' = {e \in entries : \A k \in ks : e.id # m[k]}
        /\ m' = [k \in Keys |-> IF k \in ks THEN 0 ELSE m[k]]
        /\ nextId' = nextId /\ adding' = adding /\ swapping' = {}
    BY <1>5 DEF RemoveLocked, MuFree
  <2>2. TrackedIdsAreLive'
    <3> SUFFICES ASSUME NEW k \in Keys, m'[k] # 0
                 PROVE  \E e \in entries' : e.id = m'[k] /\ e.key = k
      BY <2>1 DEF TrackedIdsAreLive
    <3>1. k \notin ks /\ m'[k] = m[k]
      BY <2>1
    <3> PICK e \in entries : e.id = m[k] /\ e.key = k
      BY <3>1 DEF ServiceInv, TrackedIdsAreLive
    <3>2. ASSUME NEW j \in ks, e.id = m[j] PROVE FALSE
      <4>1. m[j] # 0
        BY <3>2, <1>f
      <4> PICK f \in entries : f.id = m[j] /\ f.key = j
        BY <4>1 DEF ServiceInv, TrackedIdsAreLive
      <4>2. f = e
        BY <3>2 DEF ServiceInv, IdsAreFresh
      <4> QED
        BY <3>1, <4>2
    <3> QED
      BY <2>1, <3>1, <3>2
  <2>3. IdsAreFresh'
    BY <2>1, <1>f DEF ServiceInv, IdsAreFresh
  <2>4. SwapIsPrivate'
    BY <2>1 DEF SwapIsPrivate
  <2> QED
    BY <1>0, <2>2, <2>3, <2>4 DEF ServiceInv
<1>6. CASE Restart
  BY <1>6, <1>0 DEF Restart, ServiceInv, TrackedIdsAreLive, IdsAreFresh, SwapIsPrivate
<1>7. CASE UNCHANGED svcVars
  BY <1>7 DEF svcVars, ServiceInv, TrackedIdsAreLive, IdsAreFresh, SwapIsPrivate
<1> QED
  BY <1>1, <1>2, <1>3, <1>4, <1>5, <1>6, <1>7
     DEF ServiceNext, Remove, RemoveResource, NonCurrent,
         RemoveActionsOfResourceFromNonCurrentSchedule

(* The registry's state has its types in every state the service reaches,    *)
(* whatever its clients call.                                                *)
THEOREM TypeCorrect == ServiceSpec => []ServiceTypeOK
<1>1. New => ServiceTypeOK
  BY DEF New, ServiceTypeOK, Ids
<1> QED
  BY <1>1, TypeStep, PTL DEF ServiceSpec

(* The inductive invariant holds in every reachable state.                   *)
THEOREM InvAlways == ServiceSpec => []ServiceInv
<1>1. New => ServiceInv
  BY DEF New, ServiceInv, ServiceTypeOK, Ids, TrackedIdsAreLive, Tracked,
         IdsAreFresh, SwapIsPrivate
<1> QED
  BY <1>1, InvStep, PTL DEF ServiceSpec

(* Whatever calls the reconcilers make, and however Add and UpdateCronSpec   *)
(* interleave, an id in the map is the id of a live cron entry of the same   *)
(* schedule, action and resource.                                            *)
THEOREM TrackedIdsAlwaysLive == ServiceSpec => []TrackedIdsAreLive
<1>1. ServiceInv => TrackedIdsAreLive
  BY DEF ServiceInv
<1> QED
  BY <1>1, InvAlways, PTL

-----------------------------------------------------------------------------
(* The gauge: its count is an induction on top of ServiceInv.               *)

GaugeInv == ServiceInv /\ IsFiniteSet(entries) /\ GaugeCountsEntries

(* One entry more counts one more under its own label, and nothing under any *)
(* other.                                                                    *)
LEMMA CountAdd ==
    ASSUME NEW S, IsFiniteSet(S), NEW x, x \notin S, NEW l
    PROVE  /\ IsFiniteSet(OfLabel(S, l)) /\ IsFiniteSet(OfLabel(S \cup {x}, l))
           /\ Cardinality(OfLabel(S, l)) \in Nat
           /\ Cardinality(OfLabel(S \cup {x}, l))
                 = Cardinality(OfLabel(S, l)) + (IF Label(x.key) = l THEN 1 ELSE 0)
<1>1. IsFiniteSet(OfLabel(S, l))
  BY FS_Subset DEF OfLabel
<1>2. Cardinality(OfLabel(S, l)) \in Nat
  BY <1>1, FS_CardinalityType
<1>3. CASE Label(x.key) = l
  <2>1. OfLabel(S \cup {x}, l) = OfLabel(S, l) \cup {x}
    BY <1>3 DEF OfLabel
  <2>2. x \notin OfLabel(S, l)
    BY DEF OfLabel
  <2> DEFINE T == OfLabel(S, l)
  <2>3. IsFiniteSet(T \cup {x}) /\ Cardinality(T \cup {x}) = Cardinality(T) + 1
    BY <1>1, <2>2, FS_AddElement
  <2> QED
    BY <1>1, <1>2, <1>3, <2>1, <2>3
<1>4. CASE Label(x.key) # l
  <2>1. OfLabel(S \cup {x}, l) = OfLabel(S, l)
    BY <1>4 DEF OfLabel
  <2> QED
    BY <1>1, <1>2, <1>4, <2>1
<1> QED
  BY <1>3, <1>4

(* One entry less, likewise. *)
LEMMA CountRemove ==
    ASSUME NEW S, IsFiniteSet(S), NEW x \in S, NEW l
    PROVE  /\ Cardinality(OfLabel(S \ {x}, l)) \in Nat
           /\ Cardinality(OfLabel(S, l))
                 = Cardinality(OfLabel(S \ {x}, l)) + (IF Label(x.key) = l THEN 1 ELSE 0)
<1>1. IsFiniteSet(S \ {x}) /\ x \notin S \ {x} /\ (S \ {x}) \cup {x} = S
  BY FS_RemoveElement
<1> QED
  BY <1>1, CountAdd

(* Of no entries none has the label. *)
LEMMA CountNone == ASSUME NEW l PROVE Cardinality(OfLabel({}, l)) = 0
<1>1. OfLabel({}, l) = {}
  BY DEF OfLabel
<1> QED
  BY <1>1, FS_EmptySet

(* At most one call of UpdateCronSpec is under way: it can be counted.      *)
LEMMA SwapsCounted ==
    ASSUME SwapIsPrivate, NEW l PROVE Cardinality(OfLabel(swapping, l)) \in Int
<1>1. CASE swapping = {}
  BY <1>1, CountNone
<1>2. CASE swapping # {}
  <2>1. PICK u \in swapping : TRUE
    BY <1>2
  <2>2. swapping = {u}
    BY <2>1 DEF SwapIsPrivate
  <2>3. IsFiniteSet(OfLabel(swapping, l))
    BY <2>2, FS_Singleton, FS_Subset DEF OfLabel
  <2> QED
    BY <2>3, FS_CardinalityType
<1> QED
  BY <1>1, <1>2

(* A locked removal takes as many entries of a label out of the cron as it   *)
(* finds tracked keys of that label: the map, on the keys it tracks, is one  *)
(* to one.                                                                   *)
LEMMA CountRemoved ==
    ASSUME ServiceInv, IsFiniteSet(entries), NEW ks \in SUBSET Keys, NEW l \in Labels
    PROVE  LET kept == {e \in entries : \A k \in ks : e.id # m[k]}
               gone == {k \in ks : Tracked(k) /\ Label(k) = l}
           IN  /\ Cardinality(gone) \in Nat
               /\ Cardinality(OfLabel(kept, l)) \in Nat
               /\ Cardinality(OfLabel(entries, l)) = Cardinality(OfLabel(kept, l)) + Cardinality(gone)
<1> DEFINE kept == {e \in entries : \A k \in ks : e.id # m[k]}
           gone == {k \in ks : Tracked(k) /\ Label(k) = l}
           lost == {e \in entries : Label(e.key) = l /\ \E k \in ks : e.id = m[k]}
           f == [e \in lost |-> e.key]
<1>1. \A e \in lost : e.key \in gone /\ m[e.key] = e.id
  <2> SUFFICES ASSUME NEW e \in lost PROVE e.key \in gone /\ m[e.key] = e.id
    OBVIOUS
  <2> PICK k \in ks : e.id = m[k]
    OBVIOUS
  <2>1. e.id # 0 /\ k \in Keys
    BY DEF ServiceInv, ServiceTypeOK, Entries, Ids
  <2>2. PICK g \in entries : g.id = m[k] /\ g.key = k
    BY <2>1 DEF ServiceInv, TrackedIdsAreLive, Tracked
  <2>3. g = e
    BY <2>2 DEF ServiceInv, IdsAreFresh
  <2> QED
    BY <2>1, <2>2, <2>3 DEF Tracked
<1>2. \A k \in gone : \E e \in lost : e.key = k
  <2> SUFFICES ASSUME NEW k \in gone PROVE \E e \in lost : e.key = k
    OBVIOUS
  <2>1. k \in Keys /\ Tracked(k)
    OBVIOUS
  <2>2. PICK e \in entries : e.id = m[k] /\ e.key = k
    BY <2>1 DEF ServiceInv, TrackedIdsAreLive
  <2> QED
    BY <2>2
<1>3. \A e, g \in lost : e.key = g.key => e = g
  BY <1>1 DEF ServiceInv, IdsAreFresh
<1>4. f \in Bijection(lost, gone)
  <2>1. f \in [lost -> gone] /\ \A e \in lost : f[e] = e.key
    BY <1>1
  <2> HIDE DEF f, lost, gone
  <2> QED
    BY <1>2, <1>3, <2>1 DEF Bijection, Injection, IsInjective, Surjection
<1>5. IsFiniteSet(lost) /\ IsFiniteSet(OfLabel(entries, l)) /\ IsFiniteSet(OfLabel(kept, l))
  BY FS_Subset DEF OfLabel
<1>6. Cardinality(lost) = Cardinality(gone)
  <2>1. ExistsBijection(lost, gone)
    BY <1>4 DEF ExistsBijection
  <2> QED
    BY <1>5, <2>1, FS_Bijection
<1>7. OfLabel(kept, l) = OfLabel(entries, l) \ lost /\ OfLabel(entries, l) \cap lost = lost
  BY DEF OfLabel
<1>8. Cardinality(OfLabel(kept, l)) = Cardinality(OfLabel(entries, l)) - Cardinality(lost)
  BY <1>5, <1>7, FS_Difference
<1>9. /\ Cardinality(lost) \in Nat /\ Cardinality(OfLabel(kept, l)) \in Nat
      /\ Cardinality(OfLabel(entries, l)) \in Nat
  BY <1>5, FS_CardinalityType
<1> QED
  BY <1>6, <1>8, <1>9

(* Every method keeps the gauge equal to the number of entries, the calls    *)
(* under way discounted.                                                     *)
LEMMA GaugeStep == GaugeInv /\ [ServiceNext]_svcVars => GaugeInv'
<1> SUFFICES ASSUME GaugeInv, [ServiceNext]_svcVars PROVE GaugeInv'
  OBVIOUS
<1>0. ServiceInv /\ ServiceInv' /\ IsFiniteSet(entries) /\ IsFiniteSet(adding)
      /\ GaugeCountsEntries
  <2>1. ServiceInv /\ IsFiniteSet(entries) /\ adding \subseteq entries /\ GaugeCountsEntries
    BY DEF GaugeInv, ServiceInv, IdsAreFresh
  <2> QED
    BY <2>1, InvStep, FS_Subset
<1>t. /\ gauge \in [Labels -> Int] /\ nextId \in Nat
      /\ \A e \in entries \cup adding : e.id # nextId
      /\ \A e \in adding : e \in entries /\ Label(e.key) \in Labels
  <2>1. gauge \in [Labels -> Int] /\ nextId \in Nat /\ entries \subseteq Entries
    BY <1>0 DEF ServiceInv, ServiceTypeOK, Ids
  <2>2. \A e \in entries : e.id \in Nat /\ e.key \in Keys
    BY <2>1 DEF Entries, Ids
  <2>3. \A e \in entries \cup adding : e.id # nextId
    BY <1>0, <2>1, <2>2 DEF ServiceInv, IdsAreFresh
  <2>4. \A e \in adding : e \in entries /\ Label(e.key) \in Labels
    BY <1>0, <2>2 DEF ServiceInv, IdsAreFresh, Keys, Label, Labels
  <2> QED
    BY <2>1, <2>3, <2>4
<1>g. \A l \in Labels :
         /\ Cardinality(OfLabel(entries, l)) = gauge[l] + Cardinality(OfLabel(adding, l))
                                                + Cardinality(OfLabel(swapping, l))
  BY <1>0 DEF GaugeCountsEntries
<1>s. ASSUME NEW u, NEW l
      PROVE  Cardinality(OfLabel({u}, l)) = (IF Label(u.key) = l THEN 1 ELSE 0)
  <2>1. IsFiniteSet({}) /\ u \notin {} /\ {} \cup {u} = {u}
    BY FS_EmptySet
  <2> QED
    BY <2>1, CountAdd, CountNone
<1>1. ASSUME NEW k \in Keys, NEW spec \in Crons, AddFunc(k, spec) PROVE GaugeInv'
  <2> DEFINE new == [id |-> nextId, key |-> k, spec |-> spec]
  <2>1. /\ entries' = entries \cup {new} /\ adding' = adding \cup {new}
        /\ gauge' = gauge /\ swapping' = swapping
        /\ new \notin entries /\ new \notin adding
    BY <1>1, <1>t DEF AddFunc, CronAdd
  <2> HIDE DEF new
  <2>2. IsFiniteSet(entries')
    BY <1>0, <2>1, FS_AddElement
  <2>3. ASSUME NEW l \in Labels
        PROVE  Cardinality(OfLabel(entries', l))
                  = gauge'[l] + Cardinality(OfLabel(adding', l)) + Cardinality(OfLabel(swapping', l))
    <3> DEFINE d == IF Label(new.key) = l THEN 1 ELSE 0
    <3>1. Cardinality(OfLabel(entries', l)) = Cardinality(OfLabel(entries, l)) + d
      BY <1>0, <2>1, CountAdd
    <3>2. /\ Cardinality(OfLabel(adding', l)) = Cardinality(OfLabel(adding, l)) + d
          /\ Cardinality(OfLabel(adding, l)) \in Nat /\ Cardinality(OfLabel(entries, l)) \in Nat
      BY <1>0, <2>1, CountAdd
    <3>3. gauge[l] + Cardinality(OfLabel(adding, l)) + Cardinality(OfLabel(swapping, l))
            = Cardinality(OfLabel(entries, l))
      BY <1>g
    <3>4. Cardinality(OfLabel(swapping, l)) \in Int
      BY <1>0, SwapsCounted DEF ServiceInv
    <3> QED
      BY <1>t, <2>1, <3>1, <3>2, <3>3, <3>4
  <2> QED
    BY <1>0, <2>2, <2>3 DEF GaugeInv, GaugeCountsEntries
<1>2. ASSUME NEW k \in Keys, NEW spec \in Crons, UpdateAdd(k, spec) PROVE GaugeInv'
  <2> DEFINE new == [id |-> nextId, key |-> k, spec |-> spec]
             u == [key |-> k, old |-> m[k], new |-> nextId]
  <2>1. /\ entries' = entries \cup {new} /\ swapping' = {u} /\ swapping = {}
        /\ gauge' = gauge /\ adding' = adding
        /\ new \notin entries /\ new.key = u.key
    BY <1>2, <1>t DEF UpdateAdd, CronAdd, MuFree
  <2> HIDE DEF new, u
  <2>2. IsFiniteSet(entries')
    BY <1>0, <2>1, FS_AddElement
  <2>3. ASSUME NEW l \in Labels
        PROVE  Cardinality(OfLabel(entries', l))
                  = gauge'[l] + Cardinality(OfLabel(adding', l)) + Cardinality(OfLabel(swapping', l))
    <3> DEFINE d == IF Label(new.key) = l THEN 1 ELSE 0
    <3>1. Cardinality(OfLabel(entries', l)) = Cardinality(OfLabel(entries, l)) + d
      BY <1>0, <2>1, CountAdd
    <3>2. Cardinality(OfLabel(swapping', l)) = d /\ Cardinality(OfLabel(swapping, l)) = 0
      BY <2>1, <1>s, CountNone
    <3>3. Cardinality(OfLabel(adding, l)) \in Nat
      BY <1>0, FS_Subset, FS_CardinalityType DEF OfLabel
    <3> QED
      BY <1>t, <1>g, <2>1, <3>1, <3>2, <3>3
  <2> QED
    BY <1>0, <2>2, <2>3 DEF GaugeInv, GaugeCountsEntries
<1>3. ASSUME NEW e \in adding, AddRecord(e) PROVE GaugeInv'
  <2>1. /\ entries' = entries /\ adding' = adding \ {e} /\ swapping' = swapping
        /\ gauge' = [gauge EXCEPT ![Label(e.key)] = @ + 1]
    BY <1>3 DEF AddRecord
  <2>2. ASSUME NEW l \in Labels
        PROVE  Cardinality(OfLabel(entries', l))
                  = gauge'[l] + Cardinality(OfLabel(adding', l)) + Cardinality(OfLabel(swapping', l))
    <3> DEFINE d == IF Label(e.key) = l THEN 1 ELSE 0
    <3>1. /\ Cardinality(OfLabel(adding', l)) \in Nat
          /\ Cardinality(OfLabel(adding, l)) = Cardinality(OfLabel(adding', l)) + d
      BY <1>0, <2>1, CountRemove
    <3>2. gauge'[l] = gauge[l] + d /\ gauge[l] \in Int
      BY <1>t, <2>1
    <3>3. Cardinality(OfLabel(swapping, l)) \in Int
      BY <1>0, SwapsCounted DEF ServiceInv
    <3> QED
      BY <1>g, <2>1, <3>1, <3>2, <3>3
  <2> QED
    BY <1>0, <2>1, <2>2 DEF GaugeInv, GaugeCountsEntries
<1>4. CASE UpdateReplace
  <2> PICK u \in swapping : /\ m' = [m EXCEPT ![u.key] = u.new]
                            /\ entries' = {e \in entries : e.id # u.old}
                            /\ swapping' = {}
                            /\ UNCHANGED <<nextId, gauge, adding>>
    BY <1>4 DEF UpdateReplace
  <2>1. swapping = {u} /\ u.key \in Keys /\ m[u.key] = u.old /\ u.old # 0
    BY <1>0 DEF ServiceInv, SwapIsPrivate, ServiceTypeOK, Swaps, Ids
  <2>2. PICK old \in entries : old.id = u.old /\ old.key = u.key
    BY <1>0, <2>1 DEF ServiceInv, TrackedIdsAreLive, Tracked
  <2>3. entries' = entries \ {old}
    BY <1>0, <2>2 DEF ServiceInv, IdsAreFresh
  <2>4. IsFiniteSet(entries')
    BY <1>0, <2>3, FS_RemoveElement
  <2>5. ASSUME NEW l \in Labels
        PROVE  Cardinality(OfLabel(entries', l))
                  = gauge'[l] + Cardinality(OfLabel(adding', l)) + Cardinality(OfLabel(swapping', l))
    <3> DEFINE d == IF Label(u.key) = l THEN 1 ELSE 0
    <3>1. /\ Cardinality(OfLabel(entries', l)) \in Nat
          /\ Cardinality(OfLabel(entries, l)) = Cardinality(OfLabel(entries', l)) + d
      BY <1>0, <2>2, <2>3, CountRemove
    <3>2. Cardinality(OfLabel(swapping, l)) = d /\ Cardinality(OfLabel(swapping', l)) = 0
      BY <2>1, <1>s, CountNone
    <3>3. Cardinality(OfLabel(adding, l)) \in Nat
      BY <1>0, FS_Subset, FS_CardinalityType DEF OfLabel
    <3> QED
      BY <1>t, <1>g, <3>1, <3>2, <3>3
  <2> QED
    BY <1>0, <2>4, <2>5 DEF GaugeInv, GaugeCountsEntries
<1>5. ASSUME NEW ks \in SUBSET Keys, RemoveLocked(ks) PROVE GaugeInv'
  <2>1. /\ entries' = {e \in entries : \A k \in ks : e.id # m[k]}
        /\ gauge' = [l \in Labels |->
                        gauge[l] - Cardinality({k \in ks : Tracked(k) /\ Label(k) = l})]
        /\ adding' = adding /\ swapping' = swapping
    BY <1>5 DEF RemoveLocked
  <2>2. IsFiniteSet(entries')
    BY <1>0, <2>1, FS_Subset
  <2>3. ASSUME NEW l \in Labels
        PROVE  Cardinality(OfLabel(entries', l))
                  = gauge'[l] + Cardinality(OfLabel(adding', l)) + Cardinality(OfLabel(swapping', l))
    <3> DEFINE gone == {k \in ks : Tracked(k) /\ Label(k) = l}
    <3>1. /\ Cardinality(gone) \in Nat /\ Cardinality(OfLabel(entries', l)) \in Nat
          /\ Cardinality(OfLabel(entries, l)) = Cardinality(OfLabel(entries', l)) + Cardinality(gone)
      BY <1>0, <2>1, CountRemoved
    <3>2. gauge'[l] = gauge[l] - Cardinality(gone) /\ gauge[l] \in Int
      BY <1>t, <2>1
    <3>3. Cardinality(OfLabel(adding, l)) \in Nat
      BY <1>0, FS_Subset, FS_CardinalityType DEF OfLabel
    <3>4. Cardinality(OfLabel(swapping, l)) \in Int
      BY <1>0, SwapsCounted DEF ServiceInv
    <3> HIDE DEF gone
    <3> QED
      BY <1>g, <2>1, <3>1, <3>2, <3>3, <3>4
  <2> QED
    BY <1>0, <2>2, <2>3 DEF GaugeInv, GaugeCountsEntries
<1>6. CASE Restart
  <2>1. /\ entries' = {} /\ adding' = {} /\ swapping' = {}
        /\ \A l \in Labels : gauge'[l] = 0
    BY <1>6 DEF Restart
  <2>2. GaugeCountsEntries'
    BY <2>1, CountNone DEF GaugeCountsEntries
  <2> QED
    BY <1>0, <2>1, <2>2, FS_EmptySet DEF GaugeInv
<1>7. CASE UNCHANGED svcVars
  BY <1>7, <1>0 DEF svcVars, GaugeInv, GaugeCountsEntries
<1> QED
  BY <1>1, <1>2, <1>3, <1>4, <1>5, <1>6, <1>7
     DEF ServiceNext, Remove, RemoveResource, NonCurrent,
         RemoveActionsOfResourceFromNonCurrentSchedule

(* The metric of scheduled cron jobs counts the entries of the cron, in      *)
(* every reachable state: also where Add has overwritten the id of an entry. *)
THEOREM GaugeAlwaysCounts == ServiceSpec => []GaugeCountsEntries
<1>1. New => GaugeInv
  <2> SUFFICES ASSUME New PROVE GaugeInv
    OBVIOUS
  <2>1. /\ entries = {} /\ adding = {} /\ swapping = {}
        /\ \A l \in Labels : gauge[l] = 0
    BY DEF New
  <2>2. GaugeCountsEntries
    BY <2>1, CountNone DEF GaugeCountsEntries
  <2>3. ServiceInv
    BY DEF New, ServiceInv, ServiceTypeOK, Ids, TrackedIdsAreLive, Tracked,
           IdsAreFresh, SwapIsPrivate
  <2> QED
    BY <2>1, <2>2, <2>3, FS_EmptySet DEF GaugeInv
<1>2. GaugeInv => GaugeCountsEntries
  BY DEF GaugeInv
<1> QED
  BY <1>1, <1>2, GaugeStep, PTL DEF ServiceSpec

-----------------------------------------------------------------------------
(* Every step of the service is a step of the abstract table or leaves it    *)
(* as it was: an entry added outside the lock, or by UpdateCronSpec before   *)
(* its replacement, has an id that the map gives to no key.                  *)
LEMMA RegistryStep ==
    ServiceInv /\ [ServiceNext]_svcVars => [Registry!Next]_<<Jobs, Pending, nextId - 1>>
<1> SUFFICES ASSUME ServiceInv, [ServiceNext]_svcVars
             PROVE  Registry!Next \/ UNCHANGED <<Jobs, Pending, nextId - 1>>
  OBVIOUS
<1>k. Registry!Keys = Keys
  BY DEF Keys, Registry!Keys
<1>t. /\ nextId \in Nat /\ m \in [Keys -> Nat]
      /\ \A e \in entries : /\ e.id \in Nat /\ e.id # 0 /\ e.key \in Keys
                            /\ e.spec \in ValidCrons /\ e.id # nextId
      /\ \A k \in Keys : m[k] # nextId
  <2>1. /\ nextId \in Nat /\ nextId # 0 /\ m \in [Keys -> Nat] /\ entries \subseteq Entries
    BY DEF ServiceInv, ServiceTypeOK, Ids
  <2>2. \A e \in entries : e.id \in Nat /\ e.id # 0 /\ e.key \in Keys /\ e.spec \in ValidCrons
    BY <2>1 DEF Entries, Ids
  <2>3. \A e \in entries : e.id # nextId
    BY <2>1, <2>2 DEF ServiceInv, IdsAreFresh
  <2>4. \A k \in Keys : m[k] # nextId
    BY <2>1, <2>2, <2>3 DEF ServiceInv, TrackedIdsAreLive, Tracked
  <2> QED
    BY <2>1, <2>2, <2>3, <2>4
<1>u. \A e, f \in entries : e.id = f.id => e = f
  BY DEF ServiceInv, IdsAreFresh
<1>i. ASSUME NEW e \in entries, NEW k \in Keys, m[k] = e.id PROVE e.key = k
  <2>1. PICK f \in entries : f.id = m[k] /\ f.key = k
    BY <1>i, <1>t DEF ServiceInv, TrackedIdsAreLive, Tracked
  <2> QED
    BY <1>i, <1>u, <2>1
<1>1. ASSUME NEW k \in Keys, NEW spec \in Crons, AddFunc(k, spec) \/ UpdateAdd(k, spec)
      PROVE  Registry!Next
  <2> DEFINE new == [id |-> nextId, key |-> k, spec |-> spec]
  <2>1. /\ entries' = entries \cup {new} /\ m' = m /\ nextId' = nextId + 1
        /\ spec \in ValidCrons
    BY <1>1 DEF AddFunc, UpdateAdd, CronAdd
  <2>2. new.id = nextId /\ new.key = k
    OBVIOUS
  <2> HIDE DEF new
  <2>3. Jobs' = Jobs
    BY <2>1, <2>2, <1>t DEF Jobs
  <2>4. Pending' = Pending \cup {new}
    <3>1. CASE AddFunc(k, spec)
      <4>1. adding' = adding \cup {new} /\ swapping' = swapping
        BY <3>1 DEF AddFunc, new
      <4>2. \A u \in swapping : u.new # nextId
        BY <1>t DEF ServiceInv, SwapIsPrivate
      <4> QED
        BY <2>1, <2>2, <4>1, <4>2 DEF Pending
    <3>2. CASE UpdateAdd(k, spec)
      <4>1. /\ adding' = adding /\ swapping = {}
            /\ swapping' = {[key |-> k, old |-> m[k], new |-> nextId]}
        BY <3>2 DEF UpdateAdd, MuFree
      <4>2. \A e \in entries' : (\E u \in swapping' : u.new = e.id) <=> e = new
        BY <2>1, <2>2, <4>1, <1>t
      <4> QED
        BY <2>1, <4>1, <4>2 DEF Pending
    <3> QED
      BY <1>1, <3>1, <3>2
  <2>5. new = [id |-> (nextId - 1) + 1, key |-> k, spec |-> spec]
    BY <1>t DEF new
  <2>6. (nextId - 1)' = (nextId - 1) + 1
    BY <1>t, <2>1
  <2>7. Registry!Issue(k, spec)
    BY <2>3, <2>4, <2>5, <2>6 DEF Registry!Issue
  <2> QED
    BY <1>k, <2>1, <2>7 DEF Registry!Next
<1>2. ASSUME NEW e \in adding, AddRecord(e) PROVE Registry!Next
  <2>1. /\ entries' = entries /\ m' = [m EXCEPT ![e.key] = e.id]
        /\ adding' = adding \ {e} /\ swapping = {} /\ swapping' = {} /\ nextId' = nextId
        /\ e \in entries /\ e.key \in Keys
    BY <1>2, <1>t DEF AddRecord, MuFree, ServiceInv, IdsAreFresh
  <2>2. Jobs' = {f \in Jobs : f.key # e.key} \cup {e}
    BY <2>1, <1>t, <1>u DEF Jobs
  <2>3. e \in Pending /\ Pending' = Pending \ {e}
    BY <2>1 DEF Pending
  <2>4. Registry!Put(e)
    BY <2>1, <2>2, <2>3 DEF Registry!Put
  <2> QED
    BY <2>3, <2>4 DEF Registry!Next
<1>3. CASE UpdateReplace
  <2> PICK u \in swapping : /\ m' = [m EXCEPT ![u.key] = u.new]
                            /\ entries' = {e \in entries : e.id # u.old}
                            /\ swapping' = {}
                            /\ UNCHANGED <<nextId, gauge, adding>>
    BY <1>3 DEF UpdateReplace
  <2>1. /\ u.key \in Keys /\ m[u.key] = u.old /\ u.old # u.new /\ swapping = {u}
        /\ \A e \in adding : e.id # u.new
    BY DEF ServiceInv, SwapIsPrivate, ServiceTypeOK, Swaps
  <2>2. PICK new \in entries : new.id = u.new /\ new.key = u.key
    BY DEF ServiceInv, SwapIsPrivate
  <2>3. Jobs' = {f \in Jobs : f.key # u.key} \cup {new}
    <3>1. ASSUME NEW f \in entries, f.key # u.key, m[f.key] = f.id PROVE f.id # u.old
      BY <3>1, <2>1, <1>i, <1>t
    <3>2. ASSUME NEW f \in entries, f.key = u.key, u.new = f.id PROVE f = new
      BY <3>2, <2>2, <1>u
    <3> QED
      BY <2>1, <2>2, <3>1, <3>2, <1>t DEF Jobs
  <2>4. new \in Pending /\ Pending' = Pending \ {new}
    <3>1. \A e \in entries : (\E v \in swapping : v.new = e.id) <=> e = new
      BY <2>1, <2>2, <1>u
    <3>2. Pending = adding \cup {new} /\ new \notin adding
      BY <2>1, <2>2, <3>1 DEF Pending
    <3> QED
      BY <3>2 DEF Pending
  <2>5. Registry!Put(new)
    BY <2>2, <2>3, <2>4 DEF Registry!Put
  <2> QED
    BY <2>4, <2>5 DEF Registry!Next
<1>4. ASSUME NEW ks \in SUBSET Keys, RemoveLocked(ks) PROVE Registry!Discard(ks)
  <2>1. /\ entries' = {e \in entries : \A k \in ks : e.id # m[k]}
        /\ m' = [k \in Keys |-> IF k \in ks THEN 0 ELSE m[k]]
        /\ nextId' = nextId /\ adding' = adding /\ swapping = {} /\ swapping' = {}
    BY <1>4 DEF RemoveLocked, MuFree
  <2>2. ASSUME NEW e \in entries, e.key \notin ks, m[e.key] = e.id, NEW k \in ks
        PROVE  e.id # m[k]
    BY <2>2, <1>i
  <2>3. Jobs' = {e \in Jobs : e.key \notin ks}
    BY <2>1, <2>2, <1>t DEF Jobs
  <2>4. Pending' = Pending
    BY <2>1 DEF Pending
  <2> QED
    BY <2>1, <2>3, <2>4 DEF Registry!Discard
<1>5. ASSUME NEW k \in Keys, Remove(k) PROVE Registry!Next
  BY <1>k, <1>4, <1>5 DEF Remove, Registry!Next
<1>6. ASSUME NEW r \in Resources, RemoveResource(r) PROVE Registry!Next
  BY <1>k, <1>4, <1>6 DEF RemoveResource, Registry!Next
<1>7. ASSUME NEW s \in Schedules, NEW r \in Resources,
             RemoveActionsOfResourceFromNonCurrentSchedule(s, r)
      PROVE  Registry!Next
  BY <1>k, <1>4, <1>7 DEF RemoveActionsOfResourceFromNonCurrentSchedule, NonCurrent, Registry!Next
<1>8. CASE Restart
  <2>1. Registry!Lose
    BY <1>8 DEF Restart, Registry!Lose, Jobs, Pending
  <2> QED
    BY <2>1 DEF Registry!Next
<1>9. CASE UNCHANGED svcVars
  BY <1>9 DEF svcVars, Jobs, Pending
<1> QED
  BY <1>1, <1>2, <1>3, <1>5, <1>6, <1>7, <1>8, <1>9 DEF ServiceNext

(* The registry implements its promise: whatever the reconcilers call, and   *)
(* however the unlocked halves of Add and UpdateCronSpec interleave, its     *)
(* clients see a table of at most one job per key that each call changes at  *)
(* once, for the keys it names only.                                         *)
THEOREM RegistryImplemented == ServiceSpec => RegistryPromise
<1>1. New => Registry!Init
  BY DEF New, Registry!Init, Jobs, Pending
<1> QED
  BY <1>1, InvAlways, RegistryStep, PTL DEF ServiceSpec, RegistryPromise, Registry!Spec
=============================================================================
