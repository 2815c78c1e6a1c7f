------------------------- MODULE AzureCleanupProofs -------------------------
(***************************************************************************)
(* What holds of AzureCleanup for any node pools, capacities and nodes,    *)
(* and any number of failed calls.                                         *)
(***************************************************************************)
EXTENDS AzureCleanup, FiniteSetTheorems, TLAPS

States == {"present", "deleting", "gone"}

\* The actions that change a scale set, each in one place.
LEMMA DeletingType ==
    ASSUME TypeOK, NEW s \in ScaleSets, Deleting(s)
    PROVE  scaleSet' \in [ScaleSets -> States]
  BY DEF TypeOK, Deleting, States

\* In every reachable state what a pass has found is apart from what it has yet
\* to look up, and a pass only deletes when it has found something.
THEOREM CleanupTypeInit == Init => TypeOK
  BY CleanupAssumption DEF Init, TypeOK, ScaleSets, Masters

THEOREM CleanupTypeStep == TypeOK /\ [Next]_vars => TypeOK'
<1> SUFFICES ASSUME TypeOK, [Next]_vars PROVE TypeOK'
  OBVIOUS
<1> USE CleanupAssumption DEF nodes, GoToPools
<1>1. CASE LookupMasters \/ CheckMasters
  BY <1>1 DEF LookupMasters, CheckMasters, TypeOK
<1>2. CASE DeleteMasters
  <2>1. MasterVMSS \in ScaleSets
    BY DEF ScaleSets
  <2> QED BY <1>2, <2>1, DeletingType DEF DeleteMasters, TypeOK, States
<1>3. CASE LookupPool
  BY <1>3 DEF LookupPool, TypeOK
<1>4. CASE CheckWorkers
  BY <1>4 DEF CheckWorkers, TypeOK
<1>5. CASE DeletePool
  <2>1. PICK p \in found : Deleting(p) /\ found' = found \ {p}
    BY <1>5 DEF DeletePool
  <2>2. p \in ScaleSets
    BY <2>1 DEF TypeOK, ScaleSets
  <2> QED BY <1>5, <2>1, <2>2, DeletingType DEF DeletePool, TypeOK, States
<1>6. CASE LookupMastersFails \/ Fail
  <2>1. faults' \in 0 .. MaxFaults
    BY <1>6 DEF LookupMastersFails, Fail, TypeOK
  <2> QED BY <1>6, <2>1 DEF LookupMastersFails, Fail, TypeOK
<1>7. ASSUME NEW s \in ScaleSets, Deleted(s) PROVE TypeOK'
  BY <1>7 DEF Deleted, TypeOK
<1>8. ASSUME NEW n \in NewMasters, Joins(n) PROVE TypeOK'
  BY <1>8 DEF Joins, TypeOK, Masters
<1>9. ASSUME NEW n \in Masters \cup NewWorkers, Changes(n) PROVE TypeOK'
  BY <1>9 DEF Changes, TypeOK
<1>10. CASE UNCHANGED vars
  BY <1>10 DEF vars, TypeOK
<1> QED BY <1>1, <1>2, <1>3, <1>4, <1>5, <1>6, <1>7, <1>8, <1>9, <1>10
        DEF Next, cleanup

THEOREM CleanupTypeCorrect == Spec => []TypeOK
  BY CleanupTypeInit, CleanupTypeStep, PTL DEF Spec

-----------------------------------------------------------------------------
(* The order of the deletions. *)

\* The life of a scale set: nothing brings it back.
LEMMA ScaleSetsOnlyGo ==
    ASSUME TypeOK, [Next]_vars, NEW s \in ScaleSets
    PROVE  /\ scaleSet[s] # "present" => scaleSet'[s] # "present"
           /\ scaleSet[s] = "gone" => scaleSet'[s] = "gone"
<1>1. ASSUME NEW t, Deleting(t)
      PROVE  /\ scaleSet[s] # "present" => scaleSet'[s] # "present"
             /\ scaleSet[s] = "gone" => scaleSet'[s] = "gone"
  BY <1>1 DEF Deleting, TypeOK
<1>2. ASSUME NEW t, Deleted(t)
      PROVE  /\ scaleSet[s] # "present" => scaleSet'[s] # "present"
             /\ scaleSet[s] = "gone" => scaleSet'[s] = "gone"
  BY <1>2 DEF Deleted, TypeOK
<1>3. UNCHANGED scaleSet \/ \E t : Deleting(t) \/ Deleted(t)
  BY DEF Next, cleanup, LookupMasters, CheckMasters, DeleteMasters, LookupPool,
         CheckWorkers, DeletePool, LookupMastersFails, Fail, Joins, Changes, vars
<1> QED BY <1>1, <1>2, <1>3

\* A pass that looks at the pools knows the masters' scale set deleted: this
\* is what makes MastersFirst inductive.
PoolsAfterMasters ==
    pc \in {"pools", "deletePools"} => scaleSet[MasterVMSS] # "present"

OrderInv == TypeOK /\ PoolsAfterMasters /\ MastersFirst

LEMMA OrderStep == OrderInv /\ [Next]_vars => OrderInv'
<1> SUFFICES ASSUME OrderInv, [Next]_vars PROVE OrderInv'
  OBVIOUS
<1> USE CleanupAssumption DEF nodes, GoToPools
<1>0. TypeOK /\ TypeOK' /\ MasterVMSS \in ScaleSets /\ Pools \subseteq ScaleSets
  BY CleanupTypeStep DEF OrderInv, ScaleSets
<1>1. scaleSet[MasterVMSS] # "present" => scaleSet'[MasterVMSS] # "present"
  BY <1>0, ScaleSetsOnlyGo
<1>2. PoolsAfterMasters'
  <2>1. CASE LookupMasters
    BY <2>1 DEF LookupMasters, PoolsAfterMasters
  <2>2. CASE DeleteMasters
    BY <1>0, <2>2 DEF DeleteMasters, Deleting, PoolsAfterMasters, TypeOK
  <2>3. CASE pc' \in {"pools", "deletePools"} => pc \in {"pools", "deletePools"}
    BY <1>1, <2>3 DEF OrderInv, PoolsAfterMasters
  <2>4. \/ LookupMasters \/ DeleteMasters
        \/ pc' \in {"pools", "deletePools"} => pc \in {"pools", "deletePools"}
    BY DEF Next, cleanup, CheckMasters, LookupPool, CheckWorkers, DeletePool,
           LookupMastersFails, Fail, Deleted, Joins, Changes, vars
  <2> QED BY <2>1, <2>2, <2>3, <2>4
<1>3. MastersFirst'
  <2> SUFFICES ASSUME NEW p \in Pools, scaleSet'[p] # "present"
               PROVE  scaleSet'[MasterVMSS] # "present"
    BY DEF MastersFirst
  <2>1. CASE scaleSet[p] # "present"
    BY <1>1, <2>1 DEF OrderInv, MastersFirst
  <2>2. CASE scaleSet[p] = "present"
    <3>1. DeletePool
      <4>1. p # MasterVMSS
        OBVIOUS
      <4> QED BY <1>0, <2>2, <4>1
              DEF Next, cleanup, LookupMasters, CheckMasters, DeleteMasters,
                  LookupPool, CheckWorkers, LookupMastersFails, Fail, Deleting,
                  Deleted, Joins, Changes, vars, TypeOK
    <3> QED BY <1>1, <3>1 DEF DeletePool, OrderInv, PoolsAfterMasters
  <2> QED BY <2>1, <2>2
<1> QED BY <1>0, <1>2, <1>3 DEF OrderInv

\* No node pool's scale set is deleted before the legacy masters' is, however
\* passes end and whatever lookups fail.
THEOREM MastersGoFirst == Spec => []MastersFirst
<1>1. Init => OrderInv
  BY CleanupTypeInit DEF Init, OrderInv, PoolsAfterMasters, MastersFirst, ScaleSets
<1>2. OrderInv => MastersFirst
  BY DEF OrderInv
<1> QED BY <1>1, <1>2, OrderStep, PTL DEF Spec

-----------------------------------------------------------------------------
(* The count. *)

CountInv == TypeOK /\ NoPoolMissed

LEMMA CountStep == CountInv /\ [Next]_vars => CountInv'
<1> SUFFICES ASSUME CountInv, [Next]_vars PROVE CountInv'
  OBVIOUS
<1>0. TypeOK /\ TypeOK'
  BY CleanupTypeStep DEF CountInv
<1>1. ASSUME NEW p \in Pools, scaleSet'[p] # "gone" PROVE scaleSet[p] # "gone"
  BY <1>0, <1>1, ScaleSetsOnlyGo DEF ScaleSets
<1>2. CASE pc' = "pools" /\ left' = Pools
  BY <1>0, <1>2 DEF CountInv, NoPoolMissed
<1>3. CASE LookupPool
  <2>1. PICK p \in left : /\ left' = left \ {p}
                          /\ found' = IF scaleSet[p] = "gone" THEN found
                                      ELSE found \cup {p}
    BY <1>3 DEF LookupPool
  <2>2. pc = "pools" /\ UNCHANGED scaleSet
    BY <1>3 DEF LookupPool
  <2> QED BY <1>0, <2>1, <2>2 DEF CountInv, NoPoolMissed
<1>4. CASE pc' = "pools" => pc = "pools" /\ UNCHANGED <<left, found>>
  BY <1>0, <1>1, <1>4 DEF CountInv, NoPoolMissed
<1>5. \/ pc' = "pools" /\ left' = Pools
      \/ LookupPool
      \/ pc' = "pools" => pc = "pools" /\ UNCHANGED <<left, found>>
  BY DEF Next, cleanup, LookupMasters, CheckMasters, DeleteMasters, GoToPools,
         CheckWorkers, DeletePool, LookupMastersFails, Fail, Deleted, Joins, Changes, vars
<1> QED BY <1>2, <1>3, <1>4, <1>5

\* Every pool that is left is either found or still to be looked up, at every
\* moment of a pass.
THEOREM NoPoolIsMissed == Spec => []NoPoolMissed
<1>1. Init => CountInv
  BY CleanupTypeInit DEF Init, CountInv, NoPoolMissed
<1>2. CountInv => NoPoolMissed
  BY DEF CountInv
<1> QED BY <1>1, <1>2, CountStep, PTL DEF Spec

\* The legacy workers of any pools can be counted, and more pools have no fewer.
LEMMA WorkersFinite ==
    ASSUME NEW S \in SUBSET Pools
    PROVE  IsFiniteSet(UNION {{p} \X (1 .. Capacity[p]) : p \in S})
<1> DEFINE instances(p) == {p} \X (1 .. Capacity[p])
           family       == {instances(p) : p \in S}
           of           == [p \in S |-> instances(p)]
<1>1. IsFiniteSet(S)
  <2>1. IsFiniteSet(Pools)
    BY CleanupAssumption
  <2> QED BY <2>1, FS_Subset
<1>2. IsFiniteSet(family)
  <2>1. of \in Surjection(S, family)
    BY DEF Surjection
  <2> HIDE DEF of, family
  <2> QED BY <1>1, <2>1, FS_Surjection
<1>3. ASSUME NEW T \in family PROVE IsFiniteSet(T)
  <2>1. PICK p \in S : T = instances(p)
    OBVIOUS
  <2>2. Capacity[p] \in Nat
    BY CleanupAssumption
  <2>3. IsFiniteSet({p})
    BY FS_Singleton
  <2>4. IsFiniteSet(1 .. Capacity[p])
    BY <2>2, FS_Interval
  <2> QED BY <2>1, <2>3, <2>4, FS_Product
<1> HIDE DEF family
<1>4. IsFiniteSet(UNION family)
  BY <1>2, <1>3, FS_UNION
<1> QED BY <1>4 DEF family

LEMMA SumsGrow ==
    ASSUME NEW S \in SUBSET Pools, NEW T \in SUBSET S
    PROVE  /\ oldWorkersCount(S) \in Nat /\ oldWorkersCount(T) \in Nat
           /\ oldWorkersCount(T) <= oldWorkersCount(S)
<1> DEFINE workers(U) == UNION {{p} \X (1 .. Capacity[p]) : p \in U}
<1>1. IsFiniteSet(workers(S)) /\ IsFiniteSet(workers(T))
  BY WorkersFinite
<1>2. workers(T) \subseteq workers(S)
  OBVIOUS
<1>3. /\ oldWorkersCount(S) = Cardinality(workers(S))
      /\ oldWorkersCount(T) = Cardinality(workers(T))
  BY DEF oldWorkersCount
<1> HIDE DEF workers
<1> QED BY <1>1, <1>2, <1>3, FS_Subset, FS_CardinalityType

\* A pass that goes on to delete pools has seen enough ready workers for all
\* that are left, whatever their capacities.
THEOREM EnoughWorkersSeen == Spec => EnoughWorkers
<1>1. CountInv /\ [Next]_vars =>
        [pc = "pools" /\ pc' = "deletePools" =>
           readyCAPIworkers >= oldWorkersCount({p \in Pools : scaleSet[p] # "gone"})]_vars
  <2> SUFFICES ASSUME CountInv, Next, pc = "pools", pc' = "deletePools"
               PROVE  readyCAPIworkers >= oldWorkersCount({p \in Pools : scaleSet[p] # "gone"})
    BY DEF vars
  <2> DEFINE remaining == {p \in Pools : scaleSet[p] # "gone"}
  <2>1. CheckWorkers
    BY DEF Next, cleanup, LookupMasters, CheckMasters, DeleteMasters, GoToPools,
           LookupPool, DeletePool, LookupMastersFails, Fail, Deleted, Joins, Changes
  <2>2. left = {} /\ readyCAPIworkers >= oldWorkersCount(found)
    BY <2>1 DEF CheckWorkers
  <2>3. remaining \subseteq found /\ found \subseteq Pools
    BY <2>2 DEF CountInv, NoPoolMissed, TypeOK
  <2>4. /\ oldWorkersCount(remaining) <= oldWorkersCount(found)
        /\ oldWorkersCount(remaining) \in Nat /\ oldWorkersCount(found) \in Nat
    BY <2>3, SumsGrow
  <2>5. readyCAPIworkers \in Nat
    <3>1. IsFiniteSet(NewWorkers)
      BY CleanupAssumption
    <3>2. IsFiniteSet(ready \cap NewWorkers)
      BY <3>1, FS_Subset
    <3> QED BY <3>2, FS_CardinalityType DEF readyCAPIworkers
  <2> QED BY <2>2, <2>4, <2>5
<1>2. Init => CountInv
  BY CleanupTypeInit DEF Init, CountInv, NoPoolMissed
<1> QED BY <1>1, <1>2, CountStep, PTL DEF Spec, EnoughWorkers

-----------------------------------------------------------------------------
(* When the comments of the code are true.                                 *)

\* The names of upstream's masters come before those of the legacy ones.
NewListedFirst == \A a \in NewMasters, b \in LegacyMasters : rank[a] < rank[b]

RankInv == TypeOK /\ rank \in [Masters -> Nat] /\ NewListedFirst

\* With such names the node whose phase is checked is the new master.
LEMMA FirstIsNew ==
    ASSUME RankInv, NewMasterFound
    PROVE  NewMasters \cap ready # {}
<1>1. PICK n : listed \cap NewMasters = {n}
  <2>1. IsFiniteSet(listed \cap NewMasters)
    BY CleanupAssumption, FS_Subset DEF RankInv, TypeOK
  <2> QED BY <2>1, FS_Singleton DEF NewMasterFound
<1>2. ASSUME NEW k \in listed, k # n PROVE rank[n] < rank[k] /\ rank[n] <= rank[k]
  <2>1. k \in LegacyMasters /\ n \in NewMasters
    BY <1>1, <1>2 DEF RankInv, TypeOK, Masters
  <2>2. rank[n] \in Nat /\ rank[k] \in Nat
    BY <2>1 DEF RankInv, Masters
  <2> QED BY <2>1, <2>2 DEF RankInv, NewListedFirst
<1>3. n \in listed /\ rank[n] \in Nat /\ n \in NewMasters
  BY <1>1 DEF RankInv, Masters
<1>4. \A k \in listed : rank[n] <= rank[k]
  BY <1>2, <1>3
<1>5. FirstListed \in listed /\ \A k \in listed : rank[FirstListed] <= rank[k]
  BY <1>3, <1>4 DEF FirstListed
<1>6. FirstListed = n
  <2> SUFFICES ASSUME FirstListed # n PROVE FALSE
    OBVIOUS
  <2>1. rank[n] < rank[FirstListed] /\ rank[FirstListed] <= rank[n]
    BY <1>2, <1>3, <1>5
  <2>2. rank[FirstListed] \in Nat
    BY <1>5 DEF RankInv, TypeOK
  <2> QED BY <1>3, <2>1, <2>2
<1> QED BY <1>3, <1>6 DEF NewMasterFound

\* "Check if the new master exists and is ready or wait" is true of a cluster whose
\* new masters have names that sort before the legacy ones'.
THEOREM ReadyIfListedFirst == Spec /\ NewListedFirst => NewMasterReady
<1>1. Init /\ NewListedFirst => RankInv
  BY CleanupTypeInit DEF Init, RankInv
<1>2. RankInv /\ [Next]_vars => RankInv'
  <2>1. [Next]_vars => UNCHANGED rank
    BY DEF Next, cleanup, LookupMasters, CheckMasters, DeleteMasters, LookupPool,
           CheckWorkers, DeletePool, LookupMastersFails, Fail, Deleted, Joins, Changes,
           nodes, vars
  <2> QED BY <2>1, CleanupTypeStep DEF RankInv, NewListedFirst
<1>3. RankInv /\ [Next]_vars =>
        [pc = "masters" /\ pc' = "deleteMasters" => NewMasters \cap ready # {}]_vars
  <2> SUFFICES ASSUME RankInv, Next, pc = "masters", pc' = "deleteMasters"
               PROVE  NewMasters \cap ready # {}
    OBVIOUS
  <2>1. CheckMasters
    BY DEF Next, cleanup, LookupMasters, DeleteMasters, LookupPool, CheckWorkers,
           DeletePool, LookupMastersFails, Fail, Deleted, Joins, Changes, GoToPools
  <2> QED BY <2>1, FirstIsNew DEF CheckMasters
<1> QED BY <1>1, <1>2, <1>3, PTL DEF Spec, NewMasterReady
=============================================================================
