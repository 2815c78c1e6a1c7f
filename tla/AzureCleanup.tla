---------------------------- MODULE AzureCleanup ----------------------------
(***************************************************************************)
(* The cleanup of a migrated Azure cluster: the scale sets of the legacy   *)
(* masters and node pools are deleted once upstream nodes have replaced    *)
(* them.  A pass collects what is there over several calls, decides, and   *)
(* deletes; an error ends it and a later pass starts over.  Azure deletes  *)
(* in the background, nodes come and go.                                   *)
(*                                                                         *)
(* Nothing reaches it today: Reconcile calls Cleanup when IsMigrated       *)
(* answers true, the Azure migrator's IsMigrated answers false, and        *)
(* Cleanup itself returns an error then.  This is what cleanup does when   *)
(* it is reached, on a migrator whose m.crs.azureCluster has been read,    *)
(* which only Prepare does.                                                *)
(***************************************************************************)
EXTENDS Naturals, FiniteSets

CONSTANTS
    Pools,         \* legacy node pools: MachinePools with a scale set
    Capacity,      \* pool -> instances of its scale set
    MasterVMSS,    \* the scale set of the legacy masters
    LegacyMasters, \* their nodes
    NewMasters,    \* master nodes upstream controllers may bring up
    NewWorkers,    \* worker nodes they may bring up
    MaxFaults      \* bound: failed calls of a behaviour

Masters   == LegacyMasters \cup NewMasters
ScaleSets == Pools \cup {MasterVMSS}

ASSUME CleanupAssumption ==
    /\ IsFiniteSet(Pools) /\ MasterVMSS \notin Pools
    /\ Capacity \in [Pools -> Nat]
    /\ IsFiniteSet(Masters) /\ LegacyMasters \cap NewMasters = {}
    /\ IsFiniteSet(NewWorkers) /\ Masters \cap NewWorkers = {}
    /\ MaxFaults \in Nat

VARIABLES
    scaleSet, \* scale set -> what Azure has of it
    rank,     \* the order in which master nodes are listed: that of their names
    listed,   \* master nodes of the workload cluster
    ready,    \* nodes in phase Running, which current Kubernetes does not fill in
    pc,       \* the call the pass is at, "idle" between passes
    left,     \* pools the pass has still to look up
    found,    \* vmssesToBeDeleted
    faults    \* failed calls so far

nodes == <<rank, listed, ready>>
vars  == <<scaleSet, nodes, pc, left, found, faults>>

Init ==
    /\ scaleSet = [s \in ScaleSets |-> "present"]
    /\ rank \in {r \in [Masters -> 1 .. Cardinality(Masters)] :
                    \A a, b \in Masters : r[a] = r[b] => a = b}
    /\ listed = LegacyMasters
    /\ ready \in SUBSET LegacyMasters
    /\ pc = "idle" /\ left = {} /\ found = {}
    /\ faults = 0

-----------------------------------------------------------------------------
(* ensureLegacyMastersAreDeleted *)

GoToPools == pc' = "pools" /\ left' = Pools /\ found' = {}

LookupMastersRequired ==
    /\ pc = "idle"
    /\ scaleSet[MasterVMSS] # "gone"
    /\ pc' = "masters"
    /\ UNCHANGED <<scaleSet, nodes, left, found, faults>>

\* NotFound means there is nothing to do for the masters.
LookupMasters ==
    /\ pc = "idle"
    /\ IF scaleSet[MasterVMSS] = "gone"
       THEN GoToPools
       ELSE pc' = "masters" /\ UNCHANGED <<left, found>>
    /\ UNCHANGED <<scaleSet, nodes, faults>>

\* Any other error of the lookup is not looked at.
LookupMastersFails ==
    /\ pc = "idle"
    /\ faults < MaxFaults /\ faults' = faults + 1
    /\ pc' = "masters"
    /\ UNCHANGED <<scaleSet, nodes, left, found>>

\* nodes.Items[0]: the first master listed, legacy or new.
FirstListed == CHOOSE n \in listed : \A k \in listed : rank[n] <= rank[k]

NewMasterFound == /\ Cardinality(listed \cap NewMasters) = 1
                  /\ FirstListed \in ready

CheckMastersOnly ==
    /\ pc = "masters"
    /\ IF NewMasterFound
       THEN pc' = "deleteMasters" /\ UNCHANGED <<left, found>>
       ELSE GoToPools
    /\ UNCHANGED <<scaleSet, nodes, faults>>

CheckMasters ==
    /\ pc = "masters"
    /\ pc' = IF NewMasterFound THEN "deleteMasters" ELSE "idle"
    /\ UNCHANGED <<scaleSet, nodes, left, found, faults>>

\* Azure accepts the request; it also accepts it for what is gone.
Deleting(s) ==
    scaleSet' = [scaleSet EXCEPT ![s] = IF @ = "gone" THEN "gone" ELSE "deleting"]

DeleteMasters ==
    /\ pc = "deleteMasters"
    /\ Deleting(MasterVMSS)
    /\ GoToPools
    /\ UNCHANGED <<nodes, faults>>

-----------------------------------------------------------------------------
(* ensureLegacyNodePoolsAreDeleted *)

LookupPoolLast ==
    /\ pc = "pools"
    /\ \E p \in left :
          /\ left' = left \ {p}
          /\ found' = IF scaleSet[p] = "gone" THEN found ELSE {p}
    /\ UNCHANGED <<scaleSet, nodes, pc, faults>>

LookupPool ==
    /\ pc = "pools"
    /\ \E p \in left :
          /\ left' = left \ {p}
          /\ found' = IF scaleSet[p] = "gone" THEN found ELSE found \cup {p}
    /\ UNCHANGED <<scaleSet, nodes, pc, faults>>

\* The capacities add up: one legacy worker per instance of a pool's scale set.
oldWorkersCount(pools) ==
    Cardinality(UNION {{p} \X (1 .. Capacity[p]) : p \in pools})
readyCAPIworkers == Cardinality(ready \cap NewWorkers)

CheckWorkersAlways ==
    /\ pc = "pools" /\ left = {}
    /\ pc' = IF readyCAPIworkers >= oldWorkersCount(found) THEN "deletePools" ELSE "idle"
    /\ UNCHANGED <<scaleSet, nodes, left, found, faults>>

CheckWorkers ==
    /\ pc = "pools" /\ left = {}
    /\ pc' = IF found # {} /\ readyCAPIworkers >= oldWorkersCount(found)
             THEN "deletePools" ELSE "idle"
    /\ UNCHANGED <<scaleSet, nodes, left, found, faults>>

DeletePool ==
    /\ pc = "deletePools"
    /\ \E p \in found :
          /\ Deleting(p)
          /\ found' = found \ {p}
    /\ pc' = IF found' = {} THEN "idle" ELSE pc
    /\ UNCHANGED <<nodes, left, faults>>

-----------------------------------------------------------------------------
\* A call fails, or the process ends.  An error of a pool's lookup is not
\* looked at either: the missing answer is dereferenced, which is a panic.
Fail ==
    /\ pc # "idle"
    /\ faults < MaxFaults /\ faults' = faults + 1
    /\ pc' = "idle"
    /\ UNCHANGED <<scaleSet, nodes, left, found>>

\* Azure has deleted a scale set, and the nodes of the legacy masters with it.
Deleted(s) ==
    /\ scaleSet[s] = "deleting"
    /\ scaleSet' = [scaleSet EXCEPT ![s] = "gone"]
    /\ IF s = MasterVMSS
       THEN listed' = listed \ LegacyMasters /\ ready' = ready \ LegacyMasters
       ELSE UNCHANGED <<listed, ready>>
    /\ UNCHANGED <<rank, pc, left, found, faults>>

\* Upstream controllers bring a master up; nodes become ready and cease to be.
Joins(n) ==
    /\ n \in NewMasters \ listed
    /\ listed' = listed \cup {n}
    /\ UNCHANGED <<scaleSet, rank, ready, pc, left, found, faults>>

Changes(n) ==
    /\ n \in listed \cup NewWorkers
    /\ ready' = IF n \in ready THEN ready \ {n} ELSE ready \cup {n}
    /\ UNCHANGED <<scaleSet, rank, listed, pc, left, found, faults>>

cleanup == \/ LookupMasters \/ CheckMasters \/ DeleteMasters
           \/ LookupPool \/ CheckWorkers \/ DeletePool

Next ==
    \/ cleanup \/ LookupMastersFails \/ Fail
    \/ \E s \in ScaleSets : Deleted(s)
    \/ \E n \in NewMasters : Joins(n)
    \/ \E n \in Masters \cup NewWorkers : Changes(n)

Spec == Init /\ [][Next]_vars

\* Passes are run again, by the retry after an error or the periodic resync;
\* Azure ends what it has accepted.
LiveSpec == Spec /\ WF_vars(cleanup) /\ \A s \in ScaleSets : WF_vars(Deleted(s))

-----------------------------------------------------------------------------
(* Properties. *)

TypeOK ==
    /\ scaleSet \in [ScaleSets -> {"present", "deleting", "gone"}]
    /\ listed \subseteq Masters /\ ready \subseteq listed \cup NewWorkers
    /\ pc \in {"idle", "masters", "deleteMasters", "pools", "deletePools"}
    /\ left \subseteq Pools /\ found \subseteq Pools /\ left \cap found = {}
    /\ pc = "deletePools" => found # {}
    /\ faults \in 0 .. MaxFaults

\* No node pool is deleted before the legacy masters are, in whichever pass
\* and whatever lookups failed: the new control plane is in charge first.
MastersFirst ==
    (\E p \in Pools : scaleSet[p] # "present") => scaleSet[MasterVMSS] # "present"

\* No pool that is left is overlooked between the lookups and the decision, on
\* whatever a broken-off pass left in vmssesToBeDeleted and whatever Azure has
\* deleted meanwhile.
NoPoolMissed == pc = "pools" => {p \in Pools : scaleSet[p] # "gone"} \subseteq left \cup found

\* A pass that goes on to delete pools saw ready upstream workers for all the
\* legacy ones that are left, those whose deletion is not complete included.
EnoughWorkers ==
    [][pc = "pools" /\ pc' = "deletePools" =>
         readyCAPIworkers >= oldWorkersCount({p \in Pools : scaleSet[p] # "gone"})]_vars

\* Once one new master and enough workers stay up, everything legacy goes, in
\* spite of failed calls and half-done passes.
Replaced ==
    /\ Cardinality(listed \cap NewMasters) = 1
    /\ listed \subseteq ready
    /\ readyCAPIworkers >= oldWorkersCount(Pools)
CleanupCompletes == <>[]Replaced => <>(\A s \in ScaleSets : scaleSet[s] = "gone")

-----------------------------------------------------------------------------
\* The masters are deleted only when the new master is ready (comment in
\* ensureLegacyMastersAreDeleted).
NewMasterReady ==
    [][pc = "masters" /\ pc' = "deleteMasters" => NewMasters \cap ready # {}]_vars
=============================================================================
