------------------------------ MODULE Migrator ------------------------------
(***************************************************************************)
(* The cluster controller of capi-migration and the migrator it drives.    *)
(*                                                                         *)
(* A manager process watches Cluster CRs that carry the opt-in label.  For *)
(* each event it runs one PASS: Reconcile builds a Migrator and calls      *)
(* Prepare and TriggerMigration, which are straight-line sequences of      *)
(* calls on the management cluster's API (mcCtrlClient) and the workload   *)
(* cluster's API (wcCtrlClient).  Any error ends the pass and requeues the *)
(* cluster; nothing is remembered between passes.                          *)
(*                                                                         *)
(* The sequence of calls is the constant Program, one record per method of *)
(* the provider's migrator (AzureMigrator, AWSMigrator), so that this      *)
(* module holds what the providers share: what each KIND of call does to   *)
(* the store, to the in-memory copies (m.crs) and to the pass.  Steps of    *)
(* several managers (where leader election is not asked for), of the       *)
(* legacy and the upstream operators and of the user interleave with it.   *)
(*                                                                         *)
(* Resource versions are abstracted to what an Update can tell apart: a    *)
(* copy held by a pass is current or stale.                                *)
(***************************************************************************)
EXTENDS Naturals, Sequences, FiniteSets

CONSTANTS
    Managers,   \* manager processes running against the management cluster
    Masters,    \* legacy master nodes (label role=master) of the cluster
    NoMaster,   \* a pass that has not picked a master node
    Program,    \* the calls one pass makes, in order
    Labelled,   \* created CRs whose Create response carries labels, put
                \* there by defaulting in the API server
    Typed,      \* created CRs whose rendered object names its kind
    Versioned,  \* CRs that get the cluster-operator's version label together
                \* with the watch filter
    VersionedFirst, \* legacy CRs that carry a cluster-operator label before
    Existing,   \* objects of "ensure" steps that are there before any pass
    Refused,    \* objects whose read or creation is refused, every time
    MaxFaults,  \* bound: failed calls and crashes of a behaviour
    MaxNoise,   \* bound: writes of other controllers to the CRs
    MayOptOut   \* bound: the user may take the opt-in label away, once

-----------------------------------------------------------------------------
(* The program and the objects it names. *)

Ops == {"connect", "read", "rekey", "ensure", "create", "adopt", "disable",
        "trigger"}

Steps == 1 .. Len(Program)

StepsOf(op)   == {i \in Steps : Program[i].op = op}
ObjectsOf(op) == {Program[i].obj : i \in StepsOf(op)}

TriggerSteps == StepsOf("trigger")

Adopted    == ObjectsOf("adopt")    \* legacy CRs rewritten for upstream
Created    == ObjectsOf("create")   \* CRs rendered from templates
Ensured    == ObjectsOf("ensure")   \* secrets and CRs created and not kept
HandedOver == ObjectsOf("trigger")  \* CRs that get the watch-filter label
Rekeyed    == ObjectsOf("rekey")    \* secrets whose data gets upstream's keys
Fields     == ObjectsOf("read") \cup Created   \* the fields of m.crs
Cached     == Adopted \cup Rekeyed  \* what passes read in order to update it

\* What the code's order of calls guarantees of every provider's program.
ASSUME ProgramAssumption ==
    /\ Program \in Seq([op : Ops, obj : STRING, uses : SUBSET STRING])
    \* Reconcile calls TriggerMigration after Prepare.
    /\ \A i \in TriggerSteps, j \in Steps \ TriggerSteps : j < i
    /\ \A i, j \in TriggerSteps : Program[i].obj = Program[j].obj => i = j
    \* A field of m.crs is set before a method dereferences it.
    /\ \A i \in Steps : \A f \in Program[i].uses :
          \E j \in Steps : /\ j < i
                           /\ Program[j].op \in {"read", "create"}
                           /\ Program[j].obj = f
    /\ \A i \in Steps : Program[i].op \in {"adopt", "trigger"}
                           => Program[i].obj \in Program[i].uses
    /\ \A i, j \in StepsOf("adopt") : Program[i].obj = Program[j].obj => i = j
    /\ "Cluster" \in Adopted
    /\ Adopted \cap (Created \cup Ensured) = {}
    \* No method reads a CR that another creates and keeps.
    /\ Created \cap ObjectsOf("read") = {}
    /\ Adopted \subseteq ObjectsOf("read")
    \* A secret is rewritten by the method that reads it.
    /\ Rekeyed \cap (Fields \cup Ensured) = {}

ASSUME EnvironmentAssumption ==
    /\ IsFiniteSet(Masters) /\ Masters # {} /\ NoMaster \notin Masters
    /\ Labelled \subseteq Created /\ Typed \subseteq Created
    /\ Versioned \subseteq HandedOver /\ VersionedFirst \subseteq Adopted
    /\ Existing \subseteq Ensured
    /\ MaxFaults \in Nat /\ MaxNoise \in Nat /\ MayOptOut \in BOOLEAN

-----------------------------------------------------------------------------
VARIABLES
    exists,          \* CRs and secrets present in the management cluster
    operated,        \* legacy CRs that still carry the operator version label
    finalizers,      \* finalizers of each legacy CR: the legacy operator's, others'
    controlPlaneRef, \* Cluster.spec.controlPlaneRef: the new KCP, with or
                     \* without its kind and apiVersion
    handed,          \* CRs that carry the watch-filter label
    versioned,       \* CRs that carry the cluster-operator's version label
    rekeyed,         \* certificate secrets that have upstream's keys
    optIn,           \* the Cluster has been given the migration's version label
    optedOut,        \* the label has been taken away again
    deleting,        \* the Cluster has been deleted (deletionTimestamp)
    pods,            \* masters for which a disabling pod has been created
    stopped,         \* masters whose control plane components are stopped
    pc,              \* manager -> step of its pass, 0 when idle
    queued,          \* manager -> the cluster is in its work queue
    held,            \* manager -> m.crs of its pass
    fresh,           \* manager -> objects its cache is up to date with
    sees,            \* manager -> the Cluster as its cache has it
    target,          \* manager -> master node a disabling pod is missing for
    down,            \* managers whose process is not running
    faults,          \* failed calls and crashes so far
    noise            \* writes of other controllers so far

crs     == <<exists, operated, finalizers, controlPlaneRef, handed,
             versioned, rekeyed>>
user    == <<optIn, optedOut, deleting>>
nodes   == <<pods, stopped>>
pass    == <<pc, held, target>>
cache   == <<fresh, sees>>
process == <<queued, down>>
budget  == <<faults, noise>>
vars    == <<crs, user, nodes, pass, cache, process, budget>>

\* A field of m.crs is unset; the object rendered from the template, when the
\* CR was there already (no resource version, no labels); the CR as it is in
\* the store; or the CR as it was before someone else's write.
CopyStates == {"nil", "bare", "current", "stale"}
\* Never labelled; labelled, not deleted or deleted; the label taken away, not
\* deleted or deleted; not there any more.
Views == {"unlabelled", "live", "deleting", "withdrawn", "abandoned", "gone"}
References == {"none", "kindless", "kind"}
\* Who reconciles a CR.
Operators == {"legacy", "cluster-operator", "upstream"}

TypeOK ==
    /\ exists \subseteq Cached \cup Created \cup Ensured
    /\ operated \subseteq Adopted
    /\ finalizers \in [Adopted -> SUBSET {"legacy", "other"}]
    /\ controlPlaneRef \in References
    /\ handed \subseteq HandedOver
    /\ versioned \subseteq Adopted \cup HandedOver
    /\ rekeyed \subseteq Rekeyed
    /\ optIn \in BOOLEAN /\ optedOut \in BOOLEAN /\ deleting \in BOOLEAN
    /\ pods \subseteq Masters /\ stopped \subseteq pods
    /\ pc \in [Managers -> 0 .. Len(Program) + 1]
    /\ queued \in [Managers -> BOOLEAN]
    /\ held \in [Managers -> [Fields -> CopyStates]]
    /\ fresh \in [Managers -> SUBSET Cached]
    /\ sees \in [Managers -> Views]
    /\ target \in [Managers -> Masters \cup {NoMaster}]
    /\ down \subseteq Managers
    /\ faults \in 0 .. MaxFaults
    /\ noise \in 0 .. MaxNoise

Nothing == [f \in Fields |-> "nil"]

Init ==
    /\ exists = Cached \cup Existing
    /\ operated = Adopted
    /\ finalizers = [o \in Adopted |-> IF o \in VersionedFirst
                                       THEN {"legacy", "other"}
                                       ELSE {"legacy"}]
    /\ controlPlaneRef = "none"
    /\ handed = {} /\ versioned = VersionedFirst /\ rekeyed = {}
    /\ optIn = FALSE /\ optedOut = FALSE /\ deleting = FALSE
    /\ pods = {} /\ stopped = {}
    /\ pc = [m \in Managers |-> 0]
    /\ queued = [m \in Managers |-> FALSE]
    /\ held = [m \in Managers |-> Nothing]
    /\ fresh = [m \in Managers |-> Cached]
    /\ sees = [m \in Managers |-> "unlabelled"]
    /\ target = [m \in Managers |-> NoMaster]
    /\ down = {}
    /\ faults = 0 /\ noise = 0

-----------------------------------------------------------------------------
(* What the steps are built from. *)

At(m, op) == m \notin down /\ pc[m] \in Steps /\ Program[pc[m]].op = op

Object(m) == Program[pc[m]].obj

\* Every field of m.crs the step dereferences has been set.
Usable(m) == \A f \in Program[pc[m]].uses : held[m][f] # "nil"

\* The copy's Labels map is nil: writing to it panics.
LabelsNil(m, o) == o \in Created /\ (held[m][o] = "bare" \/ o \notin Labelled)

\* The API server accepts an Update of the copy the pass holds, or of the one
\* its method has just read from the cache.
Writable(m, o) ==
    /\ o \in exists
    /\ IF o \in Rekeyed THEN o \in fresh[m] ELSE held[m][o] = "current"

Advance(m) == pc' = [pc EXCEPT ![m] = @ + 1]

\* The pass is over; with again the request goes back to the queue (after an
\* error, in 30 s).
EndPass(m, again) ==
    /\ pc' = [pc EXCEPT ![m] = 0]
    /\ held' = [held EXCEPT ![m] = Nothing]
    /\ target' = [target EXCEPT ![m] = NoMaster]
    /\ queued' = [queued EXCEPT ![m] = @ \/ again]

\* The process ends: its pass, its queue and its cache go with it.
Down(m) ==
    /\ pc' = [pc EXCEPT ![m] = 0]
    /\ held' = [held EXCEPT ![m] = Nothing]
    /\ target' = [target EXCEPT ![m] = NoMaster]
    /\ queued' = [queued EXCEPT ![m] = FALSE]
    /\ down' = down \cup {m}

\* A write of o gives it a new resource version: the copies of the passes and
\* the caches are behind, but for the copy of the writer, which the response
\* of its Update refreshes.
Bump(o, writers) ==
    /\ held' = [n \in Managers |->
                  IF o \notin Fields THEN held[n]
                  ELSE IF n \in writers THEN [held[n] EXCEPT ![o] = "current"]
                  ELSE IF held[n][o] = "current"
                       THEN [held[n] EXCEPT ![o] = "stale"]
                  ELSE held[n]]
    /\ fresh' = [n \in Managers |-> fresh[n] \ {o}]

\* The Cluster as a cache that is up to date has it.
View == IF "Cluster" \notin exists THEN "gone"
        ELSE IF ~optIn THEN "unlabelled"
        ELSE IF optedOut THEN IF deleting THEN "abandoned" ELSE "withdrawn"
        ELSE IF deleting THEN "deleting" ELSE "live"

-----------------------------------------------------------------------------
(* Reconcile and the checks that precede Prepare. *)

\* The Cluster is read from the cache.  A deleted one is left alone:
\* reconcileDelete does nothing.
ReconcileUnchecked(m) ==
    /\ m \notin down /\ pc[m] = 0 /\ queued[m] /\ sees[m] # "gone"
    /\ queued' = [queued EXCEPT ![m] = FALSE]
    /\ pc' = [pc EXCEPT ![m] = 1]
    /\ UNCHANGED <<crs, user, nodes, held, target, cache, down, budget>>

Reconcile(m) ==
    /\ m \notin down /\ pc[m] = 0 /\ queued[m] /\ sees[m] # "gone"
    /\ queued' = [queued EXCEPT ![m] = FALSE]
    /\ pc' = [pc EXCEPT ![m] = IF sees[m] \in {"deleting", "abandoned"} THEN 0 ELSE 1]
    /\ UNCHANGED <<crs, user, nodes, held, target, cache, down, budget>>

\* Get answers NotFound, which Reconcile returns as an error: the request is
\* retried for ever.
ReconcileNotFound(m) ==
    /\ m \notin down /\ pc[m] = 0 /\ queued[m] /\ sees[m] = "gone"
    /\ UNCHANGED vars

IsMigrated == FALSE

IsMigratingOnceTriggered == handed # {}
IsMigrating == FALSE

\* NewMigrator connects to the workload cluster; then IsMigrated and
\* IsMigrating decide whether there is anything to do.
NewMigrator(m) ==
    /\ At(m, "connect")
    /\ IF IsMigrated \/ IsMigrating
       THEN EndPass(m, FALSE)
       ELSE Advance(m) /\ UNCHANGED <<held, target, queued>>
    /\ UNCHANGED <<crs, user, nodes, cache, down, budget>>

-----------------------------------------------------------------------------
(* Prepare: migrateCertsSecrets, readCRs, prepareMissingCRs, updateCRs,    *)
(* stopOldMasterComponents.                                                *)

\* The read has an answer: nobody but the passes creates what they ensure.
Readable(m, o) ==
    /\ o \notin Refused
    /\ o = "Cluster" => sees[m] # "gone"
    /\ o \in Ensured => o \in exists

\* read*: Get or List through the cache; getCAData, from Vault.
ReadCR(m) ==
    /\ At(m, "read") /\ Usable(m)
    /\ LET o == Object(m) IN
       /\ Readable(m, o)
       /\ held' = [held EXCEPT ![m][o] =
                      IF o \in Adopted \ fresh[m] THEN "stale" ELSE "current"]
    /\ Advance(m)
    /\ UNCHANGED <<crs, user, nodes, target, cache, process, budget>>

\* readCluster finds no Cluster, readEncryptionSecret no secret.
ReadMissing(m) ==
    /\ At(m, "read") /\ Usable(m)
    /\ ~Readable(m, Object(m))
    /\ EndPass(m, TRUE)
    /\ UNCHANGED <<crs, user, nodes, cache, down, budget>>

\* moveCertDataToCAPIKeys, and the etcd secret in createCASecrets: Get, copy
\* the certificate under other keys, Update.
Rekey(m) ==
    /\ At(m, "rekey") /\ Usable(m)
    /\ LET o == Object(m) IN
       /\ Writable(m, o)
       /\ rekeyed' = rekeyed \cup {o}
       /\ IF o \in rekeyed THEN UNCHANGED <<held, fresh>> ELSE Bump(o, {m})
    /\ Advance(m)
    /\ UNCHANGED <<exists, operated, finalizers, controlPlaneRef, handed, versioned,
                   user, nodes, target, sees, process, budget>>

\* create*: AlreadyExists is fine, the object is not kept.  An object that the
\* API server refuses ends the pass.
Ensure(m) ==
    /\ At(m, "ensure") /\ Usable(m)
    /\ IF Object(m) \in Refused
       THEN EndPass(m, TRUE) /\ UNCHANGED exists
       ELSE /\ exists' = exists \cup {Object(m)}
            /\ Advance(m)
            /\ UNCHANGED <<held, target, queued>>
    /\ UNCHANGED <<operated, finalizers, controlPlaneRef, handed, versioned, rekeyed,
                   user, nodes, cache, down, budget>>

\* The copy that create* stores in m.crs: Create's response, or the rendered
\* object when Create answered AlreadyExists.
CopyReread(o) == "current"
CopyDropped(o) == IF o \in exists THEN "nil" ELSE "current"
CopyAfterCreate(o) == IF o \in exists THEN "bare" ELSE "current"

CreateRefused(m) ==
    /\ At(m, "create") /\ Usable(m)
    /\ IF Object(m) \in exists
       THEN EndPass(m, TRUE) /\ UNCHANGED exists
       ELSE /\ held' = [held EXCEPT ![m][Object(m)] = "current"]
            /\ exists' = exists \cup {Object(m)}
            /\ Advance(m)
            /\ UNCHANGED <<target, queued>>
    /\ UNCHANGED <<operated, finalizers, controlPlaneRef, handed, versioned, rekeyed,
                   user, nodes, cache, down, budget>>

CreateCR(m) ==
    /\ At(m, "create") /\ Usable(m)
    /\ held' = [held EXCEPT ![m][Object(m)] = CopyAfterCreate(Object(m))]
    /\ exists' = exists \cup {Object(m)}
    /\ Advance(m)
    /\ UNCHANGED <<operated, finalizers, controlPlaneRef, handed, versioned, rekeyed,
                   user, nodes, target, cache, process, budget>>

\* updateCluster points the Cluster at the control plane by the Kind and the
\* APIVersion of the copy: Create's response has them stripped by the client, a
\* rendered object has those of its template.
NewReference(m) ==
    IF \E f \in Program[pc[m]].uses \cap Typed : held[m][f] = "bare"
    THEN "kind" ELSE "kindless"

\* updateCluster, updateAzureCluster: drop the legacy operator's label and ALL
\* finalizers, reference the control plane.  The API server bumps the version
\* only if the content changes (updateAzureCluster may also change subnets:
\* AzureNetwork.tla), and removes a deleted Cluster with its last finalizer.
UpdateCR(m) ==
    /\ At(m, "adopt") /\ Usable(m)
    /\ LET o == Object(m)
           ref == IF o = "Cluster" THEN NewReference(m) ELSE controlPlaneRef
           rewrites == \/ o \in operated \/ finalizers[o] # {}
                       \/ ref # controlPlaneRef
       IN /\ Writable(m, o)
          /\ operated' = operated \ {o}
          /\ finalizers' = [finalizers EXCEPT ![o] = {}]
          /\ controlPlaneRef' = ref
          /\ exists' = IF o = "Cluster" /\ deleting THEN exists \ {o} ELSE exists
          /\ \E changed \in {rewrites, rewrites \/ o # "Cluster"} :
                IF changed THEN Bump(o, {m}) ELSE UNCHANGED <<held, fresh>>
    /\ Advance(m)
    /\ UNCHANGED <<handed, versioned, rekeyed, user, nodes, target, sees, process,
                   budget>>

\* The nodes are listed in the order of their names, the same every time.
FirstWithoutPod == CHOOSE n \in Masters \ pods : TRUE

\* stopOldMasterComponents looks for a legacy master without a pod ...
FindMaster(m) ==
    /\ At(m, "disable") /\ Usable(m) /\ target[m] = NoMaster
    /\ IF Masters \subseteq pods
       THEN Advance(m) /\ UNCHANGED target
       ELSE /\ target' = [target EXCEPT ![m] = FirstWithoutPod]
            /\ UNCHANGED pc
    /\ UNCHANGED <<crs, user, nodes, held, cache, process, budget>>

\* ... creates the pod, and returns after this ONE node.  A pod that has
\* appeared meanwhile (AlreadyExists) is an error.
CreatePodAndWait(m) ==
    /\ At(m, "disable") /\ target[m] # NoMaster
    /\ pods' = pods \cup {target[m]}
    /\ IF Masters \subseteq pods'
       THEN /\ Advance(m)
            /\ target' = [target EXCEPT ![m] = NoMaster]
            /\ UNCHANGED <<held, queued>>
       ELSE EndPass(m, TRUE)
    /\ UNCHANGED <<crs, user, stopped, cache, down, budget>>

CreatePod(m) ==
    /\ At(m, "disable") /\ target[m] # NoMaster
    /\ pods' = pods \cup {target[m]}
    /\ IF target[m] \in pods
       THEN EndPass(m, TRUE)
       ELSE /\ Advance(m)
            /\ target' = [target EXCEPT ![m] = NoMaster]
            /\ UNCHANGED <<held, queued>>
    /\ UNCHANGED <<crs, user, stopped, cache, down, budget>>

-----------------------------------------------------------------------------
(* TriggerMigration. *)

\* The CRs that carry the watch-filter label after o is updated.
LabelledWithRelease(o) == handed \cup {o, "Release"}
WithWatchFilter(o) == handed \cup {o}

\* Labels the copy in memory, then updates the CR: the watch filter and, on the
\* CRs that cluster-operator goes on with, its version label in one write.
TriggerCR(m) ==
    /\ At(m, "trigger") /\ Usable(m)
    /\ LET o == Object(m) IN
       /\ ~LabelsNil(m, o) /\ Writable(m, o)
       /\ handed' = WithWatchFilter(o)
       /\ versioned' = versioned \cup ({o} \cap Versioned)
       /\ IF o \in handed THEN UNCHANGED <<held, fresh>> ELSE Bump(o, {m})
    /\ Advance(m)
    /\ UNCHANGED <<exists, operated, finalizers, controlPlaneRef, rekeyed, user,
                   nodes, target, sees, process, budget>>

\* The pass reached its end without an error: nothing is requeued.
Finish(m) ==
    /\ m \notin down /\ pc[m] = Len(Program) + 1
    /\ EndPass(m, FALSE)
    /\ UNCHANGED <<crs, user, nodes, cache, down, budget>>

-----------------------------------------------------------------------------
(* Passes that do not reach their end. *)

\* An unset field, or the nil Labels map of a CR the pass did not create.
Panics(m) == \/ ~Usable(m)
             \/ At(m, "trigger") /\ LabelsNil(m, Object(m))

\* A Go panic in a reconcile ends the process.
Panic(m) ==
    /\ m \notin down /\ pc[m] \in Steps /\ Panics(m)
    /\ Down(m)
    /\ UNCHANGED <<crs, user, nodes, cache, budget>>

\* Update answers Conflict, or NotFound.
ConflictIgnored(m) ==
    /\ At(m, "rekey") \/ At(m, "adopt") \/ At(m, "trigger")
    /\ ~Panics(m) /\ ~Writable(m, Object(m))
    /\ Advance(m)
    /\ UNCHANGED <<crs, user, nodes, held, target, cache, process, budget>>

Conflict(m) ==
    /\ At(m, "rekey") \/ At(m, "adopt") \/ At(m, "trigger")
    /\ ~Panics(m) /\ ~Writable(m, Object(m))
    /\ EndPass(m, TRUE)
    /\ UNCHANGED <<crs, user, nodes, cache, down, budget>>

\* Any other error of the call.
FailIgnored(m) ==
    /\ m \notin down /\ pc[m] \in Steps /\ ~Panics(m)
    /\ faults < MaxFaults /\ faults' = faults + 1
    /\ Advance(m)
    /\ UNCHANGED <<crs, user, nodes, held, target, cache, process, noise>>

Fail(m) ==
    /\ m \notin down /\ pc[m] \in Steps /\ ~Panics(m)
    /\ faults < MaxFaults /\ faults' = faults + 1
    /\ EndPass(m, TRUE)
    /\ UNCHANGED <<crs, user, nodes, cache, down, noise>>

\* With every legacy API server stopped the workload cluster may not answer.
Unreachable(m) ==
    /\ At(m, "connect") \/ At(m, "disable")
    /\ stopped = Masters
    /\ EndPass(m, TRUE)
    /\ UNCHANGED <<crs, user, nodes, cache, down, budget>>

Crash(m) ==
    /\ m \notin down /\ pc[m] # 0
    /\ faults < MaxFaults /\ faults' = faults + 1
    /\ Down(m)
    /\ UNCHANGED <<crs, user, nodes, cache, noise>>

\* The event filter: only a labelled Cluster is queued.
AnyEvent(view) == TRUE
Predicate(view) == view \in {"live", "deleting"}

\* A new process lists the Clusters.
Restart(m) ==
    /\ m \in down
    /\ down' = down \ {m}
    /\ fresh' = [fresh EXCEPT ![m] = Cached]
    /\ sees' = [sees EXCEPT ![m] = View]
    /\ queued' = [queued EXCEPT ![m] = Predicate(View)]
    /\ UNCHANGED <<crs, user, nodes, pass, budget>>

-----------------------------------------------------------------------------
(* The manager's cache (controller-runtime). *)

\* A watch event: the delete event carries the last labels.
SyncCache(m, o) ==
    /\ m \notin down /\ o \in Cached \ fresh[m]
    /\ fresh' = [fresh EXCEPT ![m] = @ \cup {o}]
    /\ IF o = "Cluster"
       THEN /\ sees' = [sees EXCEPT ![m] = View]
            /\ queued' = [queued EXCEPT ![m] =
                 @ \/ Predicate(View) \/ (View = "gone" /\ Predicate(sees[m]))]
       ELSE UNCHANGED <<sees, queued>>
    /\ UNCHANGED <<crs, user, nodes, pass, down, budget>>

\* The periodic resync delivers the cached Cluster again.
Resync(m) ==
    /\ m \notin down /\ ~queued[m] /\ Predicate(sees[m])
    /\ queued' = [queued EXCEPT ![m] = TRUE]
    /\ UNCHANGED <<crs, user, nodes, pass, cache, down, budget>>

-----------------------------------------------------------------------------
(* The user, the operators and the nodes. *)

OptIn ==
    /\ ~optIn /\ "Cluster" \in exists
    /\ optIn' = TRUE
    /\ Bump("Cluster", {})
    /\ UNCHANGED <<crs, optedOut, deleting, nodes, pc, target, sees, process, budget>>

OptOut ==
    /\ MayOptOut /\ optIn /\ ~optedOut /\ "Cluster" \in exists
    /\ optedOut' = TRUE
    /\ Bump("Cluster", {})
    /\ UNCHANGED <<crs, optIn, deleting, nodes, pc, target, sees, process, budget>>

\* A Cluster without finalizers goes at once.
Delete ==
    /\ ~deleting /\ "Cluster" \in exists
    /\ deleting' = TRUE
    /\ exists' = IF finalizers["Cluster"] = {} THEN exists \ {"Cluster"} ELSE exists
    /\ Bump("Cluster", {})
    /\ UNCHANGED <<operated, finalizers, controlPlaneRef, handed, versioned, rekeyed,
                   optIn, optedOut, nodes, pc, target, sees, process, budget>>

\* The operators in charge of a deleted Cluster remove what it stands for,
\* then their finalizers.
Teardown ==
    /\ deleting /\ "Cluster" \in exists \cap (operated \cup handed \cup versioned)
    /\ exists' = exists \ {"Cluster"}
    /\ Bump("Cluster", {})
    /\ UNCHANGED <<operated, finalizers, controlPlaneRef, handed, versioned, rekeyed,
                   user, nodes, pc, target, sees, process, budget>>

\* An operator writes a CR and makes sure its finalizer is there.
OperatorWrite(o, owner) ==
    /\ noise < MaxNoise /\ noise' = noise + 1
    /\ o \in exists
    /\ finalizers' = IF owner = "none" \/ deleting THEN finalizers
                     ELSE [finalizers EXCEPT ![o] = @ \cup {owner}]
    /\ Bump(o, {})
    /\ UNCHANGED <<exists, operated, controlPlaneRef, handed, versioned, rekeyed, user,
                   nodes, pc, target, sees, process, faults>>

\* cert-operator has issued the certificate secrets.
LegacyWrite == \/ \E o \in operated : OperatorWrite(o, "legacy")
               \/ \E o \in Rekeyed : OperatorWrite(o, "none")

\* cluster-operator is not relieved of anything.
ClusterOperatorWrite ==
    \E o \in versioned \cap Adopted : OperatorWrite(o, "other")

\* Upstream controllers act on the CRs handed over, and set owner references
\* on those the Cluster refers to.
UpstreamWrite == \/ \E o \in handed \cap Adopted : OperatorWrite(o, "other")
                 \/ handed # {} /\ \E o \in Created \cup Adopted : OperatorWrite(o, "none")

\* The pod has moved the manifests away on its node.
PodRuns(n) ==
    /\ n \in pods \ stopped
    /\ stopped' = stopped \cup {n}
    /\ UNCHANGED <<crs, user, pods, pass, cache, process, budget>>

-----------------------------------------------------------------------------
PassStep(m) ==
    \/ NewMigrator(m) \/ ReadCR(m) \/ ReadMissing(m) \/ Rekey(m)
    \/ Ensure(m) \/ CreateCR(m) \/ UpdateCR(m)
    \/ FindMaster(m) \/ CreatePod(m) \/ TriggerCR(m) \/ Finish(m)
    \/ Panic(m) \/ Conflict(m) \/ Unreachable(m)

Environment ==
    \/ OptIn \/ OptOut \/ Delete \/ Teardown
    \/ LegacyWrite \/ ClusterOperatorWrite \/ UpstreamWrite
    \/ \E n \in Masters : PodRuns(n)

Next ==
    \/ \E m \in Managers :
          \/ Reconcile(m) \/ ReconcileNotFound(m) \/ PassStep(m)
          \/ Fail(m) \/ Crash(m) \/ Restart(m)
          \/ \E o \in Cached : SyncCache(m, o)
          \/ Resync(m)
    \/ Environment

Spec == Init /\ [][Next]_vars

\* A process runs its queue and its passes, is restarted when it ends, and its
\* watches deliver; the user and the operators owe nothing.
Fairness ==
    \A m \in Managers :
        /\ WF_vars(Reconcile(m))
        /\ WF_vars(PassStep(m))
        /\ WF_vars(Restart(m))
        /\ WF_vars(Resync(m))
        /\ \A o \in Cached : WF_vars(SyncCache(m, o))

LiveSpec == Spec /\ Fairness

-----------------------------------------------------------------------------
(* Properties. *)

\* What step i of a pass leaves behind for good.
Done(i) ==
    LET o == Program[i].obj IN
    /\ Program[i].op \in {"ensure", "create"} => o \in exists
    /\ Program[i].op = "rekey" => o \in rekeyed
    /\ Program[i].op = "adopt" => /\ o \notin operated
                                  /\ o = "Cluster" => controlPlaneRef # "none"
    /\ Program[i].op = "disable" => pods # {}
    /\ Program[i].op = "trigger" => o \in handed

\* Upstream controllers get the first CR only when every CR they need exists,
\* no CR is the legacy operator's any more, the Cluster refers to its control
\* plane and the disabling of the masters has begun: whichever passes, of
\* whichever manager, did which part and whatever failed in between.
HandoverAfterPrepare ==
    handed # {} => \A i \in Steps \ TriggerSteps : Done(i)

\* CRs are handed over in the order of triggerMigration, over all passes: the
\* infrastructure (AzureCluster) never before the control plane it hosts.
HandoverInOrder ==
    \A j \in TriggerSteps : Program[j].obj \in handed =>
        \A i \in TriggerSteps : i < j => Program[i].obj \in handed

\* The legacy operator loses a CR only when all that comes before in a pass has
\* been done: certificates, every missing CR, the CRs it loses first.  A cluster
\* nobody reconciles yet is never one that upstream could not take over.
ReleasedInOrder ==
    \A i \in StepsOf("adopt") : Program[i].obj \notin operated =>
        \A j \in Steps : j < i => Done(j)

\* Whatever the order of the program: no legacy CR is rewritten while there is
\* a certificate upstream could not read or a secret or CR that is missing.
ReleasedWhenReady ==
    operated # Adopted => /\ rekeyed = Rekeyed
                          /\ Created \cup Ensured \subseteq exists

\* No pass, however it was preceded, dereferences a field of m.crs that is
\* not set.
NilSafe == \A m \in Managers : pc[m] \in Steps => Usable(m)

\* Nothing of a cluster changes before its user opts in.
UntouchedBeforeOptIn ==
    ~optIn => /\ exists \cap (Created \cup Ensured) \subseteq Existing
              /\ operated = Adopted
              /\ controlPlaneRef = "none"
              /\ handed = {} /\ versioned = VersionedFirst /\ pods = {} /\ rekeyed = {}

\* The pass of m has updated, in this pass, a CR that it created.
HandsOverCreated(m) ==
    \E i \in TriggerSteps : i < pc[m] /\ Program[i].obj \in Created

\* Without leader election two managers still never hand over the created CRs
\* both: Create is what they race for, and the loser cannot pass it.
HandoverExclusive ==
    \A m, n \in Managers :
        HandsOverCreated(m) /\ HandsOverCreated(n) => m = n

\* A created CR that waits to be handed over while no pass holds the response
\* of its Create.
Stranded(o) ==
    /\ o \in exists \ handed
    /\ \A m \in Managers : held[m][o] \in {"nil", "bare"}

\* A hand-over cut short between Create and the CR's label is never completed
\* by a later pass.
StrandedForever ==
    [][\A o \in Created : Stranded(o) => Stranded(o)']_vars

\* The Create response of o is another pass's, or nobody's any more.
Barred(m, o) == o \in exists /\ held[m][o] \in {"nil", "bare"}

\* A manager that finds a created CR there does not get past its label, in this
\* pass or in a later one: once a cluster is handed over, every further pass of
\* every manager ends before it is.
BarredForGood ==
    [][\A m \in Managers, o \in Created : Barred(m, o) =>
          /\ Barred(m, o)'
          /\ \A i \in TriggerSteps : pc[m] = i /\ Program[i].obj = o => pc'[m] # i + 1]_vars

Withdrawn == deleting \/ optedOut

Undisturbed == faults + noise = 0 /\ ~Withdrawn

\* A migration that nothing disturbs is all or nothing: between passes either
\* every CR is handed over, or no CR is created, rewritten or handed over.  Nothing
\* that a pass itself does, the pod it starts and the labels it writes on the way
\* included, ends it between its first Create and its last label.
AllOrNothing ==
    Undisturbed /\ (\A m \in Managers : pc[m] = 0) =>
        \/ handed = HandedOver
        \/ handed = {} /\ operated = Adopted /\ Created \cap exists = {}

\* The user has taken the request back: the Cluster is deleted, or its label is
\* gone.  Every running manager has seen it, is between passes and, where only
\* the label is gone, has no request left (the filter drops events, not them).
WithdrawalSeen ==
    /\ optIn /\ (deleting \/ optedOut)
    /\ \A m \in Managers \ down :
          /\ pc[m] = 0
          /\ \/ sees[m] \in {"deleting", "abandoned", "gone"}
             \/ sees[m] = "withdrawn" /\ ~queued[m]

\* From then on the managers leave the cluster alone, restarts included: no CR
\* is created, rewritten or handed over, no finalizer is dropped.
WithdrawnIsLeftAlone ==
    [][WithdrawalSeen =>
         /\ WithdrawalSeen'
         /\ operated' = operated /\ handed' = handed /\ pods' = pods
         /\ rekeyed' = rekeyed
         /\ exists \ {"Cluster"} = exists' \ {"Cluster"}
         /\ \A o \in Adopted : finalizers[o] \subseteq finalizers'[o]]_vars

\* After a deletion the managers do come to that.
DeletionSettles == (optIn /\ deleting) ~> []WithdrawalSeen

Prepared == /\ Created \cup Ensured \subseteq exists
            /\ rekeyed = Rekeyed
            /\ operated = {} /\ controlPlaneRef # "none"

\* A cluster opted in gets prepared, through crashes, conflicts and failures,
\* unless the user takes the request back.
PrepareCompletes == optIn ~> (Prepared \/ Withdrawn)

\* Every legacy master gets its disabling pod, one per pass.
MastersDisabled == optIn ~> (pods = Masters \/ Withdrawn)

\* The pass that creates the control plane refers to it without a kind; a later
\* one, that finds it there, makes the reference good.  It is the pass after the
\* hand-over that does, if none before was cut short.
ReferenceCompletes == optIn ~> (controlPlaneRef = "kind" \/ Withdrawn)

\* Where nothing fails and nobody else writes the CRs, the pass that creates
\* them hands all of them over (a later one could not: StrandedForever).
HandoverCompletes ==
    optIn ~> (handed = HandedOver \/ Withdrawn \/ faults + noise > 0)

-----------------------------------------------------------------------------
(* What all this implements: Handover.tla. *)

\* Every step before the hand-over is done.
PrepareDone == \A i \in Steps \ TriggerSteps : Done(i)

\* The CRs that triggerMigration labels before o.
LabelledBefore(o) ==
    {Program[i].obj : i \in {k \in TriggerSteps :
        \E j \in TriggerSteps : k < j /\ Program[j].obj = o}}

\* The operators that act on o: by the version label of azure- or aws-operator,
\* by the watch filter, and by the version label of cluster-operator.
Reconcilers(o) == {r \in Operators : \/ r = "legacy" /\ o \in operated
                                     \/ r = "upstream" /\ o \in handed
                                     \/ r = "cluster-operator" /\ o \in versioned}

H == INSTANCE Handover
       WITH CRs         <- Adopted \cup HandedOver,
            Legacy      <- Adopted,
            Shared      <- Versioned,
            SharedFirst <- VersionedFirst,
            Before      <- [o \in Adopted \cup HandedOver |-> LabelledBefore(o)],
            asked       <- optIn,
            complete    <- PrepareDone,
            reconciler  <- [o \in Adopted \cup HandedOver |-> Reconcilers(o)]

\* Passes, failures and managers, however they interleave, amount to: someone
\* asks, legacy CRs are released, the preparation is complete, and CRs go to
\* upstream one by one, in order, never back and never while they are the legacy
\* operator's; cluster-operator comes to the shared ones in the same moment.
ImplementsHandover == H!Spec

-----------------------------------------------------------------------------
(* What the repository says and the code does not keep. *)

\* A CR that is already there is fine (create*): a pass that did not create
\* every CR itself can go on with the hand-over.
ExistingIsFine == \A m \in Managers : pc[m] \in Steps => ~Panics(m)

\* The old control plane components are disabled in the preparation phase,
\* before the CRs are handed over (README).
DisabledBeforeHandover == handed # {} => pods = Masters

\* What the Cluster refers to when it is handed over is a control plane CR, by its
\* kind and name (createKubeadmControlPlane keeps the CR for that).
ReferencedWhenHandedOver == handed # {} => controlPlaneRef = "kind"

\* The CA's key gets from Vault into the cluster's CA secret (createCASecrets).
CASecretStored == optIn ~> ("CASecret" \in exists \/ Withdrawn)
=============================================================================
