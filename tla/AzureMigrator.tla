--------------------------- MODULE AzureMigrator ---------------------------
(***************************************************************************)
(* The Azure migrator's pass: one record per method of azureMigrator, in   *)
(* the order Prepare and TriggerMigration call them.  A record names the   *)
(* kind of call (Migrator.tla says what each kind does), the CR, and the   *)
(* fields of m.crs the method dereferences.                                *)
(***************************************************************************)
EXTENDS Sequences

Call(op, obj, uses) == [op |-> op, obj |-> obj, uses |-> uses]

NewMigrator == Call("connect", "WorkloadCluster", {})

-----------------------------------------------------------------------------
(* readCRs *)

readEncryptionSecret  == Call("read", "EncryptionSecret", {})
readAzureConfig       == Call("read", "AzureConfig", {})
readCluster           == Call("read", "Cluster", {})
readAzureCluster      == Call("read", "AzureCluster", {})
readMachinePools      == Call("read", "MachinePools", {})
readAzureMachinePools == Call("read", "AzureMachinePools", {})
\* The release version is a label of the Cluster.
readRelease           == Call("read", "Release", {"Cluster"})

readCRs == <<readEncryptionSecret, readAzureConfig, readCluster,
             readAzureCluster, readMachinePools, readAzureMachinePools,
             readRelease>>

-----------------------------------------------------------------------------
(* prepareMissingCRs *)

createEncryptionConfigSecret ==
    Call("ensure", "EncryptionConfigSecret", {"EncryptionSecret"})
createProxyConfigSecret ==
    Call("ensure", "ProxyConfigSecret", {})
createKubeadmControlPlane ==
    Call("create", "KubeadmControlPlane", {"AzureCluster", "Release"})
createMasterAzureMachineTemplate ==
    Call("create", "MasterAzureMachineTemplate", {"AzureCluster"})
createWorkersKubeadmConfigTemplate ==
    Call("create", "WorkersKubeadmConfigTemplate", {})
createWorkersAzureMachineTemplate ==
    Call("create", "WorkersAzureMachineTemplate", {})
createWorkersMachineDeployment ==
    Call("create", "WorkersMachineDeployment", {})

\* The objects come from YAML templates, which state their kind.
Templates == {"KubeadmControlPlane", "MasterAzureMachineTemplate",
              "WorkersKubeadmConfigTemplate", "WorkersAzureMachineTemplate",
              "WorkersMachineDeployment"}

prepareMissingCRs == <<createEncryptionConfigSecret, createProxyConfigSecret,
                       createKubeadmControlPlane,
                       createMasterAzureMachineTemplate,
                       createWorkersKubeadmConfigTemplate,
                       createWorkersAzureMachineTemplate,
                       createWorkersMachineDeployment>>

-----------------------------------------------------------------------------
(* updateCRs *)

updateCluster      == Call("adopt", "Cluster", {"Cluster", "KubeadmControlPlane"})
updateAzureCluster == Call("adopt", "AzureCluster", {"AzureCluster"})

updateCRs == <<updateCluster, updateAzureCluster>>

stopOldMasterComponents == Call("disable", "Pods", {})

Prepare == readCRs \o prepareMissingCRs \o updateCRs \o <<stopOldMasterComponents>>

-----------------------------------------------------------------------------
(* triggerMigration *)

HandOver(obj) == Call("trigger", obj, {obj, "Release"})

\* Cluster and WorkersMachineDeployment get cluster-operator's version label in
\* the same update.
ClusterOperatorVersion == {"Cluster", "WorkersMachineDeployment"}

triggerMigration == <<HandOver("Cluster"),
                      HandOver("WorkersMachineDeployment"),
                      HandOver("MasterAzureMachineTemplate"),
                      HandOver("WorkersAzureMachineTemplate"),
                      HandOver("KubeadmControlPlane"),
                      HandOver("WorkersKubeadmConfigTemplate"),
                      HandOver("AzureCluster")>>

AzureProgram == <<NewMigrator>> \o Prepare \o triggerMigration
=============================================================================
