---------------------------- MODULE AWSMigrator ----------------------------
(***************************************************************************)
(* The AWS migrator's pass, call by call, in the order of Prepare; there   *)
(* is nothing to trigger.  Records are those of AzureMigrator.tla.  The    *)
(* cluster has two node pools: what one method does for each of them in a  *)
(* loop is one call for each.                                              *)
(*                                                                         *)
(* As the code stands many of these calls fail every time: Refusals, at    *)
(* the end of the module, says which and why.                              *)
(***************************************************************************)
EXTENDS Sequences

Call(op, obj, uses) == [op |-> op, obj |-> obj, uses |-> uses]

\* Two AWSMachineDeployments.
ForEachPool(method(_)) == <<method("-a"), method("-b")>>
OfPool(kind, pool)     == kind \o pool

NewMigrator == Call("connect", "WorkloadCluster", {})

-----------------------------------------------------------------------------
(* migrateCertsSecrets: the CA comes from Vault, into a secret of its own  *)
(* and, for now, into the etcd secret.                                     *)

\* Fails as the code stands (Refusals).
getCAData == Call("read", "CAData", {})

createCASecrets == <<getCAData,
                     Call("ensure", "CASecret", {"CAData"}),
                     Call("rekey", "EtcdSecret", {"CAData"})>>

moveCertDataToCAPIKeys == Call("rekey", "ServiceAccountSecret", {})

migrateCertsSecrets == createCASecrets \o <<moveCertDataToCAPIKeys>>

-----------------------------------------------------------------------------
(* readCRs *)

\* The secret that createEncryptionConfigSecret makes, later in the pass.
readEncryptionSecret      == Call("read", "EncryptionConfigSecret", {})
readCluster               == Call("read", "Cluster", {})
\* The next four, and readRelease, fail as the code stands (Refusals).
readAWSCluster            == Call("read", "AWSCluster", {})
readAWSControlPlane       == Call("read", "AWSControlPlane", {})
readG8sControlPlane       == Call("read", "G8sControlPlane", {})
readAWSMachineDeployments == Call("read", "AWSMachineDeployments", {})
readRelease               == Call("read", "Release", {"Cluster"})

readCRs == <<readEncryptionSecret, readCluster, readAWSCluster,
             readAWSControlPlane, readG8sControlPlane,
             readAWSMachineDeployments, readRelease>>

\* The credential secret's role gives the clients the later calls use.
createAWSApiClients == Call("read", "AWSClients", {"AWSCluster"})

-----------------------------------------------------------------------------
(* prepareMissingCRs: only the control plane is kept, for updateCluster.   *)
(* The objects are Go values that state no kind.                           *)

createEncryptionConfigSecret ==
    Call("ensure", "EncryptionConfigSecret", {"EncryptionConfigSecret"})
createCustomFilesSecret ==
    Call("ensure", "CustomFilesSecret", {"AWSCluster"})
createKubeadmControlPlane ==
    Call("create", "KubeadmControlPlane", {"G8sControlPlane", "AWSCluster", "Release"})
createMasterAWSMachineTemplate ==
    Call("ensure", "MasterAWSMachineTemplate", {"AWSControlPlane", "AWSClients"})
createWorkersKubeadmConfigTemplate(pool) ==
    Call("ensure", OfPool("KubeadmConfig", pool), {"AWSMachineDeployments"})
createWorkersAWSMachinePools(pool) ==
    Call("ensure", OfPool("AWSMachinePool", pool), {"AWSMachineDeployments", "AWSClients"})
createWorkersMachinePools(pool) ==
    Call("ensure", OfPool("MachinePool", pool), {"AWSMachineDeployments", "Release"})

prepareMissingCRs == <<createEncryptionConfigSecret, createCustomFilesSecret,
                       createKubeadmControlPlane, createMasterAWSMachineTemplate>>
                     \o ForEachPool(createWorkersKubeadmConfigTemplate)
                     \o ForEachPool(createWorkersAWSMachinePools)
                     \o ForEachPool(createWorkersMachinePools)

-----------------------------------------------------------------------------
(* updateCRs *)

updateCluster    == Call("adopt", "Cluster", {"Cluster", "KubeadmControlPlane"})
updateAWSCluster == Call("adopt", "AWSCluster", {"AWSCluster"})

updateCRs == <<updateCluster, updateAWSCluster>>

\* The certificates as a last step.
PrepareCertsLast == readCRs \o <<createAWSApiClients>> \o prepareMissingCRs
                    \o updateCRs \o migrateCertsSecrets

\* stopOldMasterComponents is not called: it is Azure's.
Prepare == migrateCertsSecrets \o readCRs \o <<createAWSApiClients>>
           \o prepareMissingCRs \o updateCRs

triggerMigration == <<>>

AWSProgram == <<NewMigrator>> \o Prepare \o triggerMigration

-----------------------------------------------------------------------------
(* What the calls fail at every time, as the code stands. *)

\* The manager's scheme has neither the types of infrastructure/v1alpha2 nor
\* those of the upstream AWS provider: its client refuses them, read or write.
Unregistered == {"AWSCluster", "AWSControlPlane", "G8sControlPlane",
                 "AWSMachineDeployments", "MasterAWSMachineTemplate"}
                \cup {OfPool("AWSMachinePool", "-a"), OfPool("AWSMachinePool", "-b")}

\* A Release's name starts with the v that readRelease takes away.
Misnamed == {"Release"}

\* Vault answers in strings where the code asserts bytes, and the CA secret has
\* neither a name nor a namespace.
Unstorable == {"CAData", "CASecret"}

Refusals == Unregistered \cup Misnamed \cup Unstorable
=============================================================================
