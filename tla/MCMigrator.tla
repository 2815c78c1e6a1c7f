----------------------------- MODULE MCMigrator -----------------------------
(* Instances of Migrator that run the Azure or the AWS program, for TLC. *)
EXTENDS Migrator, TLC

Azure == INSTANCE AzureMigrator

AzureProgram == Azure!AzureProgram

AWS == INSTANCE AWSMigrator

AWSProgram == AWS!AWSProgram

\* Someone has made the secret that an AWS pass reads before it creates it.
EncryptionConfigMade == {"EncryptionConfigSecret"}

AWSRefusals == AWS!Refusals

AzureTyped == Azure!Templates \cap Created

AzureVersioned == Azure!ClusterOperatorVersion \cap HandedOver

\* What two managers race for: the Cluster, which both rewrite and label, and two
\* CRs that only one of them can create.  Short enough to interleave them.
RaceProgram ==
    <<Azure!NewMigrator, Azure!readCluster, Azure!readAzureCluster,
      Azure!readRelease, Azure!createKubeadmControlPlane,
      Azure!createWorkersMachineDeployment, Azure!updateCluster,
      Azure!stopOldMasterComponents, Azure!HandOver("Cluster"),
      Azure!HandOver("WorkersMachineDeployment"),
      Azure!HandOver("KubeadmControlPlane")>>

\* The Azure program with two of the five created CRs and one of the two secrets:
\* a single manager's migration is followed through to its end.
ShortProgram ==
    <<Azure!NewMigrator, Azure!readCluster, Azure!readAzureCluster,
      Azure!readRelease, Azure!createProxyConfigSecret,
      Azure!createKubeadmControlPlane, Azure!createWorkersMachineDeployment,
      Azure!updateCluster, Azure!updateAzureCluster,
      Azure!stopOldMasterComponents, Azure!HandOver("Cluster"),
      Azure!HandOver("WorkersMachineDeployment"),
      Azure!HandOver("KubeadmControlPlane"), Azure!HandOver("AzureCluster")>>

\* The API server defaults the labels of every created CR.
AllLabelled == Created

ManagerSymmetry == Permutations(Managers)
=============================================================================
