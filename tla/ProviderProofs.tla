--------------------------- MODULE ProviderProofs ---------------------------
(***************************************************************************)
(* What the two providers' programs make of what holds for every program:  *)
(* Azure's has the order that the hand-over relies on, hands over no CR    *)
(* that it created unless the API server labels it, and none in a later    *)
(* pass; AWS's cannot get past what its own calls fail at.                 *)
(***************************************************************************)
EXTENDS UndisturbedProofs

Azure == INSTANCE AzureMigrator
AWS   == INSTANCE AWSMigrator

-----------------------------------------------------------------------------
(* What cannot be handed over. *)

\* A created CR is labelled only if Create's response has labels, and no CR after
\* it in triggerMigration is labelled before it.
LabelsNeeded ==
    \A i \in TriggerSteps : Program[i].obj \in handed =>
        \A j \in TriggerSteps : j <= i /\ Program[j].obj \in Created
                                  => Program[j].obj \in Labelled

OnlyLabelled == handed \cap Created \subseteq Labelled

LEMMA OnlyLabelledStep ==
    ASSUME TypeOK, OnlyLabelled, [Next]_vars
    PROVE  OnlyLabelled'
<1>1. ASSUME NEW m \in Managers, TriggerCR(m) PROVE OnlyLabelled'
  BY <1>1 DEF TriggerCR, WithWatchFilter, LabelsNil, OnlyLabelled
<1>2. CASE UNCHANGED handed
  BY <1>2 DEF OnlyLabelled
<1>3. UNCHANGED handed \/ \E m \in Managers : TriggerCR(m)
  <2>1. ASSUME NEW m \in Managers, PassStep(m), ~TriggerCR(m) PROVE UNCHANGED handed
    BY <2>1
    DEF PassStep, NewMigrator, ReadCR, ReadMissing, Rekey, Ensure, CreateCR, UpdateCR,
        FindMaster, CreatePod, Finish, Panic, Conflict, Unreachable, crs
  <2>2. ASSUME NEW m \in Managers, IdleStep(m) \/ Fail(m) \/ Crash(m)
        PROVE  UNCHANGED handed
    BY <2>2, IdleStepShape DEF Fail, Crash, crs
  <2>3. CASE Environment
    BY <2>3, EnvironmentShape
  <2> QED BY <2>1, <2>2, <2>3 DEF Next, IdleStep, vars, crs
<1> QED BY <1>1, <1>2, <1>3

\* The hand-over stops at the first created CR whose labels the API server does
\* not make: no template has any.
THEOREM HandoverNeedsLabels == Spec => []LabelsNeeded
<1>1. Init => OnlyLabelled
  BY DEF Init, OnlyLabelled
<1>2. OnlyLabelled /\ HandoverInOrder => LabelsNeeded
  <2> SUFFICES ASSUME OnlyLabelled, HandoverInOrder,
                      NEW i \in TriggerSteps, Program[i].obj \in handed,
                      NEW j \in TriggerSteps, j <= i, Program[j].obj \in Created
               PROVE  Program[j].obj \in Labelled
    BY DEF LabelsNeeded
  <2>1. i \in Nat /\ j \in Nat
    BY ProgramFacts DEF TriggerSteps, StepsOf
  <2>2. j < i \/ j = i
    BY <2>1
  <2>3. Program[j].obj \in handed
    BY <2>2 DEF HandoverInOrder
  <2> QED BY <2>3 DEF OnlyLabelled
<1>3. TypeOK /\ OnlyLabelled /\ [Next]_vars => OnlyLabelled'
  BY OnlyLabelledStep
<1> QED BY <1>1, <1>2, <1>3, TypeCorrect, HandoverIsOrdered, PTL DEF Spec

-----------------------------------------------------------------------------
(* What cannot be passed. *)

\* A read or a create that is always refused, and a read of what only this step
\* or a later one would make.
Impassable(i) ==
    LET o == Program[i].obj IN
    \/ Program[i].op \in {"read", "ensure"} /\ o \in Refused
    \/ /\ Program[i].op = "read" /\ o \in Ensured \ Existing
       /\ \A j \in StepsOf("ensure") \cup StepsOf("create") : Program[j].obj = o => i <= j

\* What a step changes for good has begun.
Effect(i) ==
    LET o == Program[i].obj IN
    \/ Program[i].op \in {"ensure", "create"} /\ o \in exists
    \/ Program[i].op = "rekey"   /\ o \in rekeyed
    \/ Program[i].op = "adopt"   /\ o \notin operated
    \/ Program[i].op = "disable" /\ pods # {}
    \/ Program[i].op = "trigger" /\ o \in handed

SameEffect(i, j) ==
    \/ Program[i].op = "disable" /\ Program[j].op = "disable"
    \/ /\ Program[i].obj = Program[j].obj
       /\ \/ Program[i].op = Program[j].op
          \/ {Program[i].op, Program[j].op} \subseteq {"ensure", "create"}

\* What only step i and later ones do.
NothingFrom(i) ==
    \A j \in Steps : /\ i <= j
                     /\ Program[j].obj \notin Existing
                     /\ \A k \in Steps : SameEffect(k, j) => i <= k
                     => ~Effect(j)

\* Nobody but a pass at such a step brings an effect about.
LEMMA EffectShape ==
    ASSUME TypeOK, [Next]_vars, NEW j \in Steps, ~Effect(j), Effect(j)'
    PROVE  \E m \in Managers, k \in Steps :
              pc[m] = k /\ pc'[m] = k + 1 /\ SameEffect(k, j)
<1> DEFINE Goal == \E m \in Managers, k \in Steps :
                      pc[m] = k /\ pc'[m] = k + 1 /\ SameEffect(k, j)
<1> SUFFICES Goal
  OBVIOUS
<1>1. ASSUME NEW m \in Managers, pc[m] \in Steps, Advance(m), SameEffect(pc[m], j)
      PROVE  Goal
  <2>1. pc'[m] = pc[m] + 1
    BY <1>1 DEF Advance, TypeOK
  <2> QED BY <1>1, <2>1
<1>2. CASE UNCHANGED <<operated, handed, rekeyed, pods>> /\ exists' \subseteq exists
  BY <1>2 DEF Effect
<1>3. ASSUME NEW m \in Managers, Rekey(m) PROVE Goal
  <2>1. SameEffect(pc[m], j)
    BY <1>3 DEF Rekey, At, Object, Effect, SameEffect, nodes
  <2> QED BY <1>1, <1>3, <2>1 DEF Rekey, At
<1>4. ASSUME NEW m \in Managers, Ensure(m) PROVE Goal
  <2>1. SameEffect(pc[m], j) /\ Advance(m)
    BY <1>4 DEF Ensure, At, Object, Effect, SameEffect, nodes
  <2> QED BY <1>1, <1>4, <2>1 DEF Ensure, At
<1>5. ASSUME NEW m \in Managers, CreateCR(m) PROVE Goal
  <2>1. SameEffect(pc[m], j)
    BY <1>5 DEF CreateCR, At, Object, Effect, SameEffect, nodes
  <2> QED BY <1>1, <1>5, <2>1 DEF CreateCR, At
<1>6. ASSUME NEW m \in Managers, UpdateCR(m) PROVE Goal
  <2>1. /\ operated' = operated \ {Object(m)} /\ exists' \subseteq exists
        /\ UNCHANGED <<handed, rekeyed, pods>>
    BY <1>6 DEF UpdateCR, nodes
  <2>2. Program[j].op = "adopt" /\ Program[j].obj = Object(m)
    BY <2>1 DEF Effect
  <2>3. SameEffect(pc[m], j)
    BY <1>6, <2>2 DEF UpdateCR, At, Object, SameEffect
  <2> QED BY <1>1, <1>6, <2>3 DEF UpdateCR, At
<1>7. ASSUME NEW m \in Managers, CreatePod(m) PROVE Goal
  <2>1. Program[j].op = "disable" /\ pods = {}
    BY <1>7 DEF CreatePod, Effect, crs
  <2>2. Advance(m) /\ SameEffect(pc[m], j)
    BY <1>7, <2>1 DEF CreatePod, At, SameEffect
  <2> QED BY <1>1, <1>7, <2>2 DEF CreatePod, At
<1>8. ASSUME NEW m \in Managers, TriggerCR(m) PROVE Goal
  <2>1. SameEffect(pc[m], j)
    BY <1>8 DEF TriggerCR, WithWatchFilter, At, Object, Effect, SameEffect, nodes
  <2> QED BY <1>1, <1>8, <2>1 DEF TriggerCR, At
<1>9. ASSUME NEW m \in Managers,
             \/ NewMigrator(m) \/ ReadCR(m) \/ ReadMissing(m) \/ FindMaster(m)
             \/ Finish(m) \/ Panic(m) \/ Conflict(m) \/ Unreachable(m)
             \/ Fail(m) \/ Crash(m) \/ IdleStep(m)
      PROVE  Goal
  <2>1. CASE IdleStep(m)
    BY <1>2, <2>1, IdleStepShape DEF crs
  <2> QED BY <1>2, <1>9, <2>1 DEF NewMigrator, ReadCR, ReadMissing, FindMaster, Finish,
             Panic, Conflict, Unreachable, Fail, Crash, crs, nodes
<1>10. CASE Environment
  BY <1>2, <1>10, EnvironmentShape
<1>11. CASE UNCHANGED vars
  BY <1>2, <1>11 DEF vars, crs, nodes
<1> HIDE DEF Goal
<1>12. ASSUME NEW m \in Managers, PassStep(m) PROVE Goal
  BY <1>3, <1>4, <1>5, <1>6, <1>7, <1>8, <1>9, <1>12 DEF PassStep
<1>13. CASE \E m \in Managers : PassStep(m) \/ Fail(m) \/ Crash(m) \/ IdleStep(m)
  BY <1>9, <1>12, <1>13
<1> QED BY <1>10, <1>11, <1>13 DEF Next, IdleStep

\* No pass is past the step, and what the step would read is not there.
BlockedInv(i) ==
    /\ TypeOK
    /\ \A m \in Managers : pc[m] <= i
    /\ NothingFrom(i)
    /\ Program[i].op = "read" => Program[i].obj \in Refused \/ Program[i].obj \notin exists

\* Only the step itself would take a pass beyond it.
LEMMA BlockedStep ==
    ASSUME NEW i \in Steps, Impassable(i), BlockedInv(i), [Next]_vars
    PROVE  BlockedInv(i)'
<1> DEFINE o == Program[i].obj
<1>0. TypeOK /\ TypeOK' /\ i \in Nat /\ i >= 1
  BY TypeStep, ProgramFacts DEF BlockedInv
<1>1. ASSUME NEW m \in Managers, pc[m] = i PROVE pc'[m] # i + 1
  <2> SUFFICES ASSUME pc'[m] = i + 1 PROVE FALSE
    OBVIOUS
  <2>0. Program[i].op \in {"read", "ensure"} /\ pc[m] # pc'[m] /\ pc'[m] # 0 /\ pc'[m] # 1
    BY <1>0, <1>1 DEF Impassable
  <2>1. ASSUME NEW n \in Managers, PassStep(n) PROVE n = m
    BY <1>0, <2>0, <2>1
    DEF PassStep, NewMigrator, ReadCR, ReadMissing, Rekey, Ensure, CreateCR, UpdateCR,
        FindMaster, CreatePod, TriggerCR, Finish, Panic, Conflict, Unreachable,
        EndPass, Down, Advance, TypeOK
  <2>2. ASSUME NEW n \in Managers, IdleStep(n) \/ Fail(n) \/ Crash(n) PROVE FALSE
    BY <1>0, <2>0, <2>2
    DEF IdleStep, Reconcile, ReconcileNotFound, Restart, Resync, SyncCache, Fail, Crash,
        EndPass, Down, TypeOK, vars, pass
  <2>3. ~Environment /\ ~UNCHANGED vars
    BY <1>0, <2>0, EnvironmentShape DEF vars, pass
  <2>4. PassStep(m)
    BY <2>1, <2>2, <2>3 DEF Next, IdleStep
  <2>5. ReadCR(m) \/ Ensure(m)
    BY <1>0, <1>1, <2>0, <2>4
    DEF PassStep, NewMigrator, ReadMissing, Rekey, CreateCR, UpdateCR,
        FindMaster, CreatePod, TriggerCR, Finish, Panic, Conflict, Unreachable,
        EndPass, Down, At, TypeOK
  <2>6. CASE ReadCR(m)
    <3>1. Program[i].op = "read" /\ Readable(m, o)
      BY <1>1, <2>6 DEF ReadCR, At, Object
    <3> QED BY <3>1 DEF Readable, Impassable, BlockedInv
  <2>7. CASE Ensure(m)
    <3>1. Program[i].op = "ensure" /\ o \in Refused
      BY <1>1, <2>7 DEF Ensure, At, Impassable
    <3> QED BY <1>0, <1>1, <2>0, <2>7, <3>1 DEF Ensure, EndPass, Object, TypeOK
  <2> QED BY <2>5, <2>6, <2>7
<1>2. ASSUME NEW m \in Managers PROVE pc'[m] <= i
  <2>1. pc[m] \in Nat /\ pc[m] <= i
    BY <1>0 DEF TypeOK, BlockedInv
  <2>2. \/ pc'[m] \in {0, 1, pc[m]}
        \/ pc'[m] = pc[m] + 1
    BY <1>0, StepShape DEF PcMoves
  <2> QED BY <1>0, <1>1, <2>1, <2>2
<1>3. NothingFrom(i)'
  <2> SUFFICES ASSUME NEW j \in Steps, i <= j, Program[j].obj \notin Existing,
                      \A k \in Steps : SameEffect(k, j) => i <= k,
                      Effect(j)'
               PROVE  FALSE
    BY DEF NothingFrom
  <2>1. ~Effect(j)
    BY DEF BlockedInv, NothingFrom
  <2>2. PICK m \in Managers, k \in Steps :
           pc[m] = k /\ pc'[m] = k + 1 /\ SameEffect(k, j)
    BY <1>0, <2>1, EffectShape
  <2>3. k \in Nat /\ i <= k
    BY <2>2, ProgramFacts
  <2> QED BY <1>0, <1>2, <2>2, <2>3
<1>4. ASSUME Program[i].op = "read", o \notin Refused PROVE o \notin exists'
  <2>1. /\ o \in Ensured \ Existing
        /\ \A j \in StepsOf("ensure") \cup StepsOf("create") :
              Program[j].obj = o => i <= j
    BY <1>4 DEF Impassable
  <2>2. PICK j \in StepsOf("ensure") : Program[j].obj = o
    BY <2>1 DEF Ensured, ObjectsOf
  <2>3. \A k \in Steps : SameEffect(k, j) => i <= k
    BY <2>1, <2>2 DEF SameEffect, StepsOf
  <2>4. ~Effect(j)'
    BY <1>3, <2>1, <2>2, <2>3 DEF NothingFrom, StepsOf
  <2> QED BY <2>2, <2>4 DEF Effect, StepsOf
<1> QED BY <1>0, <1>2, <1>3, <1>4 DEF BlockedInv

LEMMA BlockedInit ==
    ASSUME NEW i \in Steps, Impassable(i), Init
    PROVE  BlockedInv(i)
<1>1. TypeOK /\ \A m \in Managers : pc[m] <= i
  BY TypeInit, ProgramFacts DEF Init
<1>2. Ensured \cap Cached = {} /\ Created \cap Cached = {}
  BY ProgramAssumption DEF Cached, Fields
<1>3. NothingFrom(i)
  BY <1>2, ObjectFacts DEF Init, NothingFrom, Effect
<1>4. Program[i].op = "read" => Program[i].obj \in Refused \/ Program[i].obj \notin exists
  BY <1>2 DEF Init, Impassable
<1> QED BY <1>1, <1>3, <1>4 DEF BlockedInv

\* Where the code always fails at a step, no pass of any manager ever gets past
\* it, restarts and retries included, and what only later steps do is never done.
THEOREM ImpassableStays ==
    ASSUME NEW i \in Steps, Impassable(i)
    PROVE  Spec => []((\A m \in Managers : pc[m] <= i) /\ NothingFrom(i))
<1>1. Init => BlockedInv(i)
  BY BlockedInit
<1>2. BlockedInv(i) /\ [Next]_vars => BlockedInv(i)'
  BY BlockedStep
<1>3. BlockedInv(i) => (\A m \in Managers : pc[m] <= i) /\ NothingFrom(i)
  BY DEF BlockedInv
<1> QED BY <1>1, <1>2, <1>3, PTL DEF Spec

-----------------------------------------------------------------------------
(* What cannot be done twice. *)

IdleInv == TypeOK /\ \A m \in Managers : pc[m] = 0 => held[m] = Nothing

\* What ends a pass drops its copies, and a write gives a manager none.
LEMMA IdleHoldsNothing == IdleInv /\ [Next]_vars => IdleInv'
<1> SUFFICES ASSUME IdleInv, [Next]_vars, NEW m \in Managers, pc'[m] = 0
             PROVE  held'[m] = Nothing
  BY TypeStep DEF IdleInv
<1>0. TypeOK /\ TypeOK' /\ HeldMoves
  BY TypeStep, HeldShape DEF IdleInv
<1>1. CASE pc[m] = 0
  <2>1. held[m] = Nothing
    BY <1>1 DEF IdleInv
  <2>2. ASSUME NEW f \in Fields PROVE held'[m][f] = "nil"
    BY <1>0, <1>1, <2>1, ProgramFacts DEF HeldMoves, Nothing
  <2> QED BY <1>0, <2>2 DEF TypeOK, Nothing
<1>2. CASE pc[m] # 0
  <2>1. ASSUME NEW n \in Managers, PassStep(n) PROVE held'[m] = Nothing
    BY <1>0, <1>2, <2>1
    DEF PassStep, NewMigrator, ReadCR, ReadMissing, Rekey, Ensure, CreateCR, UpdateCR,
        FindMaster, CreatePod, TriggerCR, Finish, Panic, Conflict, Unreachable,
        EndPass, Down, Advance, TypeOK
  <2>2. ASSUME NEW n \in Managers, IdleStep(n) \/ Fail(n) \/ Crash(n)
        PROVE  held'[m] = Nothing
    BY <1>0, <1>2, <2>2
    DEF IdleStep, Reconcile, ReconcileNotFound, Restart, Resync, SyncCache, Fail, Crash,
        EndPass, Down, TypeOK, vars, pass
  <2>3. ~Environment /\ ~UNCHANGED vars
    BY <1>0, <1>2, EnvironmentShape DEF vars, pass
  <2> QED BY <2>1, <2>2, <2>3 DEF Next, IdleStep
<1> QED BY <1>1, <1>2

\* Every manager is at or before the label of a CR that it has not created.
AllBarred(i) == \A m \in Managers : pc[m] <= i /\ Barred(m, Program[i].obj)

LEMMA AllBarredStep ==
    ASSUME TypeOK, [Next]_vars, NEW i \in TriggerSteps, Program[i].obj \in Created,
           AllBarred(i)
    PROVE  AllBarred(i)'
<1> SUFFICES ASSUME NEW m \in Managers PROVE pc'[m] <= i /\ Barred(m, Program[i].obj)'
  BY DEF AllBarred
<1>0. i \in Nat /\ i >= 1 /\ pc[m] \in Nat /\ pc[m] <= i
  BY ProgramFacts DEF TypeOK, AllBarred, TriggerSteps, StepsOf
<1>1. /\ Barred(m, Program[i].obj)'
      /\ pc[m] = i => pc'[m] # i + 1
  BY BarredStep DEF AllBarred
<1>2. \/ pc'[m] \in {0, 1, pc[m]}
      \/ pc'[m] = pc[m] + 1
  BY StepShape DEF PcMoves
<1>3. pc'[m] <= i
  BY <1>0, <1>1, <1>2
<1> QED BY <1>1, <1>3

LEMMA RestIsBarred ==
    ASSUME IdleInv, NEW i \in TriggerSteps, Program[i].obj \in Created \cap exists,
           \A m \in Managers : pc[m] = 0
    PROVE  AllBarred(i)
<1>1. i \in Nat /\ Program[i].obj \in Fields
  BY ProgramFacts DEF TriggerSteps, StepsOf, Fields
<1>2. ASSUME NEW m \in Managers PROVE held[m][Program[i].obj] = "nil"
  BY <1>1 DEF IdleInv, Nothing
<1> QED BY <1>1, <1>2 DEF AllBarred, Barred

\* Once a CR is created and no pass is under way, no pass of any manager ever gets
\* past its label: a hand-over that is complete is never run to its end again, and
\* one that is not is never completed.
THEOREM HandedOverOnce ==
    ASSUME NEW i \in TriggerSteps, Program[i].obj \in Created
    PROVE  Spec => []((\A m \in Managers : pc[m] = 0) /\ Program[i].obj \in exists
                         => [](\A m \in Managers : pc[m] <= i))
<1>1. Init => IdleInv
  BY TypeInit DEF Init, IdleInv
<1>2. IdleInv /\ [Next]_vars => IdleInv'
  BY IdleHoldsNothing
<1>3. IdleInv => ((\A m \in Managers : pc[m] = 0) /\ Program[i].obj \in exists
                    => AllBarred(i))
  BY RestIsBarred
<1>4. IdleInv /\ AllBarred(i) /\ [Next]_vars => AllBarred(i)'
  BY AllBarredStep DEF IdleInv
<1>5. AllBarred(i) => \A m \in Managers : pc[m] <= i
  BY DEF AllBarred
<1> QED BY <1>1, <1>2, <1>3, <1>4, <1>5, PTL DEF Spec

-----------------------------------------------------------------------------
(* Azure's program, step by step. *)

LEMMA AzureSteps ==
    ASSUME Program = Azure!AzureProgram
    PROVE  /\ Steps = 1 .. 25
           /\ Program[1].op = "connect" /\ Program[1].obj = "WorkloadCluster"
           /\ Program[2].op = "read" /\ Program[2].obj = "EncryptionSecret"
           /\ Program[3].op = "read" /\ Program[3].obj = "AzureConfig"
           /\ Program[4].op = "read" /\ Program[4].obj = "Cluster"
           /\ Program[5].op = "read" /\ Program[5].obj = "AzureCluster"
           /\ Program[6].op = "read" /\ Program[6].obj = "MachinePools"
           /\ Program[7].op = "read" /\ Program[7].obj = "AzureMachinePools"
           /\ Program[8].op = "read" /\ Program[8].obj = "Release"
           /\ Program[9].op = "ensure" /\ Program[9].obj = "EncryptionConfigSecret"
           /\ Program[10].op = "ensure" /\ Program[10].obj = "ProxyConfigSecret"
           /\ Program[11].op = "create" /\ Program[11].obj = "KubeadmControlPlane"
           /\ Program[12].op = "create" /\ Program[12].obj = "MasterAzureMachineTemplate"
           /\ Program[13].op = "create" /\ Program[13].obj = "WorkersKubeadmConfigTemplate"
           /\ Program[14].op = "create" /\ Program[14].obj = "WorkersAzureMachineTemplate"
           /\ Program[15].op = "create" /\ Program[15].obj = "WorkersMachineDeployment"
           /\ Program[16].op = "adopt" /\ Program[16].obj = "Cluster"
           /\ Program[17].op = "adopt" /\ Program[17].obj = "AzureCluster"
           /\ Program[18].op = "disable" /\ Program[18].obj = "Pods"
           /\ Program[19].op = "trigger" /\ Program[19].obj = "Cluster"
           /\ Program[20].op = "trigger" /\ Program[20].obj = "WorkersMachineDeployment"
           /\ Program[21].op = "trigger" /\ Program[21].obj = "MasterAzureMachineTemplate"
           /\ Program[22].op = "trigger" /\ Program[22].obj = "WorkersAzureMachineTemplate"
           /\ Program[23].op = "trigger" /\ Program[23].obj = "KubeadmControlPlane"
           /\ Program[24].op = "trigger" /\ Program[24].obj = "WorkersKubeadmConfigTemplate"
           /\ Program[25].op = "trigger" /\ Program[25].obj = "AzureCluster"
<1> USE DEF Azure!AzureProgram, Azure!Prepare, Azure!readCRs,
            Azure!prepareMissingCRs, Azure!updateCRs, Azure!triggerMigration
<1>1. Steps = 1 .. 25
  BY DEF Steps
<1>2. /\ Program[1] = Azure!NewMigrator
      /\ Program[2] = Azure!readEncryptionSecret
      /\ Program[3] = Azure!readAzureConfig
      /\ Program[4] = Azure!readCluster
      /\ Program[5] = Azure!readAzureCluster
      /\ Program[6] = Azure!readMachinePools
      /\ Program[7] = Azure!readAzureMachinePools
      /\ Program[8] = Azure!readRelease
  OBVIOUS
<1>3. /\ Program[9] = Azure!createEncryptionConfigSecret
      /\ Program[10] = Azure!createProxyConfigSecret
      /\ Program[11] = Azure!createKubeadmControlPlane
      /\ Program[12] = Azure!createMasterAzureMachineTemplate
      /\ Program[13] = Azure!createWorkersKubeadmConfigTemplate
      /\ Program[14] = Azure!createWorkersAzureMachineTemplate
      /\ Program[15] = Azure!createWorkersMachineDeployment
  OBVIOUS
<1>4. /\ Program[16] = Azure!updateCluster
      /\ Program[17] = Azure!updateAzureCluster
      /\ Program[18] = Azure!stopOldMasterComponents
  OBVIOUS
<1>5. /\ Program[19] = Azure!HandOver("Cluster")
      /\ Program[20] = Azure!HandOver("WorkersMachineDeployment")
      /\ Program[21] = Azure!HandOver("MasterAzureMachineTemplate")
      /\ Program[22] = Azure!HandOver("WorkersAzureMachineTemplate")
      /\ Program[23] = Azure!HandOver("KubeadmControlPlane")
      /\ Program[24] = Azure!HandOver("WorkersKubeadmConfigTemplate")
      /\ Program[25] = Azure!HandOver("AzureCluster")
  OBVIOUS
<1> QED BY <1>1, <1>2, <1>3, <1>4, <1>5
        DEF Azure!Call, Azure!NewMigrator, Azure!readEncryptionSecret,
            Azure!readAzureConfig, Azure!readCluster, Azure!readAzureCluster,
            Azure!readMachinePools, Azure!readAzureMachinePools,
            Azure!readRelease, Azure!createEncryptionConfigSecret,
            Azure!createProxyConfigSecret, Azure!createKubeadmControlPlane,
            Azure!createMasterAzureMachineTemplate,
            Azure!createWorkersKubeadmConfigTemplate,
            Azure!createWorkersAzureMachineTemplate,
            Azure!createWorkersMachineDeployment, Azure!updateCluster,
            Azure!updateAzureCluster, Azure!stopOldMasterComponents,
            Azure!HandOver

LEMMA AzureKinds ==
    ASSUME Program = Azure!AzureProgram
    PROVE  /\ \A i \in Steps :
                 /\ i \in Nat
                 /\ Program[i].op \in {"connect", "read", "ensure"} => i <= 10
                 /\ Program[i].op = "create" => 11 <= i /\ i <= 15
                 /\ Program[i].op \in {"adopt", "disable", "trigger"} => 16 <= i
                 /\ Program[i].op = "disable" => i = 18
                 /\ Program[i].op # "rekey"
           /\ StepsOf("create") = 11 .. 15
           /\ StepsOf("adopt") = {16, 17}
           /\ StepsOf("ensure") = {9, 10}
           /\ StepsOf("trigger") = 19 .. 25
<1>1. ASSUME NEW i \in Steps
      PROVE  \/ i \in {1, 2, 3, 4, 5, 6, 7, 8, 9, 10, 11, 12, 13}
             \/ i \in {14, 15, 16, 17, 18, 19, 20, 21, 22, 23, 24, 25}
  BY AzureSteps
<1>2. \A i \in Steps :
         /\ i \in Nat
         /\ Program[i].op = "connect" <=> i = 1
         /\ Program[i].op = "read" <=> 2 <= i /\ i <= 8
         /\ Program[i].op = "ensure" <=> i \in {9, 10}
         /\ Program[i].op = "create" <=> 11 <= i /\ i <= 15
         /\ Program[i].op = "adopt" <=> i \in {16, 17}
         /\ Program[i].op = "disable" <=> i = 18
         /\ Program[i].op = "trigger" <=> 19 <= i
         /\ Program[i].op # "rekey"
  BY <1>1, AzureSteps
<1>3. Steps = 1 .. 25
  BY AzureSteps
<1> QED BY <1>2, <1>3 DEF StepsOf

\* What the migration of an Azure cluster is about.
LEMMA AzureObjects ==
    ASSUME Program = Azure!AzureProgram
    PROVE  /\ Adopted = {"Cluster", "AzureCluster"}
           /\ Created = {"KubeadmControlPlane", "MasterAzureMachineTemplate",
                         "WorkersKubeadmConfigTemplate", "WorkersAzureMachineTemplate",
                         "WorkersMachineDeployment"}
           /\ Ensured = {"EncryptionConfigSecret", "ProxyConfigSecret"}
           /\ HandedOver = Adopted \cup Created
<1>1. /\ StepsOf("create") = {11, 12, 13, 14, 15}
      /\ StepsOf("adopt") = {16, 17}
      /\ StepsOf("ensure") = {9, 10}
      /\ StepsOf("trigger") = {19, 20, 21, 22, 23, 24, 25}
  BY AzureKinds
<1>2. /\ Adopted = {Program[16].obj, Program[17].obj}
      /\ Ensured = {Program[9].obj, Program[10].obj}
      /\ Created = {Program[11].obj, Program[12].obj, Program[13].obj, Program[14].obj,
                    Program[15].obj}
      /\ HandedOver = {Program[19].obj, Program[20].obj, Program[21].obj,
                       Program[22].obj, Program[23].obj, Program[24].obj,
                       Program[25].obj}
  BY <1>1 DEF Adopted, Created, Ensured, HandedOver, ObjectsOf
<1> QED BY <1>2, AzureSteps

\* The order of azureMigrator's methods is the one the hand-over relies on.
LEMMA AzureOrder ==
    ASSUME Program = Azure!AzureProgram
    PROVE  CreatesThenHandsOver /\ MissingFirst
<1>1. \A c \in StepsOf("create"), i \in Steps :
          /\ Program[i].op \in {"connect", "read", "rekey", "ensure"} => i < c
          /\ Program[i].op \in {"adopt", "disable", "trigger"} => c < i
  BY AzureKinds
<1>2. \A b, c \in StepsOf("create") : Program[b].obj = Program[c].obj => b = c
  <2>1. StepsOf("create") = {11, 12, 13, 14, 15}
    BY AzureKinds
  <2> QED BY <2>1, AzureSteps
<1>3. \A i, j \in StepsOf("disable") : i = j
  BY AzureKinds DEF StepsOf
<1>4. /\ Created # {} /\ Created \cap Ensured = {}
      /\ Created \subseteq HandedOver /\ HandedOver \subseteq Adopted \cup Created
  BY AzureObjects
<1>5. MissingFirst
  BY AzureKinds DEF MissingFirst
<1> QED BY <1>1, <1>2, <1>3, <1>4, <1>5 DEF CreatesThenHandsOver

\* No legacy CR of an Azure cluster is rewritten before every secret and CR that
\* upstream needs is there.
THEOREM AzureReleasedWhenReady ==
    ASSUME Program = Azure!AzureProgram
    PROVE  Spec => []ReleasedWhenReady
  BY AzureOrder, ReleaseIsReady

\* One manager's undisturbed migration of an Azure cluster is all or nothing.
THEOREM AzureIsAllOrNothing ==
    ASSUME Program = Azure!AzureProgram, OneManager, LabelsDefaulted
    PROVE  Spec => []AllOrNothing
  BY AzureOrder, UndisturbedIsAllOrNothing

\* The AzureCluster is the last CR upstream controllers get: with it they have
\* all, and all that they need is there.
THEOREM AzureClusterIsLast ==
    ASSUME Program = Azure!AzureProgram
    PROVE  Spec => []("AzureCluster" \in handed =>
                        /\ handed = HandedOver
                        /\ operated = {} /\ controlPlaneRef # "none" /\ pods # {}
                        /\ Created \cup Ensured \subseteq exists)
<1>1. HandoverInv =>
         ("AzureCluster" \in handed =>
            /\ handed = HandedOver
            /\ operated = {} /\ controlPlaneRef # "none" /\ pods # {}
            /\ Created \cup Ensured \subseteq exists)
  <2> SUFFICES ASSUME HandoverInv, "AzureCluster" \in handed
               PROVE  /\ handed = HandedOver
                      /\ operated = {} /\ controlPlaneRef # "none" /\ pods # {}
                      /\ Created \cup Ensured \subseteq exists
    OBVIOUS
  <2>1. 25 \in TriggerSteps /\ Program[25].obj = "AzureCluster"
    BY AzureKinds, AzureSteps DEF TriggerSteps
  <2>2. \A j \in Steps : j < 25 => Done(j)
    BY <2>1 DEF HandoverInv, Justified
  <2>3. \A j \in StepsOf("trigger") : Program[j].obj \in handed
    <3> SUFFICES ASSUME NEW j \in StepsOf("trigger"), j # 25 PROVE Program[j].obj \in handed
      BY <2>1
    <3>1. j \in Steps /\ j < 25 /\ Program[j].op = "trigger"
      BY AzureKinds DEF StepsOf
    <3> QED BY <2>2, <3>1 DEF Done
  <2>4. handed = HandedOver
    BY <2>3 DEF HandedOver, ObjectsOf, HandoverInv, TypeOK
  <2>5. 16 \in Steps /\ 17 \in Steps /\ 18 \in Steps
    BY AzureSteps
  <2>6. Done(16) /\ Done(17) /\ Done(18)
    BY <2>2, <2>5
  <2>7. operated = {} /\ controlPlaneRef # "none" /\ pods # {}
    <3>1. "Cluster" \notin operated /\ controlPlaneRef # "none"
      BY <2>6, AzureSteps DEF Done
    <3>2. "AzureCluster" \notin operated
      BY <2>6, AzureSteps DEF Done
    <3>3. pods # {}
      BY <2>6, AzureSteps DEF Done
    <3>4. operated \subseteq {"Cluster", "AzureCluster"}
      BY AzureObjects DEF HandoverInv, TypeOK
    <3> QED BY <3>1, <3>2, <3>3, <3>4
  <2>8. ASSUME NEW j \in StepsOf("create") \cup StepsOf("ensure")
        PROVE  Program[j].obj \in exists
    <3>1. j \in Steps /\ j < 25 /\ Program[j].op \in {"create", "ensure"}
      BY AzureKinds DEF StepsOf
    <3> QED BY <2>2, <3>1 DEF Done
  <2>9. Created \cup Ensured \subseteq exists
    BY <2>8 DEF Created, Ensured, ObjectsOf
  <2> QED BY <2>4, <2>7, <2>9
<1> QED BY <1>1, HandoverInvariant, PTL

\* A cluster with one legacy master has the pod that disables it before the
\* hand-over, as the README has it of all masters: a pass creates one and goes on.
THEOREM AzureDisablesTheOnlyMaster ==
    ASSUME Program = Azure!AzureProgram, NEW n, Masters = {n}
    PROVE  Spec => []DisabledBeforeHandover
<1>1. TypeOK /\ HandoverAfterPrepare => DisabledBeforeHandover
  <2> SUFFICES ASSUME TypeOK, HandoverAfterPrepare, handed # {} PROVE pods = Masters
    BY DEF DisabledBeforeHandover
  <2>1. 18 \in Steps \ TriggerSteps /\ Program[18].op = "disable"
    BY AzureKinds, AzureSteps DEF TriggerSteps, StepsOf
  <2>2. pods # {} /\ pods \subseteq {n}
    BY <2>1 DEF HandoverAfterPrepare, Done, TypeOK
  <2> QED BY <2>2
<1> QED BY <1>1, TypeCorrect, HandoverIsPrepared, PTL

\* If the API server makes no labels, as no template has any, the Cluster is the
\* only CR upstream controllers ever get, whatever restarts and retries.
THEOREM AzureStopsAtCluster ==
    ASSUME Program = Azure!AzureProgram, Labelled = {}
    PROVE  Spec => [](handed \subseteq {"Cluster"})
<1>1. TypeOK /\ LabelsNeeded => handed \subseteq {"Cluster"}
  <2> SUFFICES ASSUME TypeOK, LabelsNeeded, NEW o \in handed, o # "Cluster" PROVE FALSE
    OBVIOUS
  <2>1. PICK i \in TriggerSteps : Program[i].obj = o
    BY DEF TypeOK, HandedOver, ObjectsOf, TriggerSteps
  <2>2. 20 \in TriggerSteps /\ Program[20].obj \in Created
    BY AzureKinds, AzureSteps, AzureObjects DEF TriggerSteps
  <2>3. i # 19 /\ i \in 19 .. 25
    BY <2>1, AzureKinds, AzureSteps DEF TriggerSteps
  <2>4. 20 <= i
    BY <2>3
  <2> QED BY <2>1, <2>2, <2>4 DEF LabelsNeeded
<1> QED BY <1>1, TypeCorrect, HandoverNeedsLabels, PTL

\* Once an Azure cluster has its WorkersMachineDeployment and is between passes, the
\* label of this CR, the second of seven, is as far as any pass ever gets.
THEOREM AzureIsHandedOverOnce ==
    ASSUME Program = Azure!AzureProgram
    PROVE  Spec => []((\A m \in Managers : pc[m] = 0)
                         /\ "WorkersMachineDeployment" \in exists
                         => [](\A m \in Managers : pc[m] <= 20))
<1>1. /\ 20 \in TriggerSteps /\ Program[20].obj = "WorkersMachineDeployment"
      /\ Program[20].obj \in Created
  BY AzureKinds, AzureSteps, AzureObjects DEF TriggerSteps
<1>2. Init => IdleInv
  BY TypeInit DEF Init, IdleInv
<1>3. IdleInv /\ [Next]_vars => IdleInv'
  BY IdleHoldsNothing
<1>4. IdleInv => ((\A m \in Managers : pc[m] = 0)
                    /\ "WorkersMachineDeployment" \in exists => AllBarred(20))
  BY <1>1, RestIsBarred
<1>5. IdleInv /\ AllBarred(20) /\ [Next]_vars => AllBarred(20)'
  BY <1>1, AllBarredStep DEF IdleInv
<1>6. AllBarred(20) => \A m \in Managers : pc[m] <= 20
  BY DEF AllBarred
<1> QED BY <1>2, <1>3, <1>4, <1>5, <1>6, PTL DEF Spec

-----------------------------------------------------------------------------
(* AWS's program, step by step. *)

LEMMA AWSSteps ==
    ASSUME Program = AWS!AWSProgram
    PROVE  /\ Steps = 1 .. 25
           /\ Program[1].op = "connect" /\ Program[1].obj = "WorkloadCluster"
           /\ Program[2].op = "read" /\ Program[2].obj = "CAData"
           /\ Program[3].op = "ensure" /\ Program[3].obj = "CASecret"
           /\ Program[4].op = "rekey" /\ Program[4].obj = "EtcdSecret"
           /\ Program[5].op = "rekey" /\ Program[5].obj = "ServiceAccountSecret"
           /\ Program[6].op = "read" /\ Program[6].obj = "EncryptionConfigSecret"
           /\ Program[7].op = "read" /\ Program[7].obj = "Cluster"
           /\ Program[8].op = "read" /\ Program[8].obj = "AWSCluster"
           /\ Program[9].op = "read" /\ Program[9].obj = "AWSControlPlane"
           /\ Program[10].op = "read" /\ Program[10].obj = "G8sControlPlane"
           /\ Program[11].op = "read" /\ Program[11].obj = "AWSMachineDeployments"
           /\ Program[12].op = "read" /\ Program[12].obj = "Release"
           /\ Program[13].op = "read" /\ Program[13].obj = "AWSClients"
           /\ Program[14].op = "ensure" /\ Program[14].obj = "EncryptionConfigSecret"
           /\ Program[15].op = "ensure" /\ Program[15].obj = "CustomFilesSecret"
           /\ Program[16].op = "create" /\ Program[16].obj = "KubeadmControlPlane"
           /\ Program[17].op = "ensure" /\ Program[17].obj = "MasterAWSMachineTemplate"
           /\ Program[18].op = "ensure"
           /\ Program[19].op = "ensure"
           /\ Program[20].op = "ensure" /\ Program[20].obj = AWS!OfPool("AWSMachinePool", "-a")
           /\ Program[21].op = "ensure" /\ Program[21].obj = AWS!OfPool("AWSMachinePool", "-b")
           /\ Program[22].op = "ensure"
           /\ Program[23].op = "ensure"
           /\ Program[24].op = "adopt" /\ Program[24].obj = "Cluster"
           /\ Program[25].op = "adopt" /\ Program[25].obj = "AWSCluster"
<1> USE DEF AWS!AWSProgram, AWS!Prepare, AWS!migrateCertsSecrets, AWS!createCASecrets,
            AWS!readCRs, AWS!prepareMissingCRs, AWS!ForEachPool, AWS!updateCRs,
            AWS!triggerMigration
<1>1. Steps = 1 .. 25
  BY DEF Steps
<1>2. /\ Program[1] = AWS!NewMigrator
      /\ Program[2] = AWS!getCAData
      /\ Program[3] = AWS!Call("ensure", "CASecret", {"CAData"})
      /\ Program[4] = AWS!Call("rekey", "EtcdSecret", {"CAData"})
      /\ Program[5] = AWS!moveCertDataToCAPIKeys
  OBVIOUS
<1>3. /\ Program[6] = AWS!readEncryptionSecret
      /\ Program[7] = AWS!readCluster
      /\ Program[8] = AWS!readAWSCluster
      /\ Program[9] = AWS!readAWSControlPlane
      /\ Program[10] = AWS!readG8sControlPlane
      /\ Program[11] = AWS!readAWSMachineDeployments
      /\ Program[12] = AWS!readRelease
      /\ Program[13] = AWS!createAWSApiClients
  OBVIOUS
<1>4. /\ Program[14] = AWS!createEncryptionConfigSecret
      /\ Program[15] = AWS!createCustomFilesSecret
      /\ Program[16] = AWS!createKubeadmControlPlane
      /\ Program[17] = AWS!createMasterAWSMachineTemplate
  OBVIOUS
<1>5. /\ Program[18] = AWS!createWorkersKubeadmConfigTemplate("-a")
      /\ Program[19] = AWS!createWorkersKubeadmConfigTemplate("-b")
      /\ Program[20] = AWS!createWorkersAWSMachinePools("-a")
      /\ Program[21] = AWS!createWorkersAWSMachinePools("-b")
      /\ Program[22] = AWS!createWorkersMachinePools("-a")
      /\ Program[23] = AWS!createWorkersMachinePools("-b")
  OBVIOUS
<1>6. /\ Program[24] = AWS!updateCluster
      /\ Program[25] = AWS!updateAWSCluster
  OBVIOUS
<1> QED BY <1>1, <1>2, <1>3, <1>4, <1>5, <1>6
        DEF AWS!Call, AWS!createWorkersKubeadmConfigTemplate,
            AWS!createWorkersAWSMachinePools, AWS!createWorkersMachinePools,
            AWS!NewMigrator, AWS!getCAData, AWS!moveCertDataToCAPIKeys,
            AWS!readEncryptionSecret, AWS!readCluster, AWS!readAWSCluster,
            AWS!readAWSControlPlane, AWS!readG8sControlPlane,
            AWS!readAWSMachineDeployments, AWS!readRelease, AWS!createAWSApiClients,
            AWS!createEncryptionConfigSecret, AWS!createCustomFilesSecret,
            AWS!createKubeadmControlPlane, AWS!createMasterAWSMachineTemplate,
            AWS!updateCluster, AWS!updateAWSCluster

LEMMA AWSKinds ==
    ASSUME Program = AWS!AWSProgram
    PROVE  /\ \A i \in Steps :
                 /\ i \in Nat
                 /\ i = 1 <=> Program[i].op = "connect"
                 /\ Program[i].op \in {"rekey", "ensure", "create"} => i <= 23
                 /\ Program[i].op = "ensure" /\ i < 6 => i = 3
                 /\ Program[i].op = "create" => i = 16
                 /\ Program[i].op = "adopt" => 24 <= i
                 /\ Program[i].op \notin {"disable", "trigger"}
<1>1. ASSUME NEW i \in Steps
      PROVE  \/ i \in {1, 2, 3, 4, 5, 6, 7, 8, 9, 10, 11, 12, 13}
             \/ i \in {14, 15, 16, 17, 18, 19, 20, 21, 22, 23, 24, 25}
  BY AWSSteps
<1> QED BY <1>1, AWSSteps

\* No legacy CR of an AWS cluster is rewritten before the certificates, the
\* secrets and the CRs that upstream needs are there.
THEOREM AWSReleasedWhenReady ==
    ASSUME Program = AWS!AWSProgram
    PROVE  Spec => []ReleasedWhenReady
<1>1. MissingFirst
  <2> SUFFICES ASSUME NEW i \in StepsOf("adopt"), NEW j \in Steps,
                      Program[j].op \in {"rekey", "ensure", "create"}
               PROVE  j < i
    BY DEF MissingFirst
  <2>1. i \in Nat /\ 24 <= i /\ j \in Nat /\ j <= 23
    BY AWSKinds DEF StepsOf
  <2> QED BY <2>1
<1> QED BY <1>1, ReleaseIsReady

\* Each thing that a pass fails at as the code stands comes before the rewriting
\* of the legacy CRs.
LEMMA AWSRefusalsComeFirst ==
    ASSUME Program = AWS!AWSProgram, NEW o \in AWS!Refusals
    PROVE  \E i \in Steps : /\ i <= 23 /\ Program[i].obj = o
                            /\ Program[i].op \in {"read", "ensure"}
<1> DEFINE Here(i) == /\ i \in Steps /\ i <= 23 /\ Program[i].obj = o
                      /\ Program[i].op \in {"read", "ensure"}
<1>1. \/ o \in {"CAData", "CASecret", "AWSCluster", "AWSControlPlane"}
      \/ o \in {"G8sControlPlane", "AWSMachineDeployments", "Release"}
      \/ o \in {"MasterAWSMachineTemplate", AWS!OfPool("AWSMachinePool", "-a"),
                AWS!OfPool("AWSMachinePool", "-b")}
  BY DEF AWS!Refusals, AWS!Unregistered, AWS!Misnamed, AWS!Unstorable
<1>2. CASE o \in {"CAData", "CASecret", "AWSCluster", "AWSControlPlane"}
  <2>1. Here(2) \/ Here(3) \/ Here(8) \/ Here(9)
    BY <1>2, AWSSteps
  <2> QED BY <2>1
<1>3. CASE o \in {"G8sControlPlane", "AWSMachineDeployments", "Release"}
  <2>1. Here(10) \/ Here(11) \/ Here(12)
    BY <1>3, AWSSteps
  <2> QED BY <2>1
<1>4. CASE o \in {"MasterAWSMachineTemplate", AWS!OfPool("AWSMachinePool", "-a"),
                  AWS!OfPool("AWSMachinePool", "-b")}
  <2>1. Here(17) \/ Here(20) \/ Here(21)
    BY <1>4, AWSSteps
  <2> QED BY <2>1
<1> QED BY <1>1, <1>2, <1>3, <1>4

\* As long as a single one of the calls that fail as the code stands is not mended,
\* an AWS cluster stays the legacy operator's: no pass of any manager, whatever
\* retries and restarts there are, rewrites a legacy CR.
THEOREM AWSKeepsItsOperator ==
    ASSUME Program = AWS!AWSProgram, AWS!Refusals \cap Refused # {}
    PROVE  Spec => [](operated = Adopted /\ handed = {})
<1>1. PICK i \in Steps : i <= 23 /\ Impassable(i)
  <2>1. PICK o \in AWS!Refusals : o \in Refused
    OBVIOUS
  <2> QED BY <2>1, AWSRefusalsComeFirst DEF Impassable
<1>2. TypeOK /\ NothingFrom(i) => operated = Adopted /\ handed = {}
  <2> SUFFICES ASSUME TypeOK, NothingFrom(i) PROVE operated = Adopted /\ handed = {}
    OBVIOUS
  <2>1. ASSUME NEW o \in Adopted PROVE o \in operated
    <3>1. PICK j \in Steps : Program[j].op = "adopt" /\ Program[j].obj = o
      BY DEF Adopted, ObjectsOf, StepsOf
    <3>2. ASSUME NEW k \in Steps, k = j \/ SameEffect(k, j) PROVE i <= k
      <4>1. Program[k].op = "adopt"
        BY <3>1, <3>2 DEF SameEffect
      <4>2. k \in Nat /\ 24 <= k
        BY <4>1, AWSKinds
      <4>3. i \in Nat
        BY AWSKinds
      <4> QED BY <1>1, <4>2, <4>3
    <3>3. o \notin Existing
      BY ProgramAssumption, EnvironmentAssumption
    <3> QED BY <3>1, <3>2, <3>3 DEF NothingFrom, Effect
  <2>2. handed = {}
    BY AWSKinds DEF TypeOK, HandedOver, ObjectsOf, StepsOf
  <2> QED BY <2>1, <2>2 DEF TypeOK
<1>3. Init => BlockedInv(i)
  BY <1>1, BlockedInit
<1>4. BlockedInv(i) /\ [Next]_vars => BlockedInv(i)'
  BY <1>1, BlockedStep
<1>5. BlockedInv(i) => TypeOK /\ NothingFrom(i)
  BY DEF BlockedInv
<1> QED BY <1>2, <1>3, <1>4, <1>5, PTL DEF Spec

\* While the CA cannot be read from Vault, which getCAData never can as it takes
\* the strings of the answer for bytes, no pass does anything to the cluster.
THEOREM AWSNeedsTheCA ==
    ASSUME Program = AWS!AWSProgram, "CAData" \in Refused
    PROVE  Spec => [](/\ operated = Adopted /\ handed = {} /\ rekeyed = {}
                      /\ exists \cap (Created \cup Ensured) \subseteq Existing)
<1>1. 2 \in Steps /\ Impassable(2)
  BY AWSSteps DEF Impassable
<1>2. TypeOK /\ NothingFrom(2)
      => /\ operated = Adopted /\ handed = {} /\ rekeyed = {}
         /\ exists \cap (Created \cup Ensured) \subseteq Existing
  <2> SUFFICES ASSUME TypeOK, NothingFrom(2)
               PROVE  /\ operated = Adopted /\ handed = {} /\ rekeyed = {}
                      /\ exists \cap (Created \cup Ensured) \subseteq Existing
    OBVIOUS
  <2>1. ASSUME NEW j \in Steps, Program[j].op \notin {"connect", "read"},
               Program[j].obj \notin Existing
        PROVE  ~Effect(j)
    <3>1. ASSUME NEW k \in Steps, SameEffect(k, j) PROVE 2 <= k
      <4>1. Program[k].op # "connect"
        BY <2>1, <3>1 DEF SameEffect
      <4>2. k # 1 /\ k \in 1 .. 25
        BY <4>1, AWSKinds, AWSSteps
      <4> QED BY <4>2
    <3>2. j # 1 /\ j \in 1 .. 25
      BY <2>1, AWSKinds, AWSSteps
    <3>3. 2 <= j
      BY <3>2
    <3> QED BY <2>1, <3>1, <3>3 DEF NothingFrom
  <2>2. (Adopted \cup Rekeyed) \cap Existing = {}
    BY ProgramAssumption, EnvironmentAssumption
  <2>3. operated = Adopted
    <3> SUFFICES ASSUME NEW o \in Adopted PROVE o \in operated
      BY DEF TypeOK
    <3>1. PICK j \in Steps : Program[j].op = "adopt" /\ Program[j].obj = o
      BY DEF Adopted, ObjectsOf, StepsOf
    <3> QED BY <2>1, <2>2, <3>1 DEF Effect
  <2>4. rekeyed = {}
    <3> SUFFICES ASSUME NEW o \in rekeyed PROVE FALSE
      OBVIOUS
    <3>1. PICK j \in Steps : Program[j].op = "rekey" /\ Program[j].obj = o
      BY DEF TypeOK, Rekeyed, ObjectsOf, StepsOf
    <3>2. o \in Rekeyed
      BY DEF TypeOK
    <3> QED BY <2>1, <2>2, <3>1, <3>2 DEF Effect
  <2>5. handed = {}
    BY AWSKinds DEF TypeOK, HandedOver, ObjectsOf, StepsOf
  <2>6. ASSUME NEW o \in exists \cap (Created \cup Ensured) PROVE o \in Existing
    <3>1. PICK j \in Steps : Program[j].op \in {"create", "ensure"} /\ Program[j].obj = o
      BY DEF Created, Ensured, ObjectsOf, StepsOf
    <3> QED BY <2>1, <3>1 DEF Effect
  <2> QED BY <2>3, <2>4, <2>5, <2>6
<1>3. Init => BlockedInv(2)
  BY <1>1, BlockedInit
<1>4. BlockedInv(2) /\ [Next]_vars => BlockedInv(2)'
  BY <1>1, BlockedStep
<1>5. BlockedInv(2) => TypeOK /\ NothingFrom(2)
  BY DEF BlockedInv
<1> QED BY <1>2, <1>3, <1>4, <1>5, PTL DEF Spec

\* Where nobody else has made the encryption secret, which readEncryptionSecret
\* looks for before createEncryptionConfigSecret would make it, no pass creates
\* the control plane or takes a CR from the legacy operator.
THEOREM AWSNeedsTheEncryptionSecret ==
    ASSUME Program = AWS!AWSProgram,
           {"EncryptionConfigSecret", "KubeadmControlPlane"} \cap Existing = {}
    PROVE  Spec => [](/\ operated = Adopted /\ handed = {}
                      /\ "KubeadmControlPlane" \notin exists)
<1>1. 6 \in Steps /\ Impassable(6)
  <2>1. ASSUME NEW j \in StepsOf("ensure") \cup StepsOf("create"),
               Program[j].obj = "EncryptionConfigSecret"
        PROVE  6 <= j
    <3>1. j \in Nat /\ j # 3 /\ (j < 6 => j = 3)
      BY <2>1, AWSKinds, AWSSteps DEF StepsOf
    <3> QED BY <3>1
  <2>2. 6 \in Steps /\ 14 \in Steps
    BY AWSSteps
  <2>3. "EncryptionConfigSecret" \in Ensured
    BY <2>2, AWSSteps DEF Ensured, ObjectsOf, StepsOf
  <2> QED BY <2>1, <2>2, <2>3, AWSSteps DEF Impassable
<1>2. TypeOK /\ NothingFrom(6)
      => operated = Adopted /\ handed = {} /\ "KubeadmControlPlane" \notin exists
  <2> SUFFICES ASSUME TypeOK, NothingFrom(6)
               PROVE  /\ operated = Adopted /\ handed = {}
                      /\ "KubeadmControlPlane" \notin exists
    OBVIOUS
  <2>1. operated = Adopted
    <3> SUFFICES ASSUME NEW o \in Adopted PROVE o \in operated
      BY DEF TypeOK
    <3>1. PICK j \in Steps : Program[j].op = "adopt" /\ Program[j].obj = o
      BY DEF Adopted, ObjectsOf, StepsOf
    <3>2. ASSUME NEW k \in Steps, k = j \/ SameEffect(k, j) PROVE 6 <= k
      <4>1. Program[k].op = "adopt"
        BY <3>1, <3>2 DEF SameEffect
      <4>2. k \in Nat /\ 24 <= k
        BY <4>1, AWSKinds
      <4> QED BY <4>2
    <3>3. o \notin Existing
      BY ProgramAssumption, EnvironmentAssumption
    <3> QED BY <3>1, <3>2, <3>3 DEF NothingFrom, Effect
  <2>2. "KubeadmControlPlane" \notin exists
    <3>1. /\ 16 \in Steps /\ Program[16].op = "create"
          /\ Program[16].obj = "KubeadmControlPlane"
      BY AWSSteps
    <3>2. ASSUME NEW k \in Steps, SameEffect(k, 16) PROVE 6 <= k
      <4>1. Program[k].op \in {"ensure", "create"} /\ Program[k].obj = "KubeadmControlPlane"
        BY <3>1, <3>2 DEF SameEffect
      <4>2. k \in Nat /\ k # 3 /\ (Program[k].op = "create" => k = 16)
            /\ (Program[k].op = "ensure" /\ k < 6 => k = 3)
        BY <4>1, AWSKinds, AWSSteps
      <4> QED BY <4>1, <4>2
    <3> QED BY <3>1, <3>2 DEF NothingFrom, Effect
  <2>3. handed = {}
    BY AWSKinds DEF TypeOK, HandedOver, ObjectsOf, StepsOf
  <2> QED BY <2>1, <2>2, <2>3
<1>3. Init => BlockedInv(6)
  BY <1>1, BlockedInit
<1>4. BlockedInv(6) /\ [Next]_vars => BlockedInv(6)'
  BY <1>1, BlockedStep
<1>5. BlockedInv(6) => TypeOK /\ NothingFrom(6)
  BY DEF BlockedInv
<1> QED BY <1>2, <1>3, <1>4, <1>5, PTL DEF Spec
=============================================================================
