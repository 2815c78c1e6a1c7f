--------------------------- MODULE HandoverProofs ---------------------------
(***************************************************************************)
(* More of what holds of Migrator for every program: nothing happens       *)
(* before the user asks, nor after the request is withdrawn, legacy CRs    *)
(* are released in order, and Migrator implements Handover.                *)
(***************************************************************************)
EXTENDS MigratorProofs

-----------------------------------------------------------------------------
(* Idle managers. *)

\* With no pass under way, only these steps are left.
IdleStep(m) ==
    \/ Reconcile(m) \/ ReconcileNotFound(m) \/ Restart(m) \/ Resync(m)
    \/ \E o \in Cached : SyncCache(m, o)

LEMMA IdleSteps ==
    ASSUME \A m \in Managers : pc[m] = 0, [Next]_vars
    PROVE  UNCHANGED vars \/ Environment \/ \E m \in Managers : IdleStep(m)
<1>1. ASSUME NEW m \in Managers PROVE pc[m] \notin Steps /\ pc[m] # Len(Program) + 1
  BY ProgramFacts
<1>2. ASSUME NEW m \in Managers PROVE ~PassStep(m) /\ ~Fail(m) /\ ~Crash(m)
  BY <1>1, <1>2
  DEF PassStep, NewMigrator, ReadCR, ReadMissing, Rekey, Ensure, CreateCR,
      UpdateCR, FindMaster, CreatePod, TriggerCR, Finish, Panic, Conflict,
      Unreachable, At, Fail, Crash
<1> QED BY <1>2 DEF Next, IdleStep

\* They leave the CRs and the pods alone, and no pass goes past its first step.
LEMMA IdleStepShape ==
    ASSUME TypeOK, NEW m \in Managers, IdleStep(m)
    PROVE  /\ UNCHANGED <<crs, user, pods>>
           /\ pc' = pc \/ Reconcile(m)
  BY DEF IdleStep, Reconcile, ReconcileNotFound, Restart, Resync, SyncCache, vars,
         nodes, pass

\* The user and the operators change no CR but the Cluster, which may go; they
\* add finalizers and drop none.
LEMMA EnvironmentShape ==
    ASSUME TypeOK, Environment
    PROVE  /\ UNCHANGED <<operated, controlPlaneRef, handed, versioned, rekeyed, pods>>
           /\ UNCHANGED <<pc, queued, sees, down>>
           /\ exists' \subseteq exists /\ exists \ {"Cluster"} = exists' \ {"Cluster"}
           /\ \A o \in Adopted : finalizers[o] \subseteq finalizers'[o]
           /\ optIn => optIn'
           /\ optedOut => optedOut'
           /\ deleting => deleting'
           /\ optedOut' => optedOut \/ optIn
<1>1. CASE OptIn \/ OptOut
  BY <1>1 DEF OptIn, OptOut, TypeOK, crs, nodes, process
<1>4. CASE Delete \/ Teardown
  <2>1. /\ UNCHANGED <<operated, finalizers, controlPlaneRef, handed, versioned,
                         rekeyed, pods>>
        /\ UNCHANGED <<pc, queued, sees, down, optIn, optedOut>>
        /\ exists' = exists \/ exists' = exists \ {"Cluster"}
    BY <1>4 DEF Delete, Teardown, user, nodes, process
  <2>2. deleting => deleting'
    BY <1>4 DEF Delete, Teardown, user
  <2> QED BY <2>1, <2>2
<1>2. CASE LegacyWrite \/ ClusterOperatorWrite \/ UpstreamWrite
  <2>1. PICK o, owner : OperatorWrite(o, owner)
    BY <1>2 DEF LegacyWrite, ClusterOperatorWrite, UpstreamWrite
  <2>2. ASSUME NEW p \in Adopted PROVE finalizers[p] \subseteq finalizers'[p]
    BY <2>1 DEF OperatorWrite, TypeOK
  <2> QED BY <2>1, <2>2 DEF OperatorWrite, user, nodes, process
<1>3. CASE \E n \in Masters : PodRuns(n)
  BY <1>3 DEF PodRuns, crs, user, pass, cache, process
<1> QED BY <1>1, <1>2, <1>3, <1>4 DEF Environment

\* The steps of a pass and of a manager leave the user's wishes as they are.
LEMMA UserStays ==
    ASSUME TypeOK, [Next]_vars
    PROVE  (optIn => optIn') /\ (deleting => deleting')
<1>1. CASE UNCHANGED user
  BY <1>1 DEF user
<1>2. CASE Environment
  BY <1>2, EnvironmentShape
<1>3. ASSUME NEW m \in Managers, PassStep(m) PROVE UNCHANGED user
  BY <1>3
  DEF PassStep, NewMigrator, ReadCR, ReadMissing, Rekey, Ensure, CreateCR,
      UpdateCR, FindMaster, CreatePod, TriggerCR, Finish, Panic, Conflict, Unreachable
<1>4. ASSUME NEW m \in Managers, IdleStep(m) \/ Fail(m) \/ Crash(m) PROVE UNCHANGED user
  BY <1>4 DEF IdleStep, Reconcile, ReconcileNotFound, Restart, Resync, SyncCache,
              Fail, Crash, vars
<1> QED BY <1>1, <1>2, <1>3, <1>4 DEF Next, IdleStep, vars

\* Nobody brings a Cluster back.
LEMMA GoneStays ==
    ASSUME TypeOK, [Next]_vars, "Cluster" \notin exists
    PROVE  "Cluster" \notin exists'
<1> USE ClusterFacts, ObjectFacts
<1>1. ASSUME NEW m \in Managers, Ensure(m) \/ CreateCR(m)
      PROVE  "Cluster" \notin exists'
  BY <1>1 DEF Ensure, CreateCR, At, Object
<1>2. ASSUME NEW m \in Managers, UpdateCR(m) PROVE exists' \subseteq exists
  BY <1>2 DEF UpdateCR
<1>3. ASSUME NEW m \in Managers, PassStep(m), ~Ensure(m), ~CreateCR(m), ~UpdateCR(m)
      PROVE  UNCHANGED exists
  BY <1>3
  DEF PassStep, NewMigrator, ReadCR, ReadMissing, Rekey, FindMaster, CreatePod,
      TriggerCR, Finish, Panic, Conflict, Unreachable, crs
<1>4. ASSUME NEW m \in Managers, IdleStep(m) \/ Fail(m) \/ Crash(m)
      PROVE  UNCHANGED exists
  BY <1>4, IdleStepShape DEF Fail, Crash, crs
<1>5. CASE Environment
  BY <1>5, EnvironmentShape
<1> QED BY <1>1, <1>2, <1>3, <1>4, <1>5 DEF Next, IdleStep, vars, crs

\* A cache only learns how the Cluster is.
LEMMA SeesShape ==
    ASSUME TypeOK, [Next]_vars, NEW n \in Managers
    PROVE  sees'[n] = sees[n] \/ (sees'[n] = View /\ UNCHANGED <<exists, user>>)
<1>1. ASSUME NEW m \in Managers, PassStep(m) \/ Fail(m) \/ Crash(m) PROVE UNCHANGED sees
  BY <1>1
  DEF PassStep, NewMigrator, ReadCR, ReadMissing, Rekey, Ensure, CreateCR, UpdateCR,
      FindMaster, CreatePod, TriggerCR, Finish, Panic, Conflict, Unreachable,
      Fail, Crash, cache
<1>2. ASSUME NEW m \in Managers, IdleStep(m)
      PROVE  /\ sees' = sees \/ sees' = [sees EXCEPT ![m] = View]
             /\ UNCHANGED <<exists, user>>
  BY <1>2 DEF IdleStep, Reconcile, ReconcileNotFound, Restart, Resync, SyncCache, vars,
              cache, crs
<1>3. CASE Environment
  BY <1>3, EnvironmentShape
<1>4. CASE UNCHANGED vars
  BY <1>4 DEF vars, cache
<1> QED BY <1>1, <1>2, <1>3, <1>4 DEF Next, IdleStep, TypeOK

-----------------------------------------------------------------------------
(* Before the user asks. *)

\* Managers are idle and have seen nothing that would make them move.
Waiting ==
    \A m \in Managers : pc[m] = 0 /\ ~queued[m] /\ sees[m] \in {"unlabelled", "gone"}

UntouchedInv == TypeOK /\ UntouchedBeforeOptIn /\ (~optIn => Waiting /\ ~optedOut)

LEMMA UntouchedInit == Init => UntouchedInv
<1> SUFFICES ASSUME Init PROVE UntouchedInv
  OBVIOUS
<1>1. Cached \cap (Created \cup Ensured) = {}
  BY ProgramAssumption DEF Cached, Fields
<1>2. UntouchedBeforeOptIn
  BY <1>1 DEF Init, UntouchedBeforeOptIn
<1> QED BY <1>2, TypeInit DEF Init, UntouchedInv, Waiting

LEMMA UntouchedStep == UntouchedInv /\ [Next]_vars => UntouchedInv'
<1> SUFFICES ASSUME UntouchedInv, [Next]_vars PROVE UntouchedInv'
  OBVIOUS
<1>0. TypeOK /\ TypeOK'
  BY TypeStep DEF UntouchedInv
<1>1. CASE optIn
  <2>1. optIn'
    BY <1>0, <1>1, UserStays
  <2> QED BY <1>0, <2>1 DEF UntouchedInv, UntouchedBeforeOptIn
<1>2. CASE ~optIn
  <2>0. Waiting /\ ~optedOut
    BY <1>2 DEF UntouchedInv
  <2>1. View \in {"unlabelled", "gone"}
    BY <1>2 DEF View
  <2>2. UNCHANGED vars \/ Environment \/ \E m \in Managers : IdleStep(m)
    BY <2>0, IdleSteps DEF Waiting
  <2>3. CASE UNCHANGED vars
    BY <1>0, <2>3 DEF UntouchedInv, UntouchedBeforeOptIn, Waiting, vars, crs, user,
                      nodes, pass, cache, process
  <2>4. CASE Environment
    BY <1>0, <1>2, <2>0, <2>4, EnvironmentShape
    DEF UntouchedInv, UntouchedBeforeOptIn, Waiting
  <2>5. ASSUME NEW m \in Managers, IdleStep(m) PROVE UntouchedInv'
    <3>1. ~Reconcile(m) /\ ~Resync(m)
      BY <2>0 DEF Waiting, Reconcile, Resync, Predicate
    <3>2. UNCHANGED <<crs, user, pods, pc>>
      BY <1>0, <2>5, <3>1, IdleStepShape
    <3>3. /\ sees' = sees \/ sees' = [sees EXCEPT ![m] = View]
          /\ \/ queued' = queued
             \/ ~queued'[m] /\ queued' = [queued EXCEPT ![m] = queued'[m]]
      BY <1>0, <2>0, <2>1, <2>5, <3>1
      DEF IdleStep, ReconcileNotFound, Restart, SyncCache, vars, cache, process,
          Predicate, TypeOK, Waiting
    <3>4. Waiting'
      BY <1>0, <2>0, <2>1, <3>2, <3>3 DEF Waiting, TypeOK
    <3> QED BY <1>0, <1>2, <2>0, <3>2, <3>4
            DEF UntouchedInv, UntouchedBeforeOptIn, crs, user
  <2> QED BY <2>2, <2>3, <2>4, <2>5
<1> QED BY <1>1, <1>2

\* Nothing of a cluster changes before its user opts in, whatever restarts,
\* resyncs, writes of the legacy operator and deletions happen.
THEOREM NothingBeforeOptIn == Spec => []UntouchedBeforeOptIn
<1>1. UntouchedInv => UntouchedBeforeOptIn
  BY DEF UntouchedInv
<1> QED BY UntouchedInit, UntouchedStep, <1>1, PTL DEF Spec

-----------------------------------------------------------------------------
(* After the user has taken the request back. *)

\* A cache has a Cluster as deleted, or gone, only when it is.
SeenHappened ==
    \A m \in Managers :
       /\ sees[m] \in {"deleting", "abandoned"} => deleting
       /\ sees[m] = "gone" => "Cluster" \notin exists

SeenInv == TypeOK /\ SeenHappened

LEMMA SeenInit == Init => SeenInv
  BY TypeInit DEF Init, SeenInv, SeenHappened

LEMMA SeenStep == SeenInv /\ [Next]_vars => SeenInv'
<1> SUFFICES ASSUME SeenInv, [Next]_vars PROVE SeenInv'
  OBVIOUS
<1>1. TypeOK /\ TypeOK'
  BY TypeStep DEF SeenInv
<1>2. (deleting => deleting') /\ ("Cluster" \notin exists => "Cluster" \notin exists')
  BY <1>1, UserStays, GoneStays
<1>3. ASSUME NEW m \in Managers
      PROVE  /\ sees'[m] \in {"deleting", "abandoned"} => deleting'
             /\ sees'[m] = "gone" => "Cluster" \notin exists'
  <2>1. CASE sees'[m] = sees[m]
    BY <1>2, <2>1 DEF SeenInv, SeenHappened
  <2>2. CASE sees'[m] = View /\ UNCHANGED <<exists, user>>
    BY <2>2 DEF View, user
  <2> QED BY <1>1, <2>1, <2>2, SeesShape
<1> QED BY <1>1, <1>3 DEF SeenInv, SeenHappened

\* A process that is not running has no pass.
DownIdle == \A m \in down : pc[m] = 0

DownInv == TypeOK /\ DownIdle

LEMMA DownInit == Init => DownInv
  BY TypeInit DEF Init, DownInv, DownIdle

LEMMA DownStep == DownInv /\ [Next]_vars => DownInv'
<1> SUFFICES ASSUME DownInv, [Next]_vars PROVE DownInv'
  OBVIOUS
<1>0. TypeOK /\ TypeOK'
  BY TypeStep DEF DownInv
<1>1. CASE UNCHANGED <<pc, down>>
  BY <1>0, <1>1 DEF DownInv, DownIdle
<1>2. ASSUME NEW m \in Managers,
             \/ /\ m \notin down /\ UNCHANGED down
                /\ \A n \in Managers : n # m => pc'[n] = pc[n]
             \/ Down(m)
             \/ down' = down \ {m} /\ UNCHANGED pc
      PROVE  DownInv'
  BY <1>0, <1>2 DEF DownInv, DownIdle, Down, TypeOK
<1>3. ASSUME NEW m \in Managers, PassStep(m) \/ Fail(m) \/ Crash(m) PROVE DownInv'
  <2>1. CASE Panic(m) \/ Crash(m)
    BY <1>2, <2>1 DEF Panic, Crash
  <2>2. CASE \/ NewMigrator(m) \/ ReadCR(m) \/ ReadMissing(m) \/ Rekey(m)
             \/ Ensure(m) \/ CreateCR(m) \/ UpdateCR(m) \/ FindMaster(m)
             \/ CreatePod(m) \/ TriggerCR(m) \/ Finish(m) \/ Conflict(m)
             \/ Unreachable(m) \/ Fail(m)
    <3>1. m \notin down /\ UNCHANGED down
      BY <2>2 DEF NewMigrator, ReadCR, ReadMissing, Rekey, Ensure, CreateCR,
                  UpdateCR, FindMaster, CreatePod, TriggerCR, Finish, Conflict,
                  Unreachable, Fail, At, process
    <3>2. UNCHANGED pc \/ Advance(m) \/ EndPass(m, TRUE) \/ EndPass(m, FALSE)
      BY <2>2 DEF NewMigrator, ReadCR, ReadMissing, Rekey, Ensure, CreateCR,
                  UpdateCR, FindMaster, CreatePod, TriggerCR, Finish, Conflict,
                  Unreachable, Fail
    <3>3. \A n \in Managers : n # m => pc'[n] = pc[n]
      BY <1>0, <3>2 DEF Advance, EndPass, TypeOK
    <3> QED BY <1>2, <3>1, <3>3
  <2> QED BY <1>3, <2>1, <2>2 DEF PassStep
<1>4. ASSUME NEW m \in Managers, IdleStep(m) PROVE DownInv'
  <2>1. CASE Reconcile(m)
    <3>1. /\ m \notin down /\ UNCHANGED down
          /\ \A n \in Managers : n # m => pc'[n] = pc[n]
      BY <1>0, <2>1 DEF Reconcile, TypeOK
    <3> QED BY <1>2, <3>1
  <2>2. CASE Restart(m)
    BY <1>2, <2>2 DEF Restart, pass
  <2>3. CASE ReconcileNotFound(m) \/ Resync(m) \/ \E o \in Cached : SyncCache(m, o)
    BY <1>1, <2>3 DEF ReconcileNotFound, Resync, SyncCache, vars, pass, process
  <2> QED BY <1>4, <2>1, <2>2, <2>3 DEF IdleStep
<1>5. CASE Environment \/ UNCHANGED vars
  BY <1>0, <1>1, <1>5, EnvironmentShape DEF vars, pass, process
<1> QED BY <1>3, <1>4, <1>5 DEF Next, IdleStep

LEMMA WithdrawnStep ==
    ASSUME DownInv, SeenInv, [Next]_vars, WithdrawalSeen
    PROVE  /\ WithdrawalSeen'
           /\ UNCHANGED <<operated, handed, pods, rekeyed>>
           /\ exists \ {"Cluster"} = exists' \ {"Cluster"}
           /\ \A o \in Adopted : finalizers[o] \subseteq finalizers'[o]
<1> DEFINE Kept == /\ UNCHANGED <<operated, handed, pods, rekeyed>>
                   /\ exists \ {"Cluster"} = exists' \ {"Cluster"}
                   /\ \A o \in Adopted : finalizers[o] \subseteq finalizers'[o]
<1>0. TypeOK /\ TypeOK'
  BY TypeStep DEF DownInv
<1>1. \A m \in Managers : pc[m] = 0
  BY DEF DownInv, DownIdle, WithdrawalSeen
<1>2. UNCHANGED vars \/ Environment \/ \E m \in Managers : IdleStep(m)
  BY <1>1, IdleSteps
<1>3. CASE UNCHANGED vars
  BY <1>3 DEF WithdrawalSeen, vars, crs, user, nodes, pass, cache, process
<1>4. CASE Environment
  BY <1>0, <1>4, EnvironmentShape DEF WithdrawalSeen
<1>5. ASSUME NEW m \in Managers, IdleStep(m) PROVE WithdrawalSeen' /\ Kept
  <2>1. UNCHANGED <<crs, user, pods>>
    BY <1>0, <1>5, IdleStepShape
  <2>2. View \in {"deleting", "abandoned", "withdrawn", "gone"}
    BY <1>0 DEF WithdrawalSeen, View, TypeOK
  <2>3. ASSUME NEW n \in Managers \ down'
        PROVE  /\ pc'[n] = 0
               /\ \/ sees'[n] \in {"deleting", "abandoned", "gone"}
                  \/ sees'[n] = "withdrawn" /\ ~queued'[n]
    <3>1. CASE n # m
      <4>1. n \notin down /\ pc'[n] = pc[n] /\ sees'[n] = sees[n] /\ queued'[n] = queued[n]
        BY <1>0, <1>5, <3>1 DEF IdleStep, Reconcile, ReconcileNotFound, Restart,
           Resync, SyncCache, vars, pass, cache, process, TypeOK
      <4> QED BY <1>1, <4>1 DEF WithdrawalSeen
    <3>2. CASE n = m /\ Reconcile(m)
      BY <1>0, <3>2 DEF Reconcile, WithdrawalSeen, TypeOK, cache
    <3>3. CASE n = m /\ Restart(m)
      BY <1>0, <1>1, <2>2, <3>3 DEF Restart, Predicate, TypeOK, pass
    <3>4. CASE n = m /\ (ReconcileNotFound(m) \/ Resync(m))
      BY <1>0, <3>4 DEF ReconcileNotFound, Resync, Predicate, WithdrawalSeen, TypeOK,
                        vars, pass, cache, process
    <3>5. CASE n = m /\ \E o \in Cached : SyncCache(m, o)
      <4> PICK o \in Cached : SyncCache(m, o)
        BY <3>5
      <4>1. m \notin down /\ pc'[m] = 0
        BY <1>1 DEF SyncCache, pass
      <4>2. CASE o # "Cluster"
        BY <3>5, <4>1, <4>2 DEF SyncCache, WithdrawalSeen
      <4>3. CASE o = "Cluster"
        <5>1. sees'[m] = View
          BY <1>0, <4>3 DEF SyncCache, TypeOK
        <5>2. View = "withdrawn" => sees[m] = "withdrawn" /\ ~queued[m]
          BY <3>5 DEF View, SyncCache, WithdrawalSeen, SeenInv, SeenHappened
        <5> QED BY <1>0, <2>2, <3>5, <4>1, <4>3, <5>1, <5>2
                DEF SyncCache, WithdrawalSeen, Predicate, TypeOK
      <4> QED BY <4>2, <4>3
    <3> QED BY <1>5, <3>1, <3>2, <3>3, <3>4, <3>5 DEF IdleStep
  <2>4. WithdrawalSeen'
    BY <2>1, <2>3 DEF WithdrawalSeen, user
  <2>5. Kept
    BY <2>1 DEF crs
  <2> QED BY <2>4, <2>5
<1> QED BY <1>2, <1>3, <1>4, <1>5

\* Once the running managers have seen that the Cluster is deleted, or that its
\* label is gone, nothing of the cluster is created, rewritten or handed over
\* any more, whichever processes restart.
THEOREM WithdrawnStaysAlone == Spec => WithdrawnIsLeftAlone
<1>1. DownInv /\ SeenInv /\ [Next]_vars =>
        [WithdrawalSeen =>
           /\ WithdrawalSeen'
           /\ operated' = operated /\ handed' = handed /\ pods' = pods
           /\ rekeyed' = rekeyed
           /\ exists \ {"Cluster"} = exists' \ {"Cluster"}
           /\ \A o \in Adopted : finalizers[o] \subseteq finalizers'[o]]_vars
  BY WithdrawnStep
<1> QED BY <1>1, DownInit, DownStep, SeenInit, SeenStep, PTL
        DEF Spec, WithdrawnIsLeftAlone

-----------------------------------------------------------------------------
(* Who has which CR. *)

\* The legacy operator loses a CR at the CR's own step; a CR is labelled in
\* another step, and so is the opting in.
Releases ==
    \/ operated' = operated
    \/ /\ UNCHANGED <<handed, optIn>>
       /\ \E i \in StepsOf("adopt"), m \in Managers :
             pc[m] = i /\ operated' = operated \ {Program[i].obj}

OneAtATime ==
    /\ optIn' = optIn \/ (~optIn /\ optIn' = TRUE /\ UNCHANGED <<crs, pods>>)
    /\ \/ handed' = handed
       \/ UNCHANGED <<exists, operated, controlPlaneRef, rekeyed, pods, optIn>>

LEMMA ReleaseShape == ASSUME TypeOK, [Next]_vars PROVE Releases /\ OneAtATime
<1>0. operated' \subseteq operated
  BY StepShape DEF Grows
<1>1. ASSUME NEW m \in Managers, UpdateCR(m) PROVE Releases /\ OneAtATime
  <2>1. PICK i \in StepsOf("adopt") : pc[m] = i
    BY <1>1 DEF UpdateCR, At, StepsOf
  <2>2. operated' = operated \ {Program[i].obj} /\ UNCHANGED <<handed, user>>
    BY <1>1, <2>1 DEF UpdateCR, Object
  <2> QED BY <2>1, <2>2 DEF Releases, OneAtATime, user
<1>2. ASSUME NEW m \in Managers, TriggerCR(m) PROVE Releases /\ OneAtATime
  BY <1>2 DEF TriggerCR, Releases, OneAtATime, user, nodes
<1>3. ASSUME NEW m \in Managers, PassStep(m), ~UpdateCR(m), ~TriggerCR(m)
      PROVE  Releases /\ OneAtATime
  <2>1. UNCHANGED <<operated, handed, user>>
    BY <1>3
    DEF PassStep, NewMigrator, ReadCR, ReadMissing, Rekey, Ensure, CreateCR,
        FindMaster, CreatePod, Finish, Panic, Conflict, Unreachable, crs
  <2> QED BY <2>1 DEF Releases, OneAtATime, user
<1>4. ASSUME NEW m \in Managers, IdleStep(m) \/ Fail(m) \/ Crash(m)
      PROVE  Releases /\ OneAtATime
  <2>1. UNCHANGED <<crs, user>>
    BY <1>4, IdleStepShape DEF Fail, Crash
  <2> QED BY <2>1 DEF Releases, OneAtATime, crs, user
<1>5. CASE OptIn
  BY <1>5 DEF OptIn, Releases, OneAtATime, crs, nodes
<1>6. CASE Environment /\ ~OptIn
  <2>1. UNCHANGED <<operated, handed>>
    BY <1>6, EnvironmentShape
  <2>2. UNCHANGED optIn
    BY <1>6 DEF Environment, OptOut, Delete, Teardown, LegacyWrite,
                ClusterOperatorWrite, UpstreamWrite, OperatorWrite, PodRuns, user
  <2> QED BY <2>1, <2>2 DEF Releases, OneAtATime
<1>7. CASE UNCHANGED vars
  BY <1>7 DEF vars, crs, user, Releases, OneAtATime
<1> QED BY <1>1, <1>2, <1>3, <1>4, <1>5, <1>6, <1>7 DEF Next, IdleStep

ReleaseInv == HandoverInv /\ ReleasedInOrder

LEMMA ReleaseInit == Init => ReleaseInv
<1> SUFFICES ASSUME Init PROVE ReleaseInv
  OBVIOUS
<1>1. ReleasedInOrder
  BY DEF Init, ReleasedInOrder, Adopted, ObjectsOf
<1> QED BY <1>1, HandoverInit DEF ReleaseInv

LEMMA ReleaseStep == ReleaseInv /\ [Next]_vars => ReleaseInv'
<1> SUFFICES ASSUME ReleaseInv, [Next]_vars PROVE ReleaseInv'
  OBVIOUS
<1>1. HandoverInv /\ HandoverInv' /\ TypeOK
  BY HandoverStep DEF ReleaseInv, HandoverInv
<1>2. Grows /\ Releases
  BY <1>1, StepShape, ReleaseShape
<1>3. ASSUME NEW j \in Steps, Done(j) PROVE Done(j)'
  BY <1>2, <1>3, DoneStable
<1>4. ASSUME NEW i \in StepsOf("adopt"), Program[i].obj \notin operated',
             NEW j \in Steps, j < i
      PROVE  Done(j)'
  <2>1. CASE Program[i].obj \notin operated
    BY <1>3, <1>4, <2>1 DEF ReleaseInv, ReleasedInOrder
  <2>2. CASE Program[i].obj \in operated
    <3>1. PICK k \in StepsOf("adopt"), m \in Managers :
             pc[m] = k /\ operated' = operated \ {Program[k].obj}
      BY <1>2, <1>4, <2>2 DEF Releases
    <3>2. k = i
      BY <1>4, <2>2, <3>1, ProgramAssumption
    <3> QED BY <1>1, <1>3, <1>4, <3>1, <3>2 DEF HandoverInv, Progress
  <2> QED BY <2>1, <2>2
<1> QED BY <1>1, <1>4 DEF ReleaseInv, ReleasedInOrder

LEMMA ReleaseInvariant == Spec => []ReleaseInv
  BY ReleaseInit, ReleaseStep, PTL DEF Spec

\* The legacy operator is relieved of a CR only when every earlier step of a
\* pass is done, by this or any other pass, for every program.
THEOREM ReleaseIsOrdered == Spec => []ReleasedInOrder
<1>1. ReleaseInv => ReleasedInOrder
  BY DEF ReleaseInv
<1> QED BY <1>1, ReleaseInvariant, PTL

\* The program updates legacy CRs after it has made what is missing.
MissingFirst ==
    \A i \in StepsOf("adopt"), j \in Steps :
        Program[j].op \in {"rekey", "ensure", "create"} => j < i

\* Where the program makes what is missing first, as both providers' does, no
\* legacy CR is rewritten before all of it is there.
THEOREM ReleaseIsReady ==
    ASSUME MissingFirst
    PROVE  Spec => []ReleasedWhenReady
<1>1. ReleaseInv => ReleasedWhenReady
  <2> SUFFICES ASSUME ReleaseInv, operated # Adopted PROVE
                  rekeyed = Rekeyed /\ Created \cup Ensured \subseteq exists
    BY DEF ReleasedWhenReady
  <2>1. PICK o \in Adopted : o \notin operated
    BY DEF ReleaseInv, HandoverInv, TypeOK
  <2>2. PICK i \in StepsOf("adopt") : Program[i].obj = o
    BY DEF Adopted, ObjectsOf
  <2>3. ASSUME NEW j \in Steps, Program[j].op \in {"rekey", "ensure", "create"}
        PROVE  Done(j)
    BY <2>1, <2>2, <2>3 DEF MissingFirst, ReleaseInv, ReleasedInOrder
  <2>4. Rekeyed \subseteq rekeyed
    BY <2>3 DEF Rekeyed, ObjectsOf, StepsOf, Done
  <2>5. Created \cup Ensured \subseteq exists
    BY <2>3 DEF Created, Ensured, ObjectsOf, StepsOf, Done
  <2> QED BY <2>4, <2>5 DEF ReleaseInv, HandoverInv, TypeOK
<1> QED BY <1>1, ReleaseInvariant, PTL

-----------------------------------------------------------------------------
(* Migrator implements Handover. *)

\* cluster-operator's label comes with the watch filter and only so, but for the
\* CRs that have one from the first.
VersionedWithLabel == versioned = VersionedFirst \cup (handed \cap Versioned)

VersionedInv == TypeOK /\ VersionedWithLabel

LEMMA VersionedInit == Init => VersionedInv
  BY TypeInit DEF Init, VersionedInv, VersionedWithLabel

LEMMA VersionedStep == VersionedInv /\ [Next]_vars => VersionedInv'
<1> SUFFICES ASSUME VersionedInv, [Next]_vars PROVE VersionedWithLabel'
  BY TypeStep DEF VersionedInv
<1>0. TypeOK /\ VersionedWithLabel
  BY DEF VersionedInv
<1>1. ASSUME NEW m \in Managers, TriggerCR(m) PROVE VersionedWithLabel'
  <2>1. /\ handed' = handed \cup {Object(m)}
        /\ versioned' = versioned \cup ({Object(m)} \cap Versioned)
    BY <1>1 DEF TriggerCR, WithWatchFilter
  <2> QED BY <1>0, <2>1 DEF VersionedWithLabel
<1>2. ASSUME NEW m \in Managers, PassStep(m), ~TriggerCR(m)
      PROVE  UNCHANGED <<handed, versioned>>
  BY <1>2
  DEF PassStep, NewMigrator, ReadCR, ReadMissing, Rekey, Ensure, CreateCR, UpdateCR,
      FindMaster, CreatePod, Finish, Panic, Conflict, Unreachable, crs
<1>3. ASSUME NEW m \in Managers, IdleStep(m) \/ Fail(m) \/ Crash(m)
      PROVE  UNCHANGED <<handed, versioned>>
  BY <1>0, <1>3, IdleStepShape DEF Fail, Crash, crs
<1>4. CASE Environment \/ UNCHANGED vars
  BY <1>0, <1>4, EnvironmentShape DEF VersionedWithLabel, vars, crs
<1>5. CASE UNCHANGED <<handed, versioned>>
  BY <1>0, <1>5 DEF VersionedWithLabel
<1> QED BY <1>1, <1>2, <1>3, <1>4, <1>5 DEF Next, IdleStep

\* The abstract state.
CRsOfH == Adopted \cup HandedOver
Who    == [o \in CRsOfH |-> Reconcilers(o)]

ImplInv == ReleaseInv /\ UntouchedInv /\ VersionedInv

LEMMA Whose ==
    ASSUME NEW o \in CRsOfH
    PROVE  /\ Who[o] = Reconcilers(o)
           /\ "legacy" \in Who[o] <=> o \in operated
           /\ "upstream" \in Who[o] <=> o \in handed
           /\ "cluster-operator" \in Who[o] <=> o \in versioned
           /\ Who[o] \subseteq Operators
  BY DEF Who, Reconcilers, Operators

\* A complete preparation has relieved the legacy operator of everything, and
\* is what the first label waits for.
LEMMA CompleteFacts ==
    ImplInv => /\ PrepareDone => operated = {} /\ optIn
               /\ handed # {} => PrepareDone
<1> SUFFICES ASSUME ImplInv
             PROVE  /\ PrepareDone => operated = {} /\ optIn
                    /\ handed # {} => PrepareDone
  OBVIOUS
<1>1. ASSUME PrepareDone, NEW o \in operated PROVE FALSE
  <2>1. PICK i \in StepsOf("adopt") : Program[i].obj = o
    BY DEF ImplInv, ReleaseInv, HandoverInv, TypeOK, Adopted, ObjectsOf
  <2>2. i \in Steps \ TriggerSteps /\ Program[i].op = "adopt"
    BY DEF StepsOf, TriggerSteps
  <2> QED BY <1>1, <2>1, <2>2 DEF PrepareDone, Done
<1>2. operated = {} => optIn
  BY ClusterFacts DEF ImplInv, UntouchedInv, UntouchedBeforeOptIn
<1>3. handed # {} => PrepareDone
  BY AfterPrepare DEF ImplInv, ReleaseInv, HandoverAfterPrepare, PrepareDone
<1> QED BY <1>1, <1>2, <1>3

LEMMA ImplInit == Init => H!Init
<1> SUFFICES ASSUME Init PROVE H!Init
  OBVIOUS
<1>1. ~PrepareDone
  <2>1. PICK i \in StepsOf("adopt") : Program[i].obj = "Cluster"
    BY ClusterFacts DEF Adopted, ObjectsOf
  <2>2. i \in Steps \ TriggerSteps /\ ~Done(i)
    BY <2>1, ClusterFacts DEF Init, Done, StepsOf, TriggerSteps
  <2> QED BY <2>2 DEF PrepareDone
<1>2. PrepareDone = FALSE
  BY <1>1 DEF PrepareDone
<1>3. ASSUME NEW o \in Adopted \cup HandedOver
      PROVE  Reconcilers(o) = H!IfSo("legacy", o \in Adopted)
                                \cup H!IfSo("cluster-operator", o \in VersionedFirst)
  BY DEF Init, Reconcilers, Operators, H!IfSo
<1>4. [o \in Adopted \cup HandedOver |-> Reconcilers(o)]
        = [o \in Adopted \cup HandedOver |->
             H!IfSo("legacy", o \in Adopted)
               \cup H!IfSo("cluster-operator", o \in VersionedFirst)]
  BY <1>3
<1> QED BY <1>2, <1>4 DEF Init, H!Init

LEMMA ImplStep == ImplInv /\ ImplInv' /\ [Next]_vars => [H!Next]_H!vars
<1> SUFFICES ASSUME ImplInv, ImplInv', [Next]_vars PROVE [H!Next]_H!vars
  OBVIOUS
<1> USE DEF CRsOfH
<1>0. TypeOK
  BY DEF ImplInv, UntouchedInv
<1>1. Grows /\ Labels /\ Releases /\ OneAtATime
  BY <1>0, StepShape, ReleaseShape
<1>2. PrepareDone \in BOOLEAN /\ PrepareDone' \in BOOLEAN /\ (PrepareDone => PrepareDone')
  <2>1. ASSUME PrepareDone, NEW i \in Steps \ TriggerSteps PROVE Done(i)'
    BY <1>1, <2>1, DoneStable DEF PrepareDone
  <2> QED BY <2>1 DEF PrepareDone
<1>3. /\ PrepareDone => operated = {} /\ optIn
      /\ handed # {} => PrepareDone
  BY CompleteFacts
<1>8. (PrepareDone => operated = {} /\ optIn)'
  <2>1. (ImplInv => (PrepareDone => operated = {} /\ optIn))'
    BY CompleteFacts, PTL
  <2> QED BY <2>1
<1>9. /\ versioned = VersionedFirst \cup (handed \cap Versioned)
      /\ versioned' = VersionedFirst \cup (handed' \cap Versioned)
  BY DEF ImplInv, VersionedInv, VersionedWithLabel
<1>4. CASE UNCHANGED <<operated, handed, optIn>>
  <2>1. Who' = Who
    BY <1>4, <1>9 DEF Who, Reconcilers
  <2>2. CASE PrepareDone' = PrepareDone
    BY <1>4, <2>1, <2>2 DEF Who, H!vars
  <2>3. CASE ~PrepareDone /\ PrepareDone'
    <3>1. \A o \in CRsOfH : "legacy" \notin Who[o]
      BY <1>8, <1>4, <2>3, Whose
    <3>2. H!Released
      BY <3>1 DEF H!Released, Who
    <3>3. H!Complete
      BY <1>2, <1>8, <1>4, <2>1, <2>3, <3>2 DEF H!Complete, Who
    <3> QED BY <3>3 DEF H!Next
  <2> QED BY <1>2, <2>2, <2>3
<1>5. CASE optIn' # optIn
  <2>1. ~optIn /\ optIn' = TRUE /\ UNCHANGED <<crs, pods>>
    BY <1>1, <1>5 DEF OneAtATime
  <2>2. PrepareDone' = PrepareDone /\ Who' = Who
    BY <2>1 DEF PrepareDone, Done, Who, Reconcilers, crs
  <2>3. H!Ask
    BY <2>1, <2>2 DEF H!Ask, Who
  <2> QED BY <2>3 DEF H!Next
<1>6. CASE operated' # operated
  <2>1. UNCHANGED <<handed, optIn>>
    BY <1>1, <1>6 DEF Releases
  <2>2. PICK i \in StepsOf("adopt"), m \in Managers :
           pc[m] = i /\ operated' = operated \ {Program[i].obj}
    BY <1>1, <1>6 DEF Releases
  <2> DEFINE o == Program[i].obj
  <2>3. o \in operated /\ o \in CRsOfH
    BY <1>0, <1>6, <2>2 DEF TypeOK
  <2>4. ~PrepareDone /\ handed = {}
    BY <1>3, <2>3
  <2>5. optIn
    <3>1. pc[m] # 0
      BY <2>2, ProgramFacts DEF StepsOf
    <3> QED BY <3>1 DEF ImplInv, UntouchedInv, Waiting
  <2>6. "legacy" \in Who[o] /\ "upstream" \notin Who[o]
    BY <2>3, <2>4, Whose
  <2>7. Who' = [Who EXCEPT ![o] = @ \ {"legacy"}]
    <3>1. versioned' = versioned
      BY <1>9, <2>1
    <3>2. ASSUME NEW p \in CRsOfH
          PROVE  Reconcilers(p)' = IF p = o THEN Reconcilers(p) \ {"legacy"}
                                   ELSE Reconcilers(p)
      BY <2>1, <2>2, <3>1 DEF Reconcilers, Operators
    <3> QED BY <3>2 DEF Who
  <2>8. PrepareDone' => H!Released'
    <3> SUFFICES ASSUME PrepareDone' PROVE H!Released'
      OBVIOUS
    <3>1. operated' = {}
      BY <1>8
    <3> QED BY <3>1 DEF H!Released, Reconcilers
  <2>9. PrepareDone' \in {PrepareDone, H!Released'}
    BY <1>2, <2>4, <2>8 DEF H!Released
  <2>10. H!Release(o)
    BY <2>1, <2>5, <2>6, <2>7, <2>9 DEF H!Release, Who
  <2> QED BY <2>3, <2>10 DEF H!Next
<1>7. CASE handed' # handed
  <2>1. UNCHANGED <<exists, operated, controlPlaneRef, rekeyed, pods, optIn>>
    BY <1>1, <1>7 DEF OneAtATime
  <2>2. PICK i \in TriggerSteps, m \in Managers :
           pc[m] = i /\ handed' = handed \cup {Program[i].obj}
    BY <1>1, <1>7 DEF Labels
  <2> DEFINE o == Program[i].obj
  <2>3. o \notin handed /\ o \in CRsOfH
    BY <1>7, <2>2 DEF HandedOver, ObjectsOf, TriggerSteps
  <2>4. PrepareDone
    <3> SUFFICES ASSUME NEW j \in Steps \ TriggerSteps PROVE Done(j)
      BY DEF PrepareDone
    <3>1. j < pc[m]
      BY <2>2, ProgramAssumption
    <3> QED BY <3>1 DEF ImplInv, ReleaseInv, HandoverInv, Progress
  <2>5. PrepareDone' = PrepareDone
    BY <1>2, <2>4
  <2>6. operated = {} /\ Who[o] \cap {"legacy", "upstream"} = {}
    BY <1>3, <2>3, <2>4, Whose
  <2>7. ASSUME NEW p \in LabelledBefore(o) PROVE "upstream" \in Who[p]
    <3>1. PICK k \in TriggerSteps, j \in TriggerSteps :
             k < j /\ Program[j].obj = o /\ Program[k].obj = p
      BY DEF LabelledBefore
    <3>2. j = i
      BY <3>1, ProgramAssumption
    <3>3. k \in Steps /\ Program[k].op = "trigger"
      BY DEF TriggerSteps, StepsOf
    <3>4. Done(k)
      BY <2>2, <3>1, <3>2, <3>3 DEF ImplInv, ReleaseInv, HandoverInv, Progress
    <3>5. p \in handed /\ p \in CRsOfH
      BY <3>1, <3>3, <3>4, ObjectFacts DEF Done
    <3> QED BY <2>6, <3>5, Whose
  <2>8. Who' = [Who EXCEPT ![o] = @ \cup {"upstream"}
                                    \cup H!IfSo("cluster-operator", o \in Versioned)]
    <3>1. versioned' = versioned \cup ({o} \cap Versioned)
      BY <1>9, <2>2
    <3>2. ASSUME NEW p \in CRsOfH
          PROVE  Reconcilers(p)' = IF p = o
                                   THEN Reconcilers(p) \cup {"upstream"}
                                          \cup H!IfSo("cluster-operator", o \in Versioned)
                                   ELSE Reconcilers(p)
      BY <2>1, <2>2, <3>1 DEF Reconcilers, Operators, H!IfSo
    <3> QED BY <3>2 DEF Who
  <2>9. H!HandOver(o)
    BY <2>1, <2>3, <2>4, <2>5, <2>6, <2>7, <2>8 DEF H!HandOver, Who
  <2> QED BY <2>3, <2>9 DEF H!Next
<1> QED BY <1>4, <1>5, <1>6, <1>7

\* Any number of managers, passes, failures and crashes of any program amount
\* to one orderly hand-over: a CR is never the legacy operator's and upstream's at
\* once, never goes back, and cluster-operator's label comes with upstream's.
THEOREM MigratorImplementsHandover == Spec => ImplementsHandover
<1>1. Init => H!Init
  BY ImplInit
<1>2. ImplInv /\ ImplInv' /\ [Next]_vars => [H!Next]_H!vars
  BY ImplStep
<1>3. Spec => []ReleaseInv
  BY ReleaseInvariant
<1>4. Spec => []UntouchedInv
  BY UntouchedInit, UntouchedStep, PTL DEF Spec
<1>5. Spec => []VersionedInv
  BY VersionedInit, VersionedStep, PTL DEF Spec
<1> HIDE DEF ReleaseInv, UntouchedInv, VersionedInv
<1> QED BY <1>1, <1>2, <1>3, <1>4, <1>5, PTL DEF Spec, ImplInv, ImplementsHandover, H!Spec

-----------------------------------------------------------------------------
(* What Migrator therefore keeps. *)

P == INSTANCE HandoverPromises
       WITH CRs         <- Adopted \cup HandedOver,
            Legacy      <- Adopted,
            Shared      <- Versioned,
            SharedFirst <- VersionedFirst,
            Before      <- [o \in Adopted \cup HandedOver |-> LabelledBefore(o)],
            asked       <- optIn,
            complete    <- PrepareDone,
            reconciler  <- [o \in Adopted \cup HandedOver |-> Reconcilers(o)]

LEMMA MigratorPromises == Spec => P!Spec
<1>1. Init => P!Init
  BY ImplInit DEF H!Init, P!Init, H!IfSo, P!IfSo
<1>2. ImplInv /\ ImplInv' /\ [Next]_vars => [P!Next]_P!vars
  BY ImplStep DEF H!Next, P!Next, H!vars, P!vars, H!Ask, P!Ask, H!Complete, P!Complete,
     H!Release, P!Release, H!HandOver, P!HandOver, H!Released, P!Released, H!IfSo, P!IfSo
<1>3. Spec => []ReleaseInv
  BY ReleaseInvariant
<1>4. Spec => []UntouchedInv
  BY UntouchedInit, UntouchedStep, PTL DEF Spec
<1>5. Spec => []VersionedInv
  BY VersionedInit, VersionedStep, PTL DEF Spec
<1> HIDE DEF ReleaseInv, UntouchedInv, VersionedInv
<1> QED BY <1>1, <1>2, <1>3, <1>4, <1>5, PTL DEF Spec, ImplInv, P!Spec

\* Whatever the managers, passes and failures, no CR is ever the legacy operator's
\* and upstream's; a CR is upstream's only when all is ready for it; cluster-operator
\* has the shared CRs exactly when upstream has them, and those it had before; and
\* nothing goes back.
THEOREM MigratorKeepsPromises ==
    Spec => []P!NeverBoth /\ []P!UpstreamWhenReady /\ []P!SharedTogether /\ P!NeverBack
  BY MigratorPromises, P!NeverTwoOwners, P!UpstreamIsReady, P!SharedComeTogether,
     P!NothingGoesBack, PTL
=============================================================================
