--------------------------- MODULE MigratorProofs ---------------------------
(***************************************************************************)
(* What holds of Migrator for every program, any managers and masters, and *)
(* every bound on faults and noise.                                        *)
(***************************************************************************)
EXTENDS Migrator, TLAPS

USE DEF Ops

\* A program is a sequence, and its steps are its indices.
LEMMA ProgramFacts ==
    /\ Len(Program) \in Nat
    /\ \A i \in Steps : i \in Nat /\ 1 <= i /\ i <= Len(Program)
    /\ \A i \in 1 .. Len(Program) : i \in Steps
  BY ProgramAssumption DEF Steps

\* The object of a step belongs to the set named for the step's kind.
LEMMA ObjectFacts ==
    \A i \in Steps :
       /\ Program[i].op = "read"    => Program[i].obj \in Fields
       /\ Program[i].op = "create"  => Program[i].obj \in Created \cap Fields
       /\ Program[i].op = "ensure"  => Program[i].obj \in Ensured
       /\ Program[i].op = "rekey"   => Program[i].obj \in Rekeyed
       /\ Program[i].op = "adopt"   => Program[i].obj \in Adopted \cap Fields
       /\ Program[i].op = "trigger" => Program[i].obj \in HandedOver
       /\ i \in TriggerSteps <=> Program[i].op = "trigger"
  BY ProgramAssumption DEF Fields, Created, Ensured, Adopted, HandedOver,
                           Rekeyed, ObjectsOf, StepsOf, TriggerSteps

\* What is rewritten or handed over is a field of m.crs, read or created before.
LEMMA HandedIsHeld ==
    /\ HandedOver \cup Adopted \subseteq Fields
    /\ (HandedOver \cup Adopted) \cap Rekeyed = {}
<1>1. ASSUME NEW o \in HandedOver \cup Adopted PROVE o \in Fields
  <2>1. PICK i \in Steps : Program[i].op \in {"adopt", "trigger"} /\ Program[i].obj = o
    BY DEF HandedOver, Adopted, ObjectsOf, StepsOf
  <2>2. PICK j \in Steps : Program[j].op \in {"read", "create"} /\ Program[j].obj = o
    BY <2>1, ProgramAssumption
  <2> QED BY <2>2 DEF Fields, Created, ObjectsOf, StepsOf
<1> QED BY <1>1, ProgramAssumption

\* The Cluster is a legacy CR the passes read and never create.
LEMMA ClusterFacts ==
    "Cluster" \in Adopted /\ "Cluster" \in Fields /\ "Cluster" \notin Created \cup Ensured
  BY ProgramAssumption DEF Fields

-----------------------------------------------------------------------------
(* Type correctness. *)

\* The end of a pass, of a process and a write keep the managers' state typed.
LEMMA EndPassType ==
    ASSUME TypeOK, NEW m \in Managers, NEW again \in BOOLEAN, EndPass(m, again)
    PROVE  /\ pc' \in [Managers -> 0 .. Len(Program) + 1]
           /\ held' \in [Managers -> [Fields -> CopyStates]]
           /\ target' \in [Managers -> Masters \cup {NoMaster}]
           /\ queued' \in [Managers -> BOOLEAN]
  BY ProgramFacts DEF TypeOK, EndPass, Nothing, CopyStates

LEMMA DownType ==
    ASSUME TypeOK, NEW m \in Managers, Down(m)
    PROVE  /\ pc' \in [Managers -> 0 .. Len(Program) + 1]
           /\ held' \in [Managers -> [Fields -> CopyStates]]
           /\ target' \in [Managers -> Masters \cup {NoMaster}]
           /\ queued' \in [Managers -> BOOLEAN]
           /\ down' \subseteq Managers
  BY ProgramFacts DEF TypeOK, Down, Nothing, CopyStates

LEMMA AdvanceType ==
    ASSUME TypeOK, NEW m \in Managers, pc[m] \in Steps, Advance(m)
    PROVE  pc' \in [Managers -> 0 .. Len(Program) + 1]
  BY ProgramFacts DEF TypeOK, Advance

LEMMA BumpType ==
    ASSUME TypeOK, NEW o, NEW writers, Bump(o, writers)
    PROVE  /\ held' \in [Managers -> [Fields -> CopyStates]]
           /\ fresh' \in [Managers -> SUBSET Cached]
  BY DEF TypeOK, Bump, CopyStates

LEMMA ViewType == View \in Views
  BY DEF View, Views

\* Every variable keeps its type: in particular only CRs of the hand-over are
\* ever labelled, only legacy CRs lose their operator label, and only masters
\* with a pod are stopped.
THEOREM TypeInit == Init => TypeOK
<1> SUFFICES ASSUME Init PROVE TypeOK
  OBVIOUS
<1>1. faults \in 0 .. MaxFaults /\ noise \in 0 .. MaxNoise
  BY EnvironmentAssumption DEF Init
<1>2. pc \in [Managers -> 0 .. Len(Program) + 1]
  BY ProgramFacts DEF Init
<1>3. held \in [Managers -> [Fields -> CopyStates]]
  BY DEF Init, Nothing, CopyStates
<1>4. /\ exists \subseteq Cached \cup Created \cup Ensured
      /\ operated \subseteq Adopted
      /\ finalizers \in [Adopted -> SUBSET {"legacy", "other"}]
      /\ controlPlaneRef \in References
      /\ handed \subseteq HandedOver /\ rekeyed \subseteq Rekeyed
      /\ versioned \subseteq Adopted \cup HandedOver
      /\ optIn \in BOOLEAN /\ optedOut \in BOOLEAN /\ deleting \in BOOLEAN
      /\ pods \subseteq Masters /\ stopped \subseteq pods
  BY EnvironmentAssumption DEF Init, References
<1>5. /\ queued \in [Managers -> BOOLEAN]
      /\ fresh \in [Managers -> SUBSET Cached]
      /\ sees \in [Managers -> Views]
      /\ target \in [Managers -> Masters \cup {NoMaster}]
      /\ down \subseteq Managers
  BY DEF Init, Views
<1> QED BY <1>1, <1>2, <1>3, <1>4, <1>5 DEF TypeOK

THEOREM TypeStep == TypeOK /\ [Next]_vars => TypeOK'
<1> SUFFICES ASSUME TypeOK, [Next]_vars PROVE TypeOK'
  OBVIOUS
<1> USE ProgramFacts, ObjectFacts, ClusterFacts
<1>u. CASE UNCHANGED vars
  BY <1>u DEF vars, crs, user, nodes, pass, cache, process, budget, TypeOK
<1>a. ASSUME NEW m \in Managers, Reconcile(m) PROVE TypeOK'
  BY <1>a DEF Reconcile, TypeOK, crs, user, nodes, cache, budget
<1>b. ASSUME NEW m \in Managers, ReconcileNotFound(m) PROVE TypeOK'
  BY <1>b, <1>u DEF ReconcileNotFound
<1>c. ASSUME NEW m \in Managers, NewMigrator(m) PROVE TypeOK'
  <2>1. pc[m] \in Steps
    BY <1>c DEF NewMigrator, At
  <2>2. /\ pc' \in [Managers -> 0 .. Len(Program) + 1]
        /\ held' \in [Managers -> [Fields -> CopyStates]]
        /\ target' \in [Managers -> Masters \cup {NoMaster}]
        /\ queued' \in [Managers -> BOOLEAN]
    BY <1>c, <2>1, AdvanceType, EndPassType DEF NewMigrator, TypeOK
  <2> QED BY <1>c, <2>2 DEF NewMigrator, TypeOK, crs, user, nodes, cache, budget
<1>d. ASSUME NEW m \in Managers, ReadCR(m) PROVE TypeOK'
  <2>1. pc[m] \in Steps /\ Object(m) \in Fields
    BY <1>d DEF ReadCR, At, Object
  <2>2. pc' \in [Managers -> 0 .. Len(Program) + 1]
    BY <1>d, <2>1, AdvanceType DEF ReadCR
  <2>3. held' \in [Managers -> [Fields -> CopyStates]]
    BY <1>d, <2>1 DEF ReadCR, TypeOK, CopyStates
  <2> QED BY <1>d, <2>2, <2>3
          DEF ReadCR, TypeOK, crs, user, nodes, cache, process, budget
<1>e. ASSUME NEW m \in Managers, ReadMissing(m) PROVE TypeOK'
  BY <1>e, EndPassType
  DEF ReadMissing, TypeOK, crs, user, nodes, cache, budget
<1>f. ASSUME NEW m \in Managers, Ensure(m) PROVE TypeOK'
  <2>1. pc[m] \in Steps /\ Object(m) \in Ensured
    BY <1>f DEF Ensure, At, Object
  <2>2. /\ pc' \in [Managers -> 0 .. Len(Program) + 1]
        /\ held' \in [Managers -> [Fields -> CopyStates]]
        /\ target' \in [Managers -> Masters \cup {NoMaster}]
        /\ queued' \in [Managers -> BOOLEAN]
    BY <1>f, <2>1, AdvanceType, EndPassType DEF Ensure, TypeOK
  <2>3. exists' \subseteq Cached \cup Created \cup Ensured
    BY <1>f, <2>1 DEF Ensure, TypeOK
  <2> QED BY <1>f, <2>2, <2>3 DEF Ensure, TypeOK, user, nodes, cache, budget
<1>v. ASSUME NEW m \in Managers, Rekey(m) PROVE TypeOK'
  <2>1. pc[m] \in Steps /\ Object(m) \in Rekeyed
    BY <1>v DEF Rekey, At, Object
  <2>2. pc' \in [Managers -> 0 .. Len(Program) + 1]
    BY <1>v, <2>1, AdvanceType DEF Rekey
  <2>3. /\ held' \in [Managers -> [Fields -> CopyStates]]
        /\ fresh' \in [Managers -> SUBSET Cached]
    BY <1>v, BumpType DEF Rekey, TypeOK
  <2> QED BY <1>v, <2>1, <2>2, <2>3 DEF Rekey, TypeOK, user, nodes, process, budget
<1>g. ASSUME NEW m \in Managers, CreateCR(m) PROVE TypeOK'
  <2>1. pc[m] \in Steps /\ Object(m) \in Created \cap Fields
    BY <1>g DEF CreateCR, At, Object
  <2>2. pc' \in [Managers -> 0 .. Len(Program) + 1]
    BY <1>g, <2>1, AdvanceType DEF CreateCR
  <2>3. held' \in [Managers -> [Fields -> CopyStates]]
    BY <1>g, <2>1 DEF CreateCR, CopyAfterCreate, TypeOK, CopyStates
  <2> QED BY <1>g, <2>1, <2>2, <2>3
          DEF CreateCR, TypeOK, user, nodes, cache, process, budget
<1>h. ASSUME NEW m \in Managers, UpdateCR(m) PROVE TypeOK'
  <2>1. pc[m] \in Steps /\ Object(m) \in Adopted
    BY <1>h DEF UpdateCR, At, Object
  <2>2. pc' \in [Managers -> 0 .. Len(Program) + 1]
    BY <1>h, <2>1, AdvanceType DEF UpdateCR
  <2>3. /\ held' \in [Managers -> [Fields -> CopyStates]]
        /\ fresh' \in [Managers -> SUBSET Cached]
    BY <1>h, BumpType DEF UpdateCR, TypeOK
  <2>4. /\ exists' \subseteq Cached \cup Created \cup Ensured
        /\ operated' \subseteq Adopted
        /\ finalizers' \in [Adopted -> SUBSET {"legacy", "other"}]
        /\ controlPlaneRef' \in References
    BY <1>h, <2>1 DEF UpdateCR, NewReference, References, TypeOK
  <2> QED BY <1>h, <2>2, <2>3, <2>4
          DEF UpdateCR, TypeOK, user, nodes, process, budget
<1>i. ASSUME NEW m \in Managers, FindMaster(m) PROVE TypeOK'
  <2>1. pc' \in [Managers -> 0 .. Len(Program) + 1]
    BY <1>i, AdvanceType DEF FindMaster, At, TypeOK
  <2>2. target' \in [Managers -> Masters \cup {NoMaster}]
    <3>1. ~(Masters \subseteq pods) => FirstWithoutPod \in Masters
      BY DEF FirstWithoutPod
    <3> QED BY <1>i, <3>1 DEF FindMaster, TypeOK
  <2> QED BY <1>i, <2>1, <2>2
          DEF FindMaster, TypeOK, crs, user, nodes, cache, process, budget
<1>j. ASSUME NEW m \in Managers, CreatePod(m) PROVE TypeOK'
  <2>1. /\ pc' \in [Managers -> 0 .. Len(Program) + 1]
        /\ held' \in [Managers -> [Fields -> CopyStates]]
        /\ target' \in [Managers -> Masters \cup {NoMaster}]
        /\ queued' \in [Managers -> BOOLEAN]
    BY <1>j, AdvanceType, EndPassType DEF CreatePod, At, TypeOK
  <2>2. pods' \subseteq Masters /\ stopped' \subseteq pods'
    BY <1>j DEF CreatePod, TypeOK
  <2> QED BY <1>j, <2>1, <2>2 DEF CreatePod, TypeOK, crs, user, cache, budget
<1>k. ASSUME NEW m \in Managers, TriggerCR(m) PROVE TypeOK'
  <2>1. pc[m] \in Steps /\ Object(m) \in HandedOver
    BY <1>k DEF TriggerCR, At, Object
  <2>2. pc' \in [Managers -> 0 .. Len(Program) + 1]
    BY <1>k, <2>1, AdvanceType DEF TriggerCR
  <2>3. /\ held' \in [Managers -> [Fields -> CopyStates]]
        /\ fresh' \in [Managers -> SUBSET Cached]
    BY <1>k, BumpType DEF TriggerCR, TypeOK
  <2> QED BY <1>k, <2>1, <2>2, <2>3
          DEF TriggerCR, WithWatchFilter, TypeOK, user, nodes, process, budget
<1>l. ASSUME NEW m \in Managers,
             Finish(m) \/ Conflict(m) \/ Fail(m) \/ Unreachable(m)
      PROVE  TypeOK'
  <2>1. /\ EndPass(m, FALSE) \/ EndPass(m, TRUE)
        /\ UNCHANGED <<crs, user, nodes, cache, down, noise>>
    BY <1>l DEF Finish, Conflict, Fail, Unreachable, budget
  <2>2. CASE UNCHANGED faults
    BY <2>1, <2>2, EndPassType DEF TypeOK, crs, user, nodes, cache
  <2>3. CASE Fail(m)
    <3>1. faults' \in 0 .. MaxFaults
      BY <2>3, EnvironmentAssumption DEF Fail, TypeOK
    <3> QED BY <2>1, <3>1, EndPassType DEF TypeOK, crs, user, nodes, cache
  <2> QED BY <1>l, <2>2, <2>3 DEF Finish, Conflict, Unreachable, budget
<1>m. ASSUME NEW m \in Managers, Panic(m) \/ Crash(m) PROVE TypeOK'
  <2>1. Down(m) /\ UNCHANGED <<crs, user, nodes, cache, noise>>
    BY <1>m DEF Panic, Crash, budget
  <2>2. faults' \in 0 .. MaxFaults
    BY <1>m, EnvironmentAssumption DEF Panic, Crash, budget, TypeOK
  <2> QED BY <2>1, <2>2, DownType DEF TypeOK, crs, user, nodes, cache
<1>n. ASSUME NEW m \in Managers, Restart(m) PROVE TypeOK'
  BY <1>n, ViewType
  DEF Restart, Predicate, TypeOK, crs, user, nodes, pass, budget
<1>o. ASSUME NEW m \in Managers, NEW o \in Cached, SyncCache(m, o) PROVE TypeOK'
  <2>1. fresh' \in [Managers -> SUBSET Cached]
    BY <1>o DEF SyncCache, TypeOK
  <2>2. sees' \in [Managers -> Views]
    BY <1>o, ViewType DEF SyncCache, TypeOK
  <2>3. queued' \in [Managers -> BOOLEAN]
    <3> DEFINE due == queued[m] \/ Predicate(View) \/ (View = "gone" /\ Predicate(sees[m]))
    <3>1. due \in BOOLEAN
      OBVIOUS
    <3>2. queued' = queued \/ queued' = [queued EXCEPT ![m] = due]
      BY <1>o DEF SyncCache
    <3> HIDE DEF due
    <3> QED BY <3>1, <3>2 DEF TypeOK
  <2> QED BY <1>o, <2>1, <2>2, <2>3
          DEF SyncCache, TypeOK, crs, user, nodes, pass, budget
<1>p. ASSUME NEW m \in Managers, Resync(m) PROVE TypeOK'
  BY <1>p DEF Resync, TypeOK, crs, user, nodes, pass, cache, budget
<1>q. ASSUME OptIn \/ OptOut \/ Delete \/ Teardown PROVE TypeOK'
  <2>1. Bump("Cluster", {})
    BY <1>q DEF OptIn, OptOut, Delete, Teardown
  <2> QED BY <1>q, <2>1, BumpType
          DEF OptIn, OptOut, Delete, Teardown, TypeOK, crs, user, nodes, process, budget
<1>r. ASSUME NEW o, NEW owner \in {"none", "legacy", "other"},
             OperatorWrite(o, owner), owner # "none" => o \in Adopted
      PROVE  TypeOK'
  <2>1. /\ held' \in [Managers -> [Fields -> CopyStates]]
        /\ fresh' \in [Managers -> SUBSET Cached]
    BY <1>r, BumpType DEF OperatorWrite
  <2>2. finalizers' \in [Adopted -> SUBSET {"legacy", "other"}]
    BY <1>r DEF OperatorWrite, TypeOK
  <2>3. noise' \in 0 .. MaxNoise
    BY <1>r, EnvironmentAssumption DEF OperatorWrite, TypeOK
  <2> QED BY <1>r, <2>1, <2>2, <2>3
          DEF OperatorWrite, TypeOK, user, nodes, process
<1>s. ASSUME NEW n \in Masters, PodRuns(n) PROVE TypeOK'
  BY <1>s DEF PodRuns, TypeOK, crs, user, pass, cache, process, budget
<1>t. ASSUME LegacyWrite \/ ClusterOperatorWrite \/ UpstreamWrite PROVE TypeOK'
  <2>1. operated \subseteq Adopted
    BY DEF TypeOK
  <2> QED BY <1>t, <2>1, <1>r DEF LegacyWrite, ClusterOperatorWrite, UpstreamWrite
<1> QED
  BY <1>u, <1>a, <1>b, <1>c, <1>d, <1>e, <1>f, <1>g, <1>h, <1>i, <1>j, <1>k,
     <1>l, <1>m, <1>n, <1>o, <1>p, <1>q, <1>s, <1>t, <1>v
  DEF Next, PassStep, Environment

THEOREM TypeCorrect == Spec => []TypeOK
  BY TypeInit, TypeStep, PTL DEF Spec

-----------------------------------------------------------------------------
(* The hand-over.  What a step of a pass achieves is never undone, so the  *)
(* steps below a manager's pc are done, whoever did them; and a CR is      *)
(* labelled by a manager whose pc is at the CR's step.                     *)

\* What steps achieve only grows.
Grows ==
    /\ exists \ {"Cluster"} \subseteq exists'
    /\ operated' \subseteq operated
    /\ controlPlaneRef # "none" => controlPlaneRef' # "none"
    /\ handed \subseteq handed'
    /\ rekeyed \subseteq rekeyed'
    /\ pods \subseteq pods'

\* A pass begins, ends, stays where it is, or completes its step.
PcMoves ==
    \A n \in Managers :
       \/ pc'[n] \in {0, pc[n]}
       \/ pc[n] = 0 /\ pc'[n] = 1
       \/ \E i \in Steps : pc[n] = i /\ pc'[n] = i + 1 /\ Done(i)'

\* A CR is labelled at its own step, from a copy that is up to date.
Labels ==
    \/ handed' = handed
    \/ \E i \in TriggerSteps, m \in Managers :
          /\ pc[m] = i /\ held[m][Program[i].obj] = "current"
          /\ handed' = handed \cup {Program[i].obj}

\* Steps that end a pass or do not touch it, and leave the CRs and pods alone.
LEMMA QuietStep ==
    ASSUME TypeOK, UNCHANGED <<crs, pods>>, NEW m \in Managers,
           \/ UNCHANGED pc
           \/ EndPass(m, TRUE) \/ EndPass(m, FALSE) \/ Down(m)
           \/ pc' = [pc EXCEPT ![m] = 0]
           \/ pc[m] = 0 /\ pc' = [pc EXCEPT ![m] = 1]
    PROVE  Grows /\ PcMoves /\ Labels
  BY DEF TypeOK, crs, EndPass, Down, Grows, PcMoves, Labels

\* A step that completes: the lemma leaves only Done to be shown.
LEMMA AdvanceMoves ==
    ASSUME TypeOK, NEW m \in Managers, NEW i \in Steps, pc[m] = i, Advance(m),
           Done(i)'
    PROVE  PcMoves
  BY ProgramFacts DEF TypeOK, Advance, PcMoves

LEMMA StepShape == TypeOK /\ [Next]_vars => Grows /\ PcMoves /\ Labels
<1> SUFFICES ASSUME TypeOK, [Next]_vars PROVE Grows /\ PcMoves /\ Labels
  OBVIOUS
<1> USE ProgramFacts, ObjectFacts, ClusterFacts
<1>u. CASE UNCHANGED vars
  BY <1>u DEF vars, crs, nodes, pass, Grows, PcMoves, Labels
<1>a. ASSUME NEW m \in Managers, Reconcile(m) \/ ReconcileNotFound(m)
      PROVE  Grows /\ PcMoves /\ Labels
  BY <1>a, <1>u, QuietStep DEF Reconcile, ReconcileNotFound, nodes
<1>b. ASSUME NEW m \in Managers, NewMigrator(m) PROVE Grows /\ PcMoves /\ Labels
  <2>1. PICK i \in Steps : pc[m] = i /\ Program[i].op = "connect"
    BY <1>b DEF NewMigrator, At
  <2>2. Done(i)'
    BY <2>1 DEF Done
  <2>3. UNCHANGED <<crs, pods>>
    BY <1>b DEF NewMigrator, nodes
  <2>4. CASE EndPass(m, FALSE)
    BY <2>3, <2>4, QuietStep
  <2>5. CASE Advance(m)
    <3>1. PcMoves
      BY <2>1, <2>2, <2>5, AdvanceMoves
    <3> QED BY <2>3, <3>1 DEF Grows, Labels, crs
  <2> QED BY <1>b, <2>4, <2>5 DEF NewMigrator
<1>c. ASSUME NEW m \in Managers, ReadCR(m) PROVE Grows /\ PcMoves /\ Labels
  <2>1. PICK i \in Steps : pc[m] = i /\ Program[i].op = "read"
    BY <1>c DEF ReadCR, At
  <2>2. Done(i)'
    BY <2>1 DEF Done
  <2>3. PcMoves
    BY <1>c, <2>1, <2>2, AdvanceMoves DEF ReadCR
  <2> QED BY <1>c, <2>3 DEF ReadCR, Grows, Labels, crs, nodes
<1>d. ASSUME NEW m \in Managers, Ensure(m) \/ CreateCR(m)
      PROVE  Grows /\ PcMoves /\ Labels
  <2>1. PICK i \in Steps : pc[m] = i /\ Program[i].op \in {"ensure", "create"}
    BY <1>d DEF Ensure, CreateCR, At
  <2>2. UNCHANGED <<operated, controlPlaneRef, handed, rekeyed, pods>>
    BY <1>d DEF Ensure, CreateCR, nodes
  <2>3. CASE exists' = exists \cup {Program[i].obj} /\ Advance(m)
    <3>1. Done(i)'
      BY <2>1, <2>3 DEF Done
    <3>2. PcMoves
      BY <2>1, <2>3, <3>1, AdvanceMoves
    <3> QED BY <2>2, <2>3, <3>2 DEF Grows, Labels
  <2>4. CASE UNCHANGED exists /\ EndPass(m, TRUE)
    BY <2>2, <2>4 DEF EndPass, TypeOK, Grows, PcMoves, Labels
  <2> QED BY <1>d, <2>1, <2>3, <2>4 DEF Ensure, CreateCR, Object
<1>k. ASSUME NEW m \in Managers, Rekey(m) PROVE Grows /\ PcMoves /\ Labels
  <2>1. PICK i \in Steps : pc[m] = i /\ Program[i].op = "rekey"
    BY <1>k DEF Rekey, At
  <2>2. rekeyed' = rekeyed \cup {Program[i].obj}
    BY <1>k, <2>1 DEF Rekey, Object
  <2>3. Done(i)'
    BY <2>1, <2>2 DEF Done
  <2>4. PcMoves
    BY <1>k, <2>1, <2>3, AdvanceMoves DEF Rekey
  <2> QED BY <1>k, <2>2, <2>4 DEF Rekey, Grows, Labels, nodes
<1>e. ASSUME NEW m \in Managers, UpdateCR(m) PROVE Grows /\ PcMoves /\ Labels
  <2>1. PICK i \in Steps : pc[m] = i /\ Program[i].op = "adopt"
    BY <1>e DEF UpdateCR, At
  <2>2. /\ operated' = operated \ {Program[i].obj}
        /\ controlPlaneRef # "none" \/ Program[i].obj = "Cluster"
             => controlPlaneRef' # "none"
        /\ exists \ {"Cluster"} \subseteq exists'
    BY <1>e, <2>1 DEF UpdateCR, NewReference, Object
  <2>3. Done(i)'
    BY <2>1, <2>2 DEF Done
  <2>4. PcMoves
    BY <1>e, <2>1, <2>3, AdvanceMoves DEF UpdateCR
  <2>5. UNCHANGED <<handed, rekeyed, pods>>
    BY <1>e DEF UpdateCR, nodes
  <2> QED BY <2>2, <2>4, <2>5 DEF Grows, Labels
<1>f. ASSUME NEW m \in Managers, FindMaster(m) PROVE Grows /\ PcMoves /\ Labels
  <2>1. PICK i \in Steps : pc[m] = i /\ Program[i].op = "disable"
    BY <1>f DEF FindMaster, At
  <2>2. UNCHANGED <<crs, pods>>
    BY <1>f DEF FindMaster, nodes
  <2>3. CASE UNCHANGED pc
    BY <2>2, <2>3, QuietStep
  <2>4. CASE Masters \subseteq pods /\ Advance(m)
    <3>1. pods' # {}
      BY <2>2, <2>4, EnvironmentAssumption
    <3>2. Done(i)'
      BY <2>1, <3>1 DEF Done
    <3>3. PcMoves
      BY <2>1, <2>4, <3>2, AdvanceMoves
    <3> QED BY <2>2, <3>3 DEF Grows, Labels, crs
  <2> QED BY <1>f, <2>3, <2>4 DEF FindMaster
<1>g. ASSUME NEW m \in Managers, CreatePod(m) PROVE Grows /\ PcMoves /\ Labels
  <2>1. PICK i \in Steps : pc[m] = i /\ Program[i].op = "disable"
    BY <1>g DEF CreatePod, At
  <2>2. UNCHANGED crs /\ pods' = pods \cup {target[m]}
    BY <1>g DEF CreatePod
  <2>3. Done(i)'
    BY <2>1, <2>2 DEF Done
  <2>4. CASE Advance(m)
    BY <2>1, <2>2, <2>3, <2>4, AdvanceMoves DEF Grows, Labels, crs
  <2>5. CASE target[m] \in pods /\ EndPass(m, TRUE)
    BY <2>2, <2>5, QuietStep
  <2> QED BY <1>g, <2>4, <2>5 DEF CreatePod
<1>h. ASSUME NEW m \in Managers, TriggerCR(m) PROVE Grows /\ PcMoves /\ Labels
  <2>1. PICK i \in Steps : pc[m] = i /\ Program[i].op = "trigger"
    BY <1>h DEF TriggerCR, At
  <2>2. /\ handed' = handed \cup {Program[i].obj}
        /\ held[m][Program[i].obj] = "current"
    BY <1>h, <2>1, HandedIsHeld DEF TriggerCR, WithWatchFilter, Writable, Object
  <2>3. Done(i)'
    BY <2>1, <2>2 DEF Done
  <2>4. PcMoves
    BY <1>h, <2>1, <2>3, AdvanceMoves DEF TriggerCR
  <2>5. UNCHANGED <<exists, operated, controlPlaneRef, rekeyed, pods>>
    BY <1>h DEF TriggerCR, nodes
  <2> QED BY <2>1, <2>2, <2>4, <2>5 DEF Grows, Labels
<1>i. ASSUME NEW m \in Managers,
             \/ ReadMissing(m) \/ Finish(m) \/ Conflict(m) \/ Fail(m)
             \/ Unreachable(m) \/ Panic(m) \/ Crash(m) \/ Restart(m) \/ Resync(m)
             \/ \E o \in Cached : SyncCache(m, o)
      PROVE  Grows /\ PcMoves /\ Labels
  <2>1. UNCHANGED <<crs, pods>>
    BY <1>i DEF ReadMissing, Finish, Conflict, Fail, Unreachable, Panic, Crash,
                Restart, Resync, SyncCache, nodes
  <2>2. \/ UNCHANGED pc
        \/ EndPass(m, TRUE) \/ EndPass(m, FALSE) \/ Down(m)
    BY <1>i DEF ReadMissing, Finish, Conflict, Fail, Unreachable, Panic, Crash,
                Restart, Resync, SyncCache, pass
  <2> QED BY <2>1, <2>2, QuietStep
<1>j. ASSUME Environment PROVE Grows /\ PcMoves /\ Labels
  <2>1. /\ UNCHANGED <<pc, operated, controlPlaneRef, handed, rekeyed, pods>>
        /\ exists \ {"Cluster"} \subseteq exists'
    BY <1>j DEF Environment, OptIn, OptOut, Delete, Teardown, LegacyWrite,
                ClusterOperatorWrite, UpstreamWrite,
                OperatorWrite, PodRuns, crs, nodes, pass
  <2> QED BY <2>1 DEF Grows, PcMoves, Labels
<1> QED
  BY <1>u, <1>a, <1>b, <1>c, <1>d, <1>e, <1>f, <1>g, <1>h, <1>i, <1>j,
     <1>k
  DEF Next, PassStep

\* What is done stays done.
LEMMA DoneStable ==
    ASSUME Grows, NEW i \in Steps, Done(i)
    PROVE  Done(i)'
  BY ObjectFacts, ClusterFacts DEF Grows, Done

\* The inductive invariant: below the pc of any manager everything is done,
\* and below the step of any labelled CR too.
Progress == \A m \in Managers, i \in Steps : i < pc[m] => Done(i)

Justified ==
    \A i \in TriggerSteps, j \in Steps :
        Program[i].obj \in handed /\ j < i => Done(j)

HandoverInv == TypeOK /\ Progress /\ Justified

LEMMA HandoverInit == Init => HandoverInv
<1> SUFFICES ASSUME Init PROVE HandoverInv
  OBVIOUS
<1>1. TypeOK
  BY TypeInit
<1>2. Progress
  BY ProgramFacts DEF Init, Progress
<1>3. Justified
  BY DEF Init, Justified
<1> QED BY <1>1, <1>2, <1>3 DEF HandoverInv

LEMMA HandoverStep == HandoverInv /\ [Next]_vars => HandoverInv'
<1> SUFFICES ASSUME HandoverInv, [Next]_vars PROVE HandoverInv'
  OBVIOUS
<1>1. TypeOK /\ TypeOK'
  BY TypeStep DEF HandoverInv
<1>2. Grows /\ PcMoves /\ Labels
  BY <1>1, StepShape
<1>3. ASSUME NEW i \in Steps, Done(i) PROVE Done(i)'
  BY <1>2, <1>3, DoneStable
<1>4. Progress'
  <2> SUFFICES ASSUME NEW m \in Managers, NEW i \in Steps, i < pc'[m]
               PROVE  Done(i)'
    BY DEF Progress
  <2>0. i \in Nat /\ i >= 1 /\ pc[m] \in Nat
    BY ProgramFacts, <1>1 DEF TypeOK
  <2>1. CASE i < pc[m]
    BY <2>1, <1>3 DEF HandoverInv, Progress
  <2>2. CASE \E k \in Steps : pc[m] = k /\ pc'[m] = k + 1 /\ Done(k)'
    <3> PICK k \in Steps : pc[m] = k /\ pc'[m] = k + 1 /\ Done(k)'
      BY <2>2
    <3>1. i < k \/ i = k
      BY ProgramFacts, <2>0
    <3> QED BY <3>1, <2>1
  <2>3. CASE pc'[m] \in {0, pc[m]} \/ pc'[m] = 1
    BY <2>0, <2>1, <2>3
  <2> QED BY <1>2, <2>1, <2>2, <2>3 DEF PcMoves
<1>5. Justified'
  <2> SUFFICES ASSUME NEW i \in TriggerSteps, NEW j \in Steps,
                      Program[i].obj \in handed', j < i
               PROVE  Done(j)'
    BY DEF Justified
  <2>1. CASE Program[i].obj \in handed
    BY <2>1, <1>3 DEF HandoverInv, Justified
  <2>2. CASE Program[i].obj \notin handed
    <3>1. PICK k \in TriggerSteps, m \in Managers :
             pc[m] = k /\ handed' = handed \cup {Program[k].obj}
      BY <1>2, <2>2 DEF Labels
    <3>2. k = i
      BY <2>2, <3>1, ProgramAssumption
    <3> QED BY <3>1, <3>2, <1>3 DEF HandoverInv, Progress
  <2> QED BY <2>1, <2>2
<1> QED BY <1>1, <1>4, <1>5 DEF HandoverInv

THEOREM HandoverInvariant == Spec => []HandoverInv
  BY HandoverInit, HandoverStep, PTL DEF Spec

LEMMA AfterPrepare == HandoverInv => HandoverAfterPrepare
<1> SUFFICES ASSUME HandoverInv, handed # {}, NEW j \in Steps \ TriggerSteps
             PROVE  Done(j)
  BY DEF HandoverAfterPrepare
<1>0. PICK o \in handed : o \in HandedOver
  BY DEF HandoverInv, TypeOK
<1>1. PICK i \in TriggerSteps : Program[i].obj \in handed
  BY <1>0 DEF HandedOver, ObjectsOf, TriggerSteps
<1>2. j < i
  BY ProgramAssumption
<1> QED BY <1>1, <1>2 DEF HandoverInv, Justified

\* Upstream controllers get their first CR only after everything Prepare
\* promises is there, for any number of managers, crashes and failures.
THEOREM HandoverIsPrepared == Spec => []HandoverAfterPrepare
  BY HandoverInvariant, AfterPrepare, PTL

LEMMA InOrder == HandoverInv => HandoverInOrder
<1> SUFFICES ASSUME HandoverInv, NEW j \in TriggerSteps, Program[j].obj \in handed,
                    NEW i \in TriggerSteps, i < j
             PROVE  Program[i].obj \in handed
  BY DEF HandoverInOrder
<1>1. i \in Steps /\ Program[i].op = "trigger"
  BY DEF TriggerSteps, StepsOf
<1>2. Done(i)
  BY <1>1 DEF HandoverInv, Justified
<1> QED BY <1>1, <1>2 DEF Done

\* The CRs are labelled in the order of triggerMigration, over all passes.
THEOREM HandoverIsOrdered == Spec => []HandoverInOrder
  BY HandoverInvariant, InOrder, PTL

-----------------------------------------------------------------------------
(* The copies a pass holds.                                                *)

\* How a step changes the copies of the CRs: the copy of a created CR is the
\* store's own only for the manager whose Create made it.
HeldMoves ==
    \A n \in Managers, f \in Fields :
       \/ held'[n][f] = held[n][f]
       \/ held[n][f] \in {"current", "stale"} /\ held'[n][f] \in {"current", "stale"}
       \/ held'[n] = Nothing /\ pc'[n] = 0
       \/ \E i \in Steps :
             /\ pc[n] = i /\ pc'[n] = i + 1 /\ Program[i].obj = f
             /\ \/ /\ Program[i].op = "read" /\ held'[n][f] \in {"current", "stale"}
                \/ /\ Program[i].op = "create" /\ f \in exists'
                   /\ held'[n][f] = IF f \in exists THEN "bare" ELSE "current"
                   /\ \A k \in Managers : k # n => held'[k] = held[k]

\* Steps that only end passes, or do not touch the copies.
LEMMA QuietHeld ==
    ASSUME TypeOK, NEW m \in Managers,
           UNCHANGED held \/ EndPass(m, TRUE) \/ EndPass(m, FALSE) \/ Down(m)
    PROVE  HeldMoves
  BY DEF TypeOK, EndPass, Down, HeldMoves

\* A write refreshes or outdates copies.
LEMMA BumpHeld ==
    ASSUME TypeOK, NEW o, NEW writers, Bump(o, writers),
           \A n \in writers : o \in Fields => held[n][o] = "current"
    PROVE  HeldMoves
  BY DEF TypeOK, Bump, HeldMoves

LEMMA HeldShape == TypeOK /\ [Next]_vars => HeldMoves
<1> SUFFICES ASSUME TypeOK, [Next]_vars PROVE HeldMoves
  OBVIOUS
<1> USE ProgramFacts, ObjectFacts, ClusterFacts
<1>u. CASE UNCHANGED held
  BY <1>u DEF HeldMoves
<1>a. ASSUME NEW m \in Managers, ReadCR(m) PROVE HeldMoves
  <2>1. PICK i \in Steps : pc[m] = i /\ Program[i].op = "read"
    BY <1>a DEF ReadCR, At
  <2>2. PICK c \in {"current", "stale"} :
           held' = [held EXCEPT ![m][Program[i].obj] = c]
    BY <1>a, <2>1 DEF ReadCR, Object
  <2>3. pc' = [pc EXCEPT ![m] = i + 1]
    BY <1>a, <2>1 DEF ReadCR, Advance, TypeOK
  <2> QED BY <2>1, <2>2, <2>3 DEF HeldMoves, TypeOK
<1>b. ASSUME NEW m \in Managers, CreateCR(m) PROVE HeldMoves
  <2>1. PICK i \in Steps : pc[m] = i /\ Program[i].op = "create"
    BY <1>b DEF CreateCR, At
  <2> DEFINE o == Program[i].obj
  <2>2. held' = [held EXCEPT ![m][o] = IF o \in exists THEN "bare" ELSE "current"]
    BY <1>b, <2>1 DEF CreateCR, Object, CopyAfterCreate
  <2>3. pc' = [pc EXCEPT ![m] = i + 1]
    BY <1>b, <2>1 DEF CreateCR, Advance, TypeOK
  <2>4. o \in exists' /\ o \in Fields
    BY <1>b, <2>1 DEF CreateCR, Object
  <2> QED BY <2>1, <2>2, <2>3, <2>4 DEF HeldMoves, TypeOK
<1>c. ASSUME NEW m \in Managers, UpdateCR(m) \/ TriggerCR(m) PROVE HeldMoves
  <2>0. Object(m) \notin Rekeyed
    BY <1>c, HandedIsHeld DEF UpdateCR, TriggerCR, At, Object
  <2>1. held[m][Object(m)] = "current"
    BY <1>c, <2>0 DEF UpdateCR, TriggerCR, Writable
  <2>2. UNCHANGED held \/ Bump(Object(m), {m})
    BY <1>c DEF UpdateCR, TriggerCR
  <2> QED BY <2>1, <2>2, <1>u, BumpHeld
<1>d. ASSUME NEW m \in Managers,
             \/ NewMigrator(m) \/ ReadMissing(m) \/ Ensure(m) \/ CreatePod(m)
             \/ Finish(m) \/ Panic(m) \/ Conflict(m) \/ Unreachable(m)
             \/ Fail(m) \/ Crash(m)
      PROVE  HeldMoves
  <2>1. UNCHANGED held \/ EndPass(m, TRUE) \/ EndPass(m, FALSE) \/ Down(m)
    BY <1>d DEF NewMigrator, ReadMissing, Ensure, CreatePod, Finish, Panic,
                Conflict, Unreachable, Fail, Crash
  <2> QED BY <2>1, QuietHeld
<1>g. ASSUME NEW m \in Managers, Rekey(m) PROVE HeldMoves
  <2>1. Object(m) \notin Fields
    BY <1>g, ProgramAssumption DEF Rekey, At, Object
  <2>2. UNCHANGED held \/ Bump(Object(m), {m})
    BY <1>g DEF Rekey
  <2> QED BY <2>1, <2>2, <1>u, BumpHeld
<1>e. ASSUME NEW m \in Managers,
             \/ Reconcile(m) \/ ReconcileNotFound(m) \/ FindMaster(m)
             \/ Restart(m) \/ Resync(m) \/ \E o \in Cached : SyncCache(m, o)
      PROVE  HeldMoves
  BY <1>e, <1>u DEF Reconcile, ReconcileNotFound, FindMaster, Restart,
                    Resync, SyncCache, vars, pass
<1>f. ASSUME Environment PROVE HeldMoves
  <2>1. UNCHANGED held \/ \E o \in Fields \cup Cached : Bump(o, {})
    BY <1>f DEF Environment, OptIn, OptOut, Delete, Teardown, LegacyWrite,
                ClusterOperatorWrite, UpstreamWrite,
                OperatorWrite, PodRuns, TypeOK, Fields, Cached, pass
  <2> QED BY <2>1, <1>u, BumpHeld
<1> QED
  BY <1>u, <1>a, <1>b, <1>c, <1>d, <1>e, <1>f, <1>g
  DEF Next, PassStep, vars, pass

Own == {"current", "stale"}

\* A pass that completes a read or a create holds a copy; one that completes a
\* trigger step holds a copy the API server has accepted.
StepSets ==
    \A n \in Managers, i \in Steps :
       pc[n] = i /\ pc'[n] = i + 1 =>
          /\ Program[i].op \in {"read", "create"} => held'[n][Program[i].obj] # "nil"
          /\ Program[i].op = "trigger" => held'[n][Program[i].obj] \in Own

\* Steps that complete neither.
LEMMA QuietSets ==
    ASSUME TypeOK, NEW m \in Managers,
           \/ UNCHANGED pc
           \/ pc' = [pc EXCEPT ![m] = 0]
           \/ pc[m] = 0 /\ pc' = [pc EXCEPT ![m] = 1]
           \/ /\ Advance(m) /\ pc[m] \in Steps
              /\ Program[pc[m]].op \notin {"read", "create", "trigger"}
    PROVE  StepSets
<1> SUFFICES ASSUME NEW n \in Managers, NEW i \in Steps, pc[n] = i, pc'[n] = i + 1
             PROVE  Program[i].op \notin {"read", "create", "trigger"}
  BY DEF StepSets
<1>1. i \in Nat /\ i >= 1 /\ pc \in [Managers -> 0 .. Len(Program) + 1]
  BY ProgramFacts DEF TypeOK
<1>2. pc'[n] # pc[n] /\ pc'[n] # 0 /\ pc[n] # 0
  BY <1>1
<1> QED BY <1>1, <1>2 DEF Advance

LEMMA SetShape == TypeOK /\ [Next]_vars => StepSets
<1> SUFFICES ASSUME TypeOK, [Next]_vars PROVE StepSets
  OBVIOUS
<1> USE ProgramFacts, ObjectFacts
<1>u. CASE UNCHANGED pc
  BY <1>u DEF StepSets, TypeOK
<1>a. ASSUME NEW m \in Managers, ReadCR(m) \/ CreateCR(m) PROVE StepSets
  <2>1. PICK k \in Steps : pc[m] = k /\ Program[k].op \in {"read", "create"}
    BY <1>a DEF ReadCR, CreateCR, At
  <2>2. PICK c \in {"bare", "current", "stale"} :
           held' = [held EXCEPT ![m][Program[k].obj] = c]
    BY <1>a, <2>1 DEF ReadCR, CreateCR, CopyAfterCreate, Object
  <2>3. pc' = [pc EXCEPT ![m] = k + 1]
    BY <1>a, <2>1 DEF ReadCR, CreateCR, Advance, TypeOK
  <2> QED BY <2>1, <2>2, <2>3 DEF StepSets, TypeOK
<1>b. ASSUME NEW m \in Managers, TriggerCR(m) PROVE StepSets
  <2>1. PICK k \in Steps : pc[m] = k /\ Program[k].op = "trigger"
    BY <1>b DEF TriggerCR, At
  <2>2. held[m][Program[k].obj] = "current"
    BY <1>b, <2>1, HandedIsHeld DEF TriggerCR, Writable, Object
  <2>3. held' = held \/ Bump(Program[k].obj, {m})
    BY <1>b, <2>1 DEF TriggerCR, Object
  <2>4. held'[m][Program[k].obj] \in Own
    BY <2>2, <2>3 DEF Bump, TypeOK, Own
  <2>5. pc' = [pc EXCEPT ![m] = k + 1]
    BY <1>b, <2>1 DEF TriggerCR, Advance, TypeOK
  <2> QED BY <2>1, <2>4, <2>5 DEF StepSets, TypeOK
<1>c. ASSUME NEW m \in Managers,
             \/ Reconcile(m) \/ NewMigrator(m) \/ Rekey(m) \/ Ensure(m)
             \/ UpdateCR(m) \/ FindMaster(m) \/ CreatePod(m)
      PROVE  StepSets
  <2>1. \/ UNCHANGED pc
        \/ pc' = [pc EXCEPT ![m] = 0]
        \/ pc[m] = 0 /\ pc' = [pc EXCEPT ![m] = 1]
        \/ /\ Advance(m) /\ pc[m] \in Steps
           /\ Program[pc[m]].op \notin {"read", "create", "trigger"}
    BY <1>c DEF Reconcile, NewMigrator, Rekey, Ensure, UpdateCR, FindMaster,
                CreatePod, EndPass, At
  <2> QED BY <2>1, QuietSets
<1>d. ASSUME NEW m \in Managers,
             \/ ReadMissing(m) \/ Finish(m) \/ Panic(m) \/ Conflict(m)
             \/ Unreachable(m) \/ Fail(m) \/ Crash(m)
      PROVE  StepSets
  <2>1. pc' = [pc EXCEPT ![m] = 0]
    BY <1>d DEF ReadMissing, Finish, Panic, Conflict, Unreachable, Fail, Crash,
                EndPass, Down
  <2> QED BY <2>1, QuietSets
<1>e. ASSUME NEW m \in Managers,
             \/ ReconcileNotFound(m) \/ Restart(m) \/ Resync(m)
             \/ \E o \in Cached : SyncCache(m, o)
      PROVE  StepSets
  BY <1>e, <1>u DEF ReconcileNotFound, Restart, Resync, SyncCache, vars, pass
<1>f. ASSUME Environment PROVE StepSets
  BY <1>f, <1>u DEF Environment, OptIn, OptOut, Delete, Teardown, LegacyWrite,
                    ClusterOperatorWrite, UpstreamWrite, OperatorWrite, PodRuns, pass
<1>g. CASE UNCHANGED vars
  BY <1>g, <1>u DEF vars, pass
<1> QED
  BY <1>a, <1>b, <1>c, <1>d, <1>e, <1>f, <1>g DEF Next, PassStep

-----------------------------------------------------------------------------
(* No unset field is dereferenced. *)

\* What a pass has read or created, it holds.
CopiesHeld ==
    \A m \in Managers, i \in Steps :
       i < pc[m] /\ Program[i].op \in {"read", "create"}
          => held[m][Program[i].obj] # "nil"

NilInv == TypeOK /\ CopiesHeld

LEMMA NilStep == NilInv /\ [Next]_vars => NilInv'
<1> SUFFICES ASSUME NilInv, [Next]_vars PROVE NilInv'
  OBVIOUS
<1>1. TypeOK /\ TypeOK'
  BY TypeStep DEF NilInv
<1>2. PcMoves /\ HeldMoves /\ StepSets
  BY <1>1, StepShape, HeldShape, SetShape
<1>3. CopiesHeld'
  <2> SUFFICES ASSUME NEW m \in Managers, NEW i \in Steps, i < pc'[m],
                      Program[i].op \in {"read", "create"}
               PROVE  held'[m][Program[i].obj] # "nil"
    BY DEF CopiesHeld
  <2>0. i \in Nat /\ i >= 1 /\ pc[m] \in Nat /\ Program[i].obj \in Fields
    BY ProgramFacts, ObjectFacts, <1>1 DEF TypeOK
  <2>1. CASE i < pc[m]
    <3>1. held[m][Program[i].obj] # "nil"
      BY <2>1 DEF NilInv, CopiesHeld
    <3>2. pc'[m] # 0
      BY <2>0
    <3> QED BY <1>2, <2>0, <3>1, <3>2 DEF HeldMoves
  <2>2. CASE ~(i < pc[m])
    <3>1. pc[m] = i /\ pc'[m] = i + 1
      <4>1. PICK k \in Steps : pc[m] = k /\ pc'[m] = k + 1
        BY <1>2, <2>0, <2>2 DEF PcMoves
      <4> QED BY <4>1, <2>0, <2>2, ProgramFacts
    <3> QED BY <1>2, <3>1 DEF StepSets
  <2> QED BY <2>1, <2>2
<1> QED BY <1>1, <1>3 DEF NilInv

LEMMA NilInit == Init => NilInv
  BY TypeInit, ProgramFacts DEF Init, NilInv, CopiesHeld

LEMMA HeldIsUsable == NilInv => NilSafe
<1> SUFFICES ASSUME NilInv, NEW m \in Managers, pc[m] \in Steps,
                    NEW f \in Program[pc[m]].uses
             PROVE  held[m][f] # "nil"
  BY DEF NilSafe, Usable
<1>1. PICK j \in Steps : /\ j < pc[m] /\ Program[j].op \in {"read", "create"}
                         /\ Program[j].obj = f
  BY ProgramAssumption
<1> QED BY <1>1 DEF NilInv, CopiesHeld

\* No pass dereferences a field of m.crs it has not set, whatever happened to
\* the passes before it.
THEOREM NoNilDereference == Spec => []NilSafe
  BY NilInit, NilStep, HeldIsUsable, PTL DEF Spec

-----------------------------------------------------------------------------
(* Two managers.  Create is the lock: of a created CR at most one pass     *)
(* holds the store's copy, and only with it can the pass label the CR.     *)

OneOwner ==
    \A o \in Created, m, n \in Managers :
       held[m][o] \in Own /\ held[n][o] \in Own => m = n

HeldExists == \A o \in Created, m \in Managers : held[m][o] # "nil" => o \in exists

OwnedWhenLabelled ==
    \A m \in Managers, i \in TriggerSteps :
       i < pc[m] /\ Program[i].obj \in Created => held[m][Program[i].obj] \in Own

OwnerInv == TypeOK /\ OneOwner /\ HeldExists /\ OwnedWhenLabelled

\* How the copy of a created CR moves: as HeldMoves, but nothing reads it.
LEMMA CreatedMoves ==
    ASSUME HeldMoves, NEW n \in Managers, NEW o \in Created
    PROVE  \/ held'[n][o] = held[n][o]
           \/ held[n][o] \in Own /\ held'[n][o] \in Own
           \/ held'[n][o] = "nil" /\ pc'[n] = 0
           \/ /\ o \in exists' /\ pc'[n] = pc[n] + 1 /\ pc[n] \notin TriggerSteps
              /\ held'[n][o] = IF o \in exists THEN "bare" ELSE "current"
              /\ \A k \in Managers : k # n => held'[k] = held[k]
<1>1. o \in Fields /\ o \notin ObjectsOf("read")
  BY ProgramAssumption DEF Fields
<1>2. \A i \in Steps : Program[i].op = "read" => Program[i].obj # o
  BY <1>1 DEF ObjectsOf, StepsOf
<1> QED BY <1>1, <1>2, ObjectFacts DEF HeldMoves, Own, Nothing

LEMMA OwnerStep == OwnerInv /\ [Next]_vars => OwnerInv'
<1> SUFFICES ASSUME OwnerInv, [Next]_vars PROVE OwnerInv'
  OBVIOUS
<1>1. TypeOK /\ TypeOK'
  BY TypeStep DEF OwnerInv
<1>2. Grows /\ PcMoves /\ HeldMoves /\ StepSets
  BY <1>1, StepShape, HeldShape, SetShape
<1>3. OneOwner'
  <2> SUFFICES ASSUME NEW o \in Created, NEW m \in Managers, NEW n \in Managers,
                      held'[m][o] \in Own, held'[n][o] \in Own, m # n
               PROVE  FALSE
    BY DEF OneOwner
  <2>0. ASSUME NEW k \in Managers, NEW l \in Managers, l # k, held'[k][o] \in Own
        PROVE  held[k][o] \in Own \/ (o \notin exists /\ held'[l] = held[l])
    <3>1. CASE held'[k][o] = held[k][o] \/ held'[k][o] = "nil" \/ held[k][o] \in Own
      BY <2>0, <3>1 DEF Own
    <3>2. CASE /\ held'[k][o] = IF o \in exists THEN "bare" ELSE "current"
               /\ \A j \in Managers : j # k => held'[j] = held[j]
      BY <2>0, <3>2 DEF Own
    <3> QED BY <1>2, <3>1, <3>2, CreatedMoves
  <2>1. held[m][o] \in Own \/ (o \notin exists /\ held'[n] = held[n])
    BY <2>0
  <2>2. held[n][o] \in Own \/ (o \notin exists /\ held'[m] = held[m])
    BY <2>0
  <2>3. ~(held[m][o] \in Own /\ held[n][o] \in Own)
    BY DEF OwnerInv, OneOwner
  <2>4. o \notin exists => held[m][o] = "nil" /\ held[n][o] = "nil"
    BY DEF OwnerInv, HeldExists
  <2> QED BY <2>1, <2>2, <2>3, <2>4 DEF Own
<1>4. HeldExists'
  <2> SUFFICES ASSUME NEW o \in Created, NEW m \in Managers, held'[m][o] # "nil"
               PROVE  o \in exists'
    BY DEF HeldExists
  <2>1. held[m][o] # "nil" \/ o \in exists'
    BY <1>2, CreatedMoves DEF Own
  <2>2. o \in exists => o \in exists'
    BY <1>2, ClusterFacts DEF Grows
  <2> QED BY <2>1, <2>2 DEF OwnerInv, HeldExists
<1>5. OwnedWhenLabelled'
  <2> SUFFICES ASSUME NEW m \in Managers, NEW i \in TriggerSteps, i < pc'[m],
                      Program[i].obj \in Created
               PROVE  held'[m][Program[i].obj] \in Own
    BY DEF OwnedWhenLabelled
  <2>0. /\ i \in Nat /\ i >= 1 /\ pc[m] \in Nat
        /\ i \in Steps /\ Program[i].op = "trigger"
    BY ProgramFacts, ObjectFacts, <1>1 DEF TypeOK, TriggerSteps, StepsOf
  <2>1. CASE i < pc[m]
    <3>1. held[m][Program[i].obj] \in Own
      BY <2>1 DEF OwnerInv, OwnedWhenLabelled
    <3>2. pc'[m] # 0
      BY <2>0
    <3>3. Program[i].obj \in exists
      BY <3>1 DEF OwnerInv, HeldExists, Own
    <3>4. held'[m][Program[i].obj] # "bare"
      <4> SUFFICES ASSUME held'[m][Program[i].obj] = "bare" PROVE FALSE
        OBVIOUS
      <4>1. PICK k \in Steps :
               /\ pc[m] = k /\ Program[k].op = "create"
               /\ Program[k].obj = Program[i].obj
        BY <1>2, <3>1, ProgramFacts, ObjectFacts DEF HeldMoves, Own, Nothing, Fields
      <4>2. k < i
        BY <2>0, <4>1, ProgramAssumption, ObjectFacts
      <4> QED BY <2>0, <2>1, <4>1, <4>2, ProgramFacts
    <3> QED BY <1>2, <2>0, <3>1, <3>2, <3>3, <3>4, CreatedMoves
  <2>2. CASE ~(i < pc[m])
    <3>1. PICK k \in Steps : pc[m] = k /\ pc'[m] = k + 1
      BY <1>2, <2>0, <2>2 DEF PcMoves
    <3>2. pc[m] = i /\ pc'[m] = i + 1
      BY <3>1, <2>0, <2>2, ProgramFacts
    <3> QED BY <1>2, <2>0, <3>2 DEF StepSets
  <2> QED BY <2>1, <2>2
<1> QED BY <1>1, <1>3, <1>4, <1>5 DEF OwnerInv

LEMMA OwnerInit == Init => OwnerInv
<1> SUFFICES ASSUME Init PROVE OwnerInv
  OBVIOUS
<1>1. \A m \in Managers, o \in Created : held[m][o] = "nil"
  BY DEF Init, Nothing, Fields
<1>2. OwnedWhenLabelled
  BY ProgramFacts DEF Init, OwnedWhenLabelled, TriggerSteps, StepsOf
<1> QED BY <1>1, <1>2, TypeInit DEF OwnerInv, OneOwner, HeldExists, Own

LEMMA OwnerExcludes == OwnerInv => HandoverExclusive
<1> SUFFICES ASSUME OwnerInv, NEW m \in Managers, NEW n \in Managers,
                    HandsOverCreated(m), HandsOverCreated(n)
             PROVE  m = n
  BY DEF HandoverExclusive
<1>1. PICK i \in TriggerSteps : i < pc[m] /\ Program[i].obj \in Created
  BY DEF HandsOverCreated
<1>2. PICK j \in TriggerSteps : j < pc[n] /\ Program[j].obj \in Created
  BY DEF HandsOverCreated
<1>3. /\ i \in Nat /\ j \in Nat /\ pc[m] \in Nat /\ pc[n] \in Nat
  BY ProgramFacts, ProgramAssumption DEF OwnerInv, TypeOK, TriggerSteps, StepsOf
<1>4. CASE i <= j
  <2>1. i < pc[n]
    BY <1>2, <1>3, <1>4
  <2> QED BY <1>1, <2>1 DEF OwnerInv, OwnedWhenLabelled, OneOwner
<1>5. CASE j <= i
  <2>1. j < pc[m]
    BY <1>1, <1>3, <1>5
  <2> QED BY <1>2, <2>1 DEF OwnerInv, OwnedWhenLabelled, OneOwner
<1> QED BY <1>3, <1>4, <1>5

\* However many managers run, two of them are never both past the label of a
\* created CR: the AlreadyExists that one of them got keeps it out.
THEOREM HandoverIsExclusive == Spec => []HandoverExclusive
  BY OwnerInit, OwnerStep, OwnerExcludes, PTL DEF Spec

-----------------------------------------------------------------------------
(* The price: a hand-over cut short stays cut short. *)

LEMMA StrandedStep ==
    ASSUME TypeOK, [Next]_vars, NEW o \in Created, Stranded(o)
    PROVE  Stranded(o)'
<1>1. Grows /\ Labels /\ HeldMoves
  BY StepShape, HeldShape
<1>2. o \in exists'
  BY <1>1, ClusterFacts DEF Grows, Stranded
<1>3. o \notin handed'
  <2> SUFFICES ASSUME o \in handed' PROVE FALSE
    OBVIOUS
  <2>1. PICK m \in Managers : held[m][o] = "current"
    BY <1>1 DEF Labels, Stranded
  <2> QED BY <2>1 DEF Stranded
<1>4. ASSUME NEW m \in Managers PROVE held'[m][o] \in {"nil", "bare"}
  BY <1>1, CreatedMoves DEF Stranded, Own
<1> QED BY <1>2, <1>3, <1>4 DEF Stranded

\* Once a created CR waits for its label and no pass holds its Create's
\* response, no later pass of any manager ever labels it.
THEOREM StrandedIsForever == Spec => StrandedForever
<1>1. TypeOK /\ [Next]_vars =>
         [\A o \in Created : Stranded(o) => Stranded(o)']_vars
  <2> SUFFICES ASSUME TypeOK, [Next]_vars, NEW o \in Created, Stranded(o)
               PROVE  Stranded(o)'
    OBVIOUS
  <2> QED BY StrandedStep
<1> QED BY <1>1, TypeCorrect, PTL DEF Spec, StrandedForever

\* And so does a hand-over begun again: only a Create makes a copy that the API
\* server accepts, and it makes none of what is there.
LEMMA BarredStep ==
    ASSUME TypeOK, [Next]_vars, NEW m \in Managers, NEW o \in Created, Barred(m, o)
    PROVE  /\ Barred(m, o)'
           /\ \A i \in TriggerSteps : pc[m] = i /\ Program[i].obj = o => pc'[m] # i + 1
<1>1. Grows /\ HeldMoves /\ StepSets
  BY StepShape, HeldShape, SetShape
<1>2. o \in exists'
  BY <1>1, ClusterFacts DEF Grows, Barred
<1>3. held'[m][o] \in {"nil", "bare"}
  BY <1>1, CreatedMoves DEF Barred, Own
<1>4. ASSUME NEW i \in TriggerSteps, pc[m] = i, Program[i].obj = o, pc'[m] = i + 1
      PROVE  FALSE
  <2>1. i \in Steps /\ Program[i].op = "trigger"
    BY DEF TriggerSteps, StepsOf
  <2>2. held'[m][o] \in Own
    BY <1>1, <1>4, <2>1 DEF StepSets
  <2> QED BY <1>3, <2>2 DEF Own
<1> QED BY <1>2, <1>3, <1>4 DEF Barred

\* No pass of a manager that has not created a CR itself gets past its label, and
\* no later pass of this manager does: with IsMigrating always FALSE, every pass
\* after a completed hand-over ends there.
THEOREM BarredIsForGood == Spec => BarredForGood
<1>1. TypeOK /\ [Next]_vars =>
         [\A m \in Managers, o \in Created : Barred(m, o) =>
            /\ Barred(m, o)'
            /\ \A i \in TriggerSteps :
                  pc[m] = i /\ Program[i].obj = o => pc'[m] # i + 1]_vars
  <2> SUFFICES ASSUME TypeOK, [Next]_vars, NEW m \in Managers, NEW o \in Created,
                      Barred(m, o)
               PROVE  /\ Barred(m, o)'
                      /\ \A i \in TriggerSteps :
                            pc[m] = i /\ Program[i].obj = o => pc'[m] # i + 1
    OBVIOUS
  <2> QED BY BarredStep
<1> QED BY <1>1, TypeCorrect, PTL DEF Spec, BarredForGood
=============================================================================
