------------------------- MODULE UndisturbedProofs -------------------------
(***************************************************************************)
(* What an undisturbed hand-over achieves, for every program of the shape  *)
(* the Azure migrator's has: a pass that has created the first CR gets to  *)
(* its end, so that between passes the migration is all or nothing.        *)
(***************************************************************************)
EXTENDS HandoverProofs

-----------------------------------------------------------------------------
(* The hypotheses. *)

\* One process, as with leader election.
OneManager == \E m : Managers = {m}

\* The API server defaults the labels of what it creates.
LabelsDefaulted == Created \subseteq Labelled

\* The program reads and ensures, then creates, then adopts, disables one master
\* and hands over; it hands over all that it creates.
CreatesThenHandsOver ==
    /\ \A c \in StepsOf("create"), i \in Steps :
          /\ Program[i].op \in {"connect", "read", "rekey", "ensure"} => i < c
          /\ Program[i].op \in {"adopt", "disable", "trigger"} => c < i
    /\ \A b, c \in StepsOf("create") : Program[b].obj = Program[c].obj => b = c
    /\ \A i, j \in StepsOf("disable") : i = j
    /\ Created # {} /\ Created \cap Ensured = {}
    /\ Created \subseteq HandedOver /\ HandedOver \subseteq Adopted \cup Created

-----------------------------------------------------------------------------
(* The steps that are left when nothing disturbs. *)

LEMMA UndisturbedStep ==
    ASSUME TypeOK, [Next]_vars, Undisturbed'
    PROVE  /\ Undisturbed
           /\ \/ UNCHANGED vars \/ OptIn \/ \E n \in Masters : PodRuns(n)
              \/ \E m \in Managers : IdleStep(m) \/ PassStep(m)
<1>0. faults \in Nat /\ noise \in Nat /\ faults' \in Nat /\ noise' \in Nat
  BY TypeStep DEF TypeOK
<1>1. faults' = 0 /\ noise' = 0
  <2>1. faults' + noise' = 0
    BY DEF Undisturbed
  <2>2. \A a, b \in Nat : a + b = 0 => a = 0 /\ b = 0
    OBVIOUS
  <2> QED BY <1>0, <2>1, <2>2
<1>w. ~deleting' /\ ~optedOut'
  BY DEF Undisturbed, Withdrawn
<1>2. /\ \A m \in Managers : ~Fail(m) /\ ~Crash(m)
      /\ \A o, w : ~OperatorWrite(o, w)
  <2>1. faults' # faults + 1 /\ noise' # noise + 1
    BY <1>0, <1>1
  <2> QED BY <2>1 DEF Fail, Crash, OperatorWrite
<1>3. ~OptOut /\ ~Delete /\ ~Teardown
  BY <1>w DEF OptOut, Delete, Teardown, user
<1>4. \/ UNCHANGED vars \/ OptIn \/ \E n \in Masters : PodRuns(n)
      \/ \E m \in Managers : IdleStep(m) \/ PassStep(m)
  BY <1>2, <1>3 DEF Next, Environment, LegacyWrite, ClusterOperatorWrite,
                    UpstreamWrite, IdleStep
<1>5. UNCHANGED <<faults, noise, deleting, optedOut>>
  BY <1>4
  DEF vars, OptIn, PodRuns, IdleStep, Reconcile, ReconcileNotFound, Restart, Resync,
      SyncCache, PassStep, NewMigrator, ReadCR, ReadMissing, Rekey, Ensure, CreateCR,
      UpdateCR, FindMaster, CreatePod, TriggerCR, Finish, Panic, Conflict,
      Unreachable, user, budget
<1> QED BY <1>4, <1>5 DEF Undisturbed, Withdrawn

\* A Cluster that nobody deletes, and with it every legacy CR, stays.
Present == ~deleting => Adopted \subseteq exists

PresentInv == TypeOK /\ Present

LEMMA PresentInit == Init => PresentInv
  BY TypeInit DEF Init, PresentInv, Present, Cached

LEMMA PresentStep == PresentInv /\ [Next]_vars => PresentInv'
<1> SUFFICES ASSUME PresentInv, [Next]_vars, ~deleting' PROVE Adopted \subseteq exists'
  BY TypeStep DEF PresentInv, Present
<1>0. TypeOK /\ ~deleting /\ Adopted \subseteq exists
  BY UserStays DEF PresentInv, Present
<1>1. exists \ {"Cluster"} \subseteq exists'
  BY <1>0, StepShape DEF Grows
<1>2. exists \subseteq exists'
  <2>1. ASSUME NEW m \in Managers, PassStep(m) PROVE exists \subseteq exists'
    BY <1>0, <2>1
    DEF PassStep, NewMigrator, ReadCR, ReadMissing, Rekey, Ensure, CreateCR, UpdateCR,
        FindMaster, CreatePod, TriggerCR, Finish, Panic, Conflict, Unreachable, crs
  <2>2. ASSUME NEW m \in Managers, IdleStep(m) \/ Fail(m) \/ Crash(m)
        PROVE  UNCHANGED exists
    BY <1>0, <2>2, IdleStepShape DEF Fail, Crash, crs
  <2>3. CASE Environment
    BY <1>0, <2>3 DEF Environment, OptIn, OptOut, Delete, Teardown, LegacyWrite,
                      ClusterOperatorWrite, UpstreamWrite, OperatorWrite, PodRuns, crs
  <2> QED BY <2>1, <2>2, <2>3 DEF Next, IdleStep, vars, crs
<1> QED BY <1>0, <1>2

-----------------------------------------------------------------------------
(* The pass that creates. *)

\* The manager has not had the label of the Cluster in its cache.
NotYet(m) == pc[m] = 0 /\ ~queued[m] /\ ~Predicate(sees[m])

\* Until every created CR is handed over: what exists of them was created by the
\* pass under way, in this order; the pass holds nothing outdated; a pass that
\* has still to read will find its cache up to date; the pod is created last.
Pending ==
    \A m \in Managers :
       /\ pc[m] = 0 => held[m] = Nothing
       /\ \A o \in Created \cap exists : held[m][o] = "current"
       /\ \A c \in StepsOf("create") : pc[m] <= c => Program[c].obj \notin exists
       /\ \A o \in Adopted : held[m][o] \in {"nil", "current"}
       /\ Created \cap exists = {} => /\ Adopted \ fresh[m] \subseteq {"Cluster"}
                                      /\ "Cluster" \notin fresh[m] => NotYet(m)
       /\ pods # {} => \E i \in StepsOf("disable") : i < pc[m]

\* All that the step of a pass, or of the environment, can build on.
PendingContext ==
    /\ OneManager /\ LabelsDefaulted /\ CreatesThenHandsOver
    /\ TypeOK /\ NilSafe /\ UntouchedInv /\ DownInv /\ HandoverInv /\ Present
    /\ Undisturbed
    /\ Pending
    /\ ~(HandedOver \subseteq handed)

LEMMA Lone ==
    ASSUME PendingContext
    PROVE  \A m, n \in Managers : m = n
  BY DEF PendingContext, OneManager

\* Before the pass gets to its first create nothing has been created, and no pod.
LEMMA Early ==
    ASSUME PendingContext, NEW m \in Managers,
           \/ pc[m] = 0
           \/ /\ pc[m] \in Steps
              /\ Program[pc[m]].op \in {"connect", "read", "rekey", "ensure"}
    PROVE  Created \cap exists = {} /\ pods = {} /\ Adopted \ fresh[m] \subseteq {"Cluster"}
<1> USE DEF PendingContext
<1>1. PICK b \in StepsOf("create") : TRUE
  BY DEF Created, ObjectsOf, CreatesThenHandsOver
<1>2. ASSUME NEW c \in StepsOf("create") PROVE pc[m] <= c /\ c \in Nat
  <2>1. c \in Steps /\ c \in Nat /\ pc[m] \in Nat
    BY ProgramFacts DEF StepsOf, TypeOK
  <2>2. pc[m] \in Steps => pc[m] < c
    BY ProgramFacts DEF CreatesThenHandsOver
  <2> QED BY <2>1, <2>2
<1>3. Created \cap exists = {}
  BY <1>2 DEF Pending, Created, ObjectsOf
<1>4. pods = {}
  <2> SUFFICES ASSUME NEW i \in StepsOf("disable"), i < pc[m] PROVE FALSE
    BY DEF Pending
  <2>1. i \in Nat /\ b \in Nat /\ pc[m] \in Nat /\ pc[m] <= b
    BY <1>2, ProgramFacts DEF StepsOf, TypeOK
  <2>2. b < i
    BY DEF CreatesThenHandsOver, StepsOf
  <2> QED BY <2>1, <2>2
<1> QED BY <1>3, <1>4 DEF Pending

\* Once it is past its last create, it holds every CR as the store has it.
LEMMA Late ==
    ASSUME PendingContext, NEW m \in Managers, pc[m] \in Steps,
           Program[pc[m]].op \in {"adopt", "disable", "trigger"}
    PROVE  \A o \in Created : o \in exists /\ held[m][o] = "current"
<1> USE DEF PendingContext
<1> SUFFICES ASSUME NEW o \in Created PROVE o \in exists
  BY DEF Pending
<1>1. PICK c \in StepsOf("create") : Program[c].obj = o
  BY DEF Created, ObjectsOf
<1>2. c < pc[m]
  BY DEF CreatesThenHandsOver
<1> QED BY <1>1, <1>2 DEF HandoverInv, Progress, Done, StepsOf

\* What it rewrites or hands over is up to date.
LEMMA Accepted ==
    ASSUME PendingContext, NEW m \in Managers, pc[m] \in Steps,
           Program[pc[m]].op \in {"adopt", "trigger"}
    PROVE  /\ Object(m) \in exists /\ held[m][Object(m)] = "current"
           /\ Object(m) \in Adopted \cup Created
           /\ Writable(m, Object(m)) /\ ~Panics(m)
<1> USE DEF PendingContext
<1>1. Object(m) \in Adopted \cup Created /\ Object(m) \notin Rekeyed
  BY ObjectFacts, HandedIsHeld DEF CreatesThenHandsOver, Object
<1>2. held[m][Object(m)] # "nil"
  BY ProgramAssumption DEF NilSafe, Usable, Object
<1>3. Object(m) \in exists /\ held[m][Object(m)] = "current"
  BY <1>1, <1>2, Late DEF Pending, Present, Undisturbed, Withdrawn
<1>4. ~Panics(m)
  BY <1>3 DEF Panics, NilSafe, LabelsNil, LabelsDefaulted
<1> QED BY <1>1, <1>3, <1>4 DEF Writable

\* A pass that ends before its first create leaves nothing behind.
LEMMA EndsEarly ==
    ASSUME PendingContext, NEW m \in Managers, pc[m] \in Steps,
           Program[pc[m]].op \in {"connect", "read", "rekey", "ensure"},
           EndPass(m, TRUE), UNCHANGED <<crs, pods, fresh>>
    PROVE  Pending'
<1> USE DEF PendingContext
<1>1. /\ Created \cap exists = {} /\ pods = {}
      /\ Adopted \ fresh[m] \subseteq {"Cluster"}
  BY Early
<1>2. "Cluster" \in fresh[m]
  BY <1>1, ProgramFacts DEF Pending, NotYet
<1>3. held'[m] = Nothing /\ pc'[m] = 0
  BY DEF EndPass, TypeOK
<1>4. \A o \in Adopted : Nothing[o] = "nil"
  BY HandedIsHeld DEF Nothing
<1>5. \A c \in StepsOf("create") : Program[c].obj \notin exists
  BY <1>1 DEF Created, ObjectsOf
<1> SUFFICES ASSUME NEW n \in Managers
             PROVE  /\ n = m
                    /\ UNCHANGED <<exists, pods, fresh>>
  BY <1>1, <1>2, <1>3, <1>4, <1>5 DEF Pending
<1> QED BY Lone DEF crs

\* A step before the first create that completes leaves the copies, the cache
\* and the CRs that the program creates or adopts as they are.
LEMMA AdvancesEarly ==
    ASSUME PendingContext, NEW m \in Managers, pc[m] \in Steps,
           Program[pc[m]].op \in {"connect", "read", "rekey", "ensure"},
           Advance(m), UNCHANGED pods,
           exists' \cap Created = exists \cap Created,
           \A o \in Adopted : held'[m][o] \in {held[m][o], "current"},
           fresh'[m] \cap Adopted = fresh[m] \cap Adopted
    PROVE  Pending'
<1> USE DEF PendingContext
<1>1. /\ Created \cap exists = {} /\ pods = {}
      /\ Adopted \ fresh[m] \subseteq {"Cluster"}
  BY Early
<1>2. "Cluster" \in fresh[m]
  BY <1>1, ProgramFacts DEF Pending, NotYet
<1>3. pc'[m] # 0
  BY ProgramFacts DEF Advance, TypeOK
<1>4. \A o \in Adopted : held'[m][o] \in {"nil", "current"}
  BY DEF Pending
<1>5. \A c \in StepsOf("create") : Program[c].obj \notin exists'
  BY <1>1 DEF Created, ObjectsOf
<1>6. Adopted \ fresh'[m] = Adopted \ fresh[m] /\ "Cluster" \in fresh'[m]
  BY <1>2, ClusterFacts
<1>7. Created \cap exists' = {} /\ pods' = {}
  BY <1>1
<1> QED BY <1>1, <1>3, <1>4, <1>5, <1>6, <1>7, Lone DEF Pending

\* A step past the last create that completes keeps what the pass has.
LEMMA AdvancesLate ==
    ASSUME PendingContext, NEW m \in Managers, pc[m] \in Steps,
           Program[pc[m]].op \in {"adopt", "disable", "trigger"},
           Advance(m) \/ UNCHANGED pc,
           exists' = exists,
           pods' = pods \/ (Program[pc[m]].op = "disable" /\ Advance(m)),
           \A o \in Created \cup Adopted : held'[m][o] \in {held[m][o], "current"}
    PROVE  Pending'
<1> USE DEF PendingContext
<1>1. \A o \in Created : o \in exists /\ held[m][o] = "current"
  BY Late
<1>2. pc[m] \in Nat /\ pc[m] # 0 /\ pc'[m] \in Nat /\ pc'[m] # 0 /\ pc[m] <= pc'[m]
  BY ProgramFacts DEF Advance, TypeOK
<1>3. \A o \in Created : held'[m][o] = "current"
  BY <1>1
<1>4. \A o \in Adopted : held'[m][o] \in {"nil", "current"}
  BY DEF Pending
<1>5. ASSUME NEW c \in StepsOf("create") PROVE ~(pc'[m] <= c)
  <2>1. c \in Nat /\ c < pc[m]
    BY ProgramFacts DEF CreatesThenHandsOver, StepsOf
  <2> QED BY <1>2, <2>1
<1>6. Created \cap exists' # {}
  BY <1>1 DEF CreatesThenHandsOver
<1>7. pods' # {} => \E i \in StepsOf("disable") : i < pc'[m]
  <2>1. CASE pods' = pods /\ pods # {}
    <3>1. PICK i \in StepsOf("disable") : i < pc[m]
      BY <2>1 DEF Pending
    <3>2. i \in Nat
      BY ProgramFacts DEF StepsOf
    <3> QED BY <1>2, <3>1, <3>2
  <2>2. CASE Program[pc[m]].op = "disable" /\ Advance(m)
    <3>1. pc[m] \in StepsOf("disable") /\ pc'[m] = pc[m] + 1
      BY <2>2 DEF StepsOf, Advance, TypeOK
    <3>2. pc[m] < pc'[m]
      BY <1>2, <3>1
    <3> QED BY <3>1, <3>2
  <2> QED BY <2>1, <2>2
<1> QED BY <1>2, <1>3, <1>4, <1>5, <1>6, <1>7, Lone DEF Pending

\* A pass's own write outdates none of its copies.
LEMMA OwnWrite ==
    ASSUME TypeOK, NEW m \in Managers, NEW p, UNCHANGED held \/ Bump(p, {m})
    PROVE  \A o \in Created \cup Adopted : held'[m][o] \in {held[m][o], "current"}
<1> SUFFICES ASSUME NEW o \in Created \cup Adopted, Bump(p, {m}), p \in Fields
             PROVE  held'[m][o] \in {held[m][o], "current"}
  BY DEF Bump
<1>1. o \in Fields
  BY HandedIsHeld DEF Fields
<1>2. held'[m] = [held[m] EXCEPT ![p] = "current"]
  BY DEF Bump
<1> QED BY <1>1, <1>2 DEF TypeOK

LEMMA PendingCreates ==
    ASSUME PendingContext, NEW m \in Managers, CreateCR(m)
    PROVE  Pending'
<1> USE DEF PendingContext
<1>1. pc[m] \in StepsOf("create")
  BY DEF CreateCR, At, StepsOf
<1> DEFINE o == Program[pc[m]].obj
<1>2. o \notin exists /\ o \in Created \cap Fields /\ o \notin Adopted
  <2>1. pc[m] \in Nat
    BY DEF TypeOK
  <2>2. pc[m] <= pc[m]
    BY <2>1
  <2>3. o \notin exists
    BY <1>1, <2>2 DEF Pending
  <2> QED BY <1>1, <2>3, ObjectFacts, ProgramAssumption DEF StepsOf
<1>3. /\ held' = [held EXCEPT ![m][o] = "current"]
      /\ exists' = exists \cup {o} /\ pods' = pods /\ fresh' = fresh
      /\ pc' = [pc EXCEPT ![m] = @ + 1]
  BY <1>2 DEF CreateCR, Object, CopyAfterCreate, Advance, nodes, cache
<1>4. pc[m] \in Nat /\ pc[m] # 0 /\ pc'[m] = pc[m] + 1 /\ pc'[m] # 0
  BY <1>1, <1>3, ProgramFacts DEF StepsOf, TypeOK
<1>5. \A p \in Created \cap exists' : held'[m][p] = "current"
  BY <1>2, <1>3 DEF Pending, TypeOK
<1>6. \A p \in Adopted : held'[m][p] \in {"nil", "current"}
  BY <1>2, <1>3 DEF Pending, TypeOK
<1>7. ASSUME NEW c \in StepsOf("create"), pc'[m] <= c PROVE Program[c].obj \notin exists'
  <2>1. c \in Nat
    BY ProgramFacts DEF StepsOf
  <2>2. c # pc[m] /\ pc[m] <= c
    BY <1>4, <1>7, <2>1
  <2>3. Program[c].obj # o
    BY <1>1, <2>2 DEF CreatesThenHandsOver
  <2> QED BY <1>3, <2>2, <2>3 DEF Pending
<1>8. Created \cap exists' # {}
  BY <1>2, <1>3
<1>9. pods' # {} => \E i \in StepsOf("disable") : i < pc'[m]
  <2> SUFFICES ASSUME NEW i \in StepsOf("disable"), i < pc[m] PROVE i < pc'[m]
    BY <1>3 DEF Pending
  <2>1. i \in Nat
    BY ProgramFacts DEF StepsOf
  <2> QED BY <1>4, <2>1
<1> HIDE DEF o
<1> QED BY <1>4, <1>5, <1>6, <1>7, <1>8, <1>9, Lone DEF Pending

\* The pass goes on to its last step: nothing it meets ends it.
LEMMA PendingPass ==
    ASSUME PendingContext, NEW m \in Managers, PassStep(m), ~(HandedOver \subseteq handed')
    PROVE  Pending'
<1> USE DEF PendingContext
<1>1. CASE NewMigrator(m)
  <2>1. Advance(m) /\ UNCHANGED held
    BY <1>1 DEF NewMigrator, IsMigrated, IsMigrating
  <2> QED BY <1>1, <2>1, AdvancesEarly DEF NewMigrator, At, crs, nodes, cache
<1>2. CASE ReadCR(m)
  <2>1. pc[m] \in Steps /\ Program[pc[m]].op = "read"
    BY <1>2 DEF ReadCR, At
  <2>2. Adopted \subseteq fresh[m]
    BY <2>1, Early, ProgramFacts DEF Pending, NotYet
  <2>3. \A o \in Adopted : held'[m][o] \in {held[m][o], "current"}
    BY <1>2, <2>1, <2>2, ObjectFacts DEF ReadCR, Object, TypeOK
  <2> QED BY <1>2, <2>1, <2>3, AdvancesEarly DEF ReadCR, crs, nodes, cache
<1>3. CASE ReadMissing(m)
  BY <1>3, EndsEarly DEF ReadMissing, At, nodes, cache
<1>4. CASE Rekey(m)
  <2>1. pc[m] \in Steps /\ Program[pc[m]].op = "rekey" /\ Object(m) \in Rekeyed
    BY <1>4, ObjectFacts DEF Rekey, At, Object
  <2>2. Object(m) \notin Fields /\ Object(m) \notin Adopted
    BY <2>1, HandedIsHeld, ProgramAssumption
  <2>3. UNCHANGED <<held, fresh>> \/ Bump(Object(m), {m})
    BY <1>4 DEF Rekey
  <2>4. /\ held'[m] = held[m]
        /\ fresh'[m] \cap Adopted = fresh[m] \cap Adopted
    BY <2>2, <2>3 DEF Bump
  <2> QED BY <1>4, <2>1, <2>4, AdvancesEarly DEF Rekey, nodes
<1>5. CASE Ensure(m)
  <2>1. pc[m] \in Steps /\ Program[pc[m]].op = "ensure" /\ Object(m) \in Ensured
    BY <1>5, ObjectFacts DEF Ensure, At, Object
  <2>2. CASE Object(m) \in Refused
    BY <1>5, <2>1, <2>2, EndsEarly DEF Ensure, crs, nodes, cache
  <2>3. CASE Object(m) \notin Refused
    <3>1. exists' \cap Created = exists \cap Created
      BY <1>5, <2>1, <2>3 DEF Ensure, CreatesThenHandsOver
    <3> QED BY <1>5, <2>1, <2>3, <3>1, AdvancesEarly DEF Ensure, nodes, cache
  <2> QED BY <2>2, <2>3
<1>6. CASE CreateCR(m)
  BY <1>6, PendingCreates
<1>7. CASE UpdateCR(m)
  <2>1. pc[m] \in Steps /\ Program[pc[m]].op = "adopt"
    BY <1>7 DEF UpdateCR, At
  <2>2. exists' = exists /\ pods' = pods
    BY <1>7 DEF UpdateCR, Undisturbed, Withdrawn, nodes
  <2>3. UNCHANGED held \/ Bump(Object(m), {m})
    BY <1>7 DEF UpdateCR
  <2>4. \A o \in Created \cup Adopted : held'[m][o] \in {held[m][o], "current"}
    BY <2>3, OwnWrite
  <2> QED BY <1>7, <2>1, <2>2, <2>4, AdvancesLate DEF UpdateCR
<1>8. CASE FindMaster(m)
  BY <1>8, AdvancesLate DEF FindMaster, At, crs, nodes
<1>9. CASE CreatePod(m)
  <2>1. pc[m] \in Steps /\ Program[pc[m]].op = "disable"
    BY <1>9 DEF CreatePod, At
  <2>2. pods = {}
    <3> SUFFICES ASSUME NEW i \in StepsOf("disable"), i < pc[m] PROVE FALSE
      BY DEF Pending
    <3>1. i = pc[m] /\ i \in Nat
      BY <2>1, ProgramFacts DEF CreatesThenHandsOver, StepsOf
    <3> QED BY <3>1
  <2>3. Advance(m) /\ UNCHANGED held
    BY <1>9, <2>2 DEF CreatePod
  <2> QED BY <1>9, <2>1, <2>3, AdvancesLate DEF CreatePod, crs
<1>10. CASE TriggerCR(m)
  <2>1. pc[m] \in Steps /\ Program[pc[m]].op = "trigger"
    BY <1>10 DEF TriggerCR, At
  <2>2. UNCHANGED held \/ Bump(Object(m), {m})
    BY <1>10 DEF TriggerCR
  <2>3. \A o \in Created \cup Adopted : held'[m][o] \in {held[m][o], "current"}
    BY <2>2, OwnWrite
  <2> QED BY <1>10, <2>1, <2>3, AdvancesLate DEF TriggerCR, nodes
<1>11. ~Finish(m)
  <2> SUFFICES ASSUME Finish(m), NEW o \in HandedOver PROVE o \in handed
    OBVIOUS
  <2>1. PICK i \in StepsOf("trigger") : Program[i].obj = o
    BY DEF HandedOver, ObjectsOf
  <2>2. i \in Steps /\ i < pc[m]
    BY ProgramFacts DEF Finish, StepsOf
  <2> QED BY <2>1, <2>2 DEF HandoverInv, Progress, Done, StepsOf
<1>12. ~Panic(m)
  <2> SUFFICES ASSUME Panic(m) PROVE FALSE
    OBVIOUS
  <2>1. pc[m] \in Steps /\ Panics(m)
    BY DEF Panic
  <2>2. Program[pc[m]].op = "trigger"
    BY <2>1 DEF Panics, NilSafe, At
  <2> QED BY <2>1, <2>2, Accepted
<1>13. CASE Conflict(m)
  <2>1. /\ pc[m] \in Steps /\ Program[pc[m]].op \in {"rekey", "adopt", "trigger"}
        /\ ~Writable(m, Object(m))
    BY <1>13 DEF Conflict, At
  <2>2. Program[pc[m]].op = "rekey"
    BY <2>1, Accepted
  <2> QED BY <1>13, <2>1, <2>2, EndsEarly DEF Conflict, nodes, cache
<1>14. CASE Unreachable(m)
  <2>1. /\ pc[m] \in Steps /\ Program[pc[m]].op \in {"connect", "disable"}
        /\ stopped = Masters
    BY <1>14 DEF Unreachable, At
  <2>2. Program[pc[m]].op # "disable"
    <3> SUFFICES ASSUME Program[pc[m]].op = "disable" PROVE FALSE
      OBVIOUS
    <3>1. PICK i \in StepsOf("disable") : i < pc[m]
      BY <2>1, EnvironmentAssumption DEF Pending, TypeOK
    <3>2. i = pc[m] /\ i \in Nat
      BY <2>1, ProgramFacts DEF CreatesThenHandsOver, StepsOf
    <3> QED BY <3>1, <3>2
  <2> QED BY <1>14, <2>1, <2>2, EndsEarly DEF Unreachable, nodes, cache
<1> QED BY <1>1, <1>2, <1>3, <1>4, <1>5, <1>6, <1>7, <1>8, <1>9, <1>10, <1>11,
           <1>12, <1>13, <1>14 DEF PassStep

\* The cache learns, requests are queued, processes start: only between passes
\* or about what is up to date anyway.
LEMMA PendingIdle ==
    ASSUME PendingContext, NEW m \in Managers, IdleStep(m)
    PROVE  Pending'
<1> USE DEF PendingContext
<1>0. UNCHANGED <<exists, held, pods>> /\ pc[m] \in Nat
  BY DEF IdleStep, Reconcile, ReconcileNotFound, Restart, Resync, SyncCache, vars,
         crs, nodes, pass, TypeOK
<1>1. pc'[m] \in Nat /\ pc[m] <= pc'[m] /\ (pc'[m] = 0 => pc[m] = 0)
  <2>1. pc' = pc \/ (pc[m] = 0 /\ pc'[m] \in {0, 1})
    BY DEF IdleStep, Reconcile, ReconcileNotFound, Restart, Resync, SyncCache, vars,
           pass, TypeOK
  <2> QED BY <1>0, <2>1
<1>2. ASSUME Created \cap exists = {}
      PROVE  /\ Adopted \ fresh'[m] \subseteq {"Cluster"}
             /\ "Cluster" \notin fresh'[m] => NotYet(m)'
  <2>0. /\ Adopted \ fresh[m] \subseteq {"Cluster"}
        /\ "Cluster" \notin fresh[m] => NotYet(m)
    BY <1>2 DEF Pending
  <2>1. CASE Reconcile(m)
    BY <2>0, <2>1 DEF Reconcile, NotYet, cache
  <2>2. CASE Restart(m)
    BY <2>2, ClusterFacts DEF Restart, TypeOK, Cached
  <2>3. CASE Resync(m)
    BY <2>0, <2>3 DEF Resync, NotYet, cache
  <2>4. CASE ReconcileNotFound(m)
    BY <2>0, <2>4 DEF ReconcileNotFound, vars, NotYet, cache, pass, process
  <2>5. ASSUME NEW o \in Cached, SyncCache(m, o)
        PROVE  /\ Adopted \ fresh'[m] \subseteq {"Cluster"}
               /\ "Cluster" \notin fresh'[m] => NotYet(m)'
    <3>1. fresh'[m] = fresh[m] \cup {o}
      BY <2>5 DEF SyncCache, TypeOK
    <3>2. CASE o # "Cluster"
      BY <2>0, <2>5, <3>1, <3>2 DEF SyncCache, NotYet, pass
    <3> QED BY <2>0, <3>1, <3>2
  <2> QED BY <2>1, <2>2, <2>3, <2>4, <2>5 DEF IdleStep
<1>3. ASSUME NEW c \in StepsOf("create"), pc'[m] <= c PROVE Program[c].obj \notin exists'
  <2>1. c \in Nat
    BY ProgramFacts DEF StepsOf
  <2>2. pc[m] <= c
    BY <1>0, <1>1, <1>3, <2>1
  <2> QED BY <1>0, <2>2 DEF Pending
<1>4. pods' # {} => \E i \in StepsOf("disable") : i < pc'[m]
  <2> SUFFICES ASSUME NEW i \in StepsOf("disable"), i < pc[m] PROVE i < pc'[m]
    BY <1>0 DEF Pending
  <2>1. i \in Nat
    BY ProgramFacts DEF StepsOf
  <2> QED BY <1>0, <1>1, <2>1
<1>5. /\ pc'[m] = 0 => held'[m] = Nothing
      /\ \A o \in Created \cap exists' : held'[m][o] = "current"
      /\ \A o \in Adopted : held'[m][o] \in {"nil", "current"}
  BY <1>0, <1>1 DEF Pending
<1> QED BY <1>0, <1>2, <1>3, <1>4, <1>5, Lone DEF Pending

\* The user asks; a pod has run.
LEMMA PendingOutside ==
    ASSUME PendingContext, OptIn \/ \E n \in Masters : PodRuns(n)
    PROVE  Pending'
<1> USE DEF PendingContext
<1>1. CASE OptIn
  <2> SUFFICES ASSUME NEW m \in Managers
               PROVE  UNCHANGED <<pc, held, exists, pods>> /\ NotYet(m)' /\ NotYet(m)
                      /\ fresh'[m] = fresh[m] \ {"Cluster"}
    BY DEF Pending
  <2>1. ~optIn /\ UNCHANGED <<pc, exists, pods, queued, sees>> /\ Bump("Cluster", {})
    BY <1>1 DEF OptIn, crs, nodes, process
  <2>2. \A n \in Managers : pc[n] = 0 /\ ~queued[n] /\ ~Predicate(sees[n])
    BY <2>1 DEF UntouchedInv, Waiting, Predicate
  <2>3. \A n \in Managers : held[n]["Cluster"] # "current"
    BY <2>2, ClusterFacts DEF Pending, Nothing
  <2>4. held' = held
    BY <2>1, <2>3 DEF Bump, TypeOK
  <2> QED BY <2>1, <2>2, <2>4 DEF NotYet, Bump
<1>2. ASSUME NEW n \in Masters, PodRuns(n) PROVE Pending'
  BY <1>2 DEF PodRuns, Pending, NotYet, crs, pass, cache, process
<1> QED BY <1>1, <1>2

-----------------------------------------------------------------------------
UndisturbedInv ==
    /\ UntouchedInv /\ DownInv /\ HandoverInv /\ NilInv /\ PresentInv
    /\ Undisturbed => HandedOver \subseteq handed \/ Pending

LEMMA UndisturbedInit ==
    ASSUME OneManager, CreatesThenHandsOver
    PROVE  Init => UndisturbedInv
<1> SUFFICES ASSUME Init PROVE UndisturbedInv
  OBVIOUS
<1>1. UntouchedInv /\ DownInv /\ HandoverInv /\ NilInv /\ PresentInv
  BY UntouchedInit, DownInit, HandoverInit, NilInit, PresentInit
<1>2. Created \cap exists = {}
  BY <1>1, EnvironmentAssumption
  DEF Init, UntouchedInv, UntouchedBeforeOptIn, CreatesThenHandsOver
<1>3. \A m \in Managers, o \in Adopted : held[m][o] = "nil"
  BY HandedIsHeld DEF Init, Nothing
<1>4. \A c \in StepsOf("create") : Program[c].obj \notin exists
  BY <1>2 DEF Created, ObjectsOf
<1>5. \A m \in Managers : Adopted \subseteq fresh[m] /\ "Cluster" \in fresh[m]
  BY ClusterFacts DEF Init, Cached
<1>6. \A m \in Managers : pc[m] = 0 /\ held[m] = Nothing
  BY DEF Init
<1>7. pods = {}
  BY DEF Init
<1>8. Pending
  BY <1>2, <1>3, <1>4, <1>5, <1>6, <1>7 DEF Pending
<1> QED BY <1>1, <1>8 DEF UndisturbedInv

LEMMA UndisturbedInvStep ==
    ASSUME OneManager, LabelsDefaulted, CreatesThenHandsOver
    PROVE  UndisturbedInv /\ [Next]_vars => UndisturbedInv'
<1> SUFFICES ASSUME UndisturbedInv, [Next]_vars PROVE UndisturbedInv'
  OBVIOUS
<1>1. (UntouchedInv /\ DownInv /\ HandoverInv /\ NilInv /\ PresentInv)'
  BY UntouchedStep, DownStep, HandoverStep, NilStep, PresentStep DEF UndisturbedInv
<1>2. ASSUME Undisturbed', ~(HandedOver \subseteq handed') PROVE Pending'
  <2>1. TypeOK
    BY DEF UndisturbedInv, UntouchedInv
  <2>2. Undisturbed
    BY <1>2, <2>1, UndisturbedStep
  <2>3. handed \subseteq handed'
    BY <2>1, StepShape DEF Grows
  <2>4. PendingContext
    BY <1>2, <2>1, <2>2, <2>3, HeldIsUsable DEF UndisturbedInv, PendingContext, PresentInv
  <2>5. CASE UNCHANGED vars
    BY <2>4, <2>5 DEF PendingContext, Pending, NotYet, vars, crs, nodes, pass, cache, process
  <2> QED BY <1>2, <2>1, <2>4, <2>5, UndisturbedStep, PendingPass, PendingIdle,
             PendingOutside
<1> QED BY <1>1, <1>2 DEF UndisturbedInv

\* Between passes that invariant leaves nothing half done.
LEMMA RestIsAllOrNothing ==
    ASSUME OneManager, CreatesThenHandsOver, UndisturbedInv, ReleaseInv
    PROVE  AllOrNothing
<1> SUFFICES ASSUME Undisturbed, \A m \in Managers : pc[m] = 0,
                    ~(HandedOver \subseteq handed)
             PROVE  handed = {} /\ operated = Adopted /\ Created \cap exists = {}
  BY DEF AllOrNothing, ReleaseInv, HandoverInv, TypeOK
<1>0. TypeOK /\ HandoverInv /\ Pending /\ HandoverAfterPrepare /\ ReleasedInOrder
  BY AfterPrepare DEF UndisturbedInv, HandoverInv, ReleaseInv
<1>1. PICK m \in Managers : TRUE
  BY DEF OneManager
<1>2. Created \cap exists = {}
  <2> SUFFICES ASSUME NEW o \in Created \cap exists PROVE FALSE
    OBVIOUS
  <2>1. held[m][o] = "current" /\ held[m] = Nothing /\ o \in Fields
    BY <1>0 DEF Pending, Fields
  <2> QED BY <2>1 DEF Nothing
<1>3. PICK c \in StepsOf("create") : Program[c].obj \notin exists
  BY <1>2 DEF CreatesThenHandsOver, Created, ObjectsOf
<1>4. c \in Steps \ TriggerSteps /\ ~Done(c)
  BY <1>3 DEF Done, StepsOf, TriggerSteps
<1>5. handed = {}
  BY <1>0, <1>4 DEF HandoverAfterPrepare
<1>6. ASSUME NEW o \in Adopted PROVE o \in operated
  <2>1. PICK i \in StepsOf("adopt") : Program[i].obj = o
    BY DEF Adopted, ObjectsOf
  <2>2. c < i
    BY <2>1 DEF CreatesThenHandsOver, StepsOf
  <2> QED BY <1>0, <1>4, <2>1, <2>2 DEF ReleasedInOrder
<1> QED BY <1>0, <1>2, <1>5, <1>6 DEF TypeOK

\* With one manager, labels from the API server's defaulting and a program that
\* creates before it adopts, disables and hands over, only a failed call, the end
\* of a process, a foreign write or the user can leave a hand-over half done: the
\* pass that creates the first CR hands all of them over.
THEOREM UndisturbedIsAllOrNothing ==
    ASSUME OneManager, LabelsDefaulted, CreatesThenHandsOver
    PROVE  Spec => []AllOrNothing
<1>1. UndisturbedInv /\ ReleaseInv => AllOrNothing
  BY RestIsAllOrNothing
<1> QED BY <1>1, UndisturbedInit, UndisturbedInvStep, ReleaseInvariant, PTL DEF Spec
=============================================================================
