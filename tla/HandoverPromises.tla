-------------------------- MODULE HandoverPromises --------------------------
(***************************************************************************)
(* What every orderly hand-over keeps: the safety of Handover, for any CRs *)
(* and any order among them.                                               *)
(***************************************************************************)
EXTENDS Handover, TLAPS

Owners == {"legacy", "cluster-operator", "upstream"}

\* A state of the abstract hand-over, and what makes its promises inductive: the
\* preparation is complete only when the legacy operator has nothing left, and
\* upstream has nothing before that.
PromiseInv ==
    /\ asked \in BOOLEAN /\ complete \in BOOLEAN
    /\ reconciler \in [CRs -> SUBSET Owners]
    /\ complete => Released
    /\ UpstreamWhenReady
    /\ SharedTogether

LEMMA PromiseInit == Init => PromiseInv
<1> SUFFICES ASSUME Init PROVE PromiseInv
  OBVIOUS
<1>1. ASSUME NEW o \in CRs
      PROVE  /\ reconciler[o] \in SUBSET Owners
             /\ "upstream" \notin reconciler[o]
             /\ "cluster-operator" \in reconciler[o] <=> o \in SharedFirst
  BY DEF Init, IfSo, Owners
<1>2. reconciler \in [CRs -> SUBSET Owners]
  BY <1>1 DEF Init
<1> QED BY <1>1, <1>2 DEF Init, PromiseInv, UpstreamWhenReady, SharedTogether

\* A release takes the legacy operator away, before anything is complete.
LEMMA PromiseRelease ==
    ASSUME PromiseInv, NEW o \in CRs, Release(o) PROVE PromiseInv'
<1>1. ~complete /\ \A p \in CRs : "upstream" \notin reconciler[p]
  BY DEF Release, PromiseInv, UpstreamWhenReady, Released
<1>2. ASSUME NEW p \in CRs
      PROVE  /\ reconciler'[p] \in SUBSET Owners
             /\ "upstream" \notin reconciler'[p]
             /\ "cluster-operator" \in reconciler'[p] <=>
                  "cluster-operator" \in reconciler[p]
  BY <1>1 DEF Release, PromiseInv
<1>3. reconciler' \in [CRs -> SUBSET Owners]
  BY <1>2 DEF Release, PromiseInv
<1>4. UpstreamWhenReady' /\ SharedTogether'
  BY <1>1, <1>2 DEF PromiseInv, UpstreamWhenReady, SharedTogether
<1>5. complete' \in BOOLEAN /\ (complete' => Released')
  <2>1. complete' = complete \/ complete' = Released'
    BY DEF Release
  <2>2. Released' \in BOOLEAN
    BY DEF Released
  <2>3. CASE complete' = complete
    BY <1>1, <2>3 DEF PromiseInv
  <2>4. CASE complete' = Released'
    BY <2>2, <2>4, Zenon
  <2> QED BY <2>1, <2>3, <2>4
<1> QED BY <1>3, <1>4, <1>5 DEF Release, PromiseInv

\* A hand-over adds upstream to one CR that has all those before it, and
\* cluster-operator with it where the CR is shared.
LEMMA PromiseHandOver ==
    ASSUME PromiseInv, NEW o \in CRs, HandOver(o) PROVE PromiseInv'
<1>1. /\ complete /\ complete' /\ Released /\ asked' = asked
      /\ \A p \in Before[o] : "upstream" \in reconciler[p]
  BY DEF HandOver, PromiseInv
<1>2. reconciler' = [reconciler EXCEPT ![o] =
                       @ \cup {"upstream"} \cup IfSo("cluster-operator", o \in Shared)]
  BY DEF HandOver
<1>3. ASSUME NEW p
      PROVE  "upstream" \in reconciler[p] => "upstream" \in reconciler'[p]
  BY <1>2 DEF PromiseInv
<1>4. ASSUME NEW p \in CRs
      PROVE  /\ reconciler'[p] \in SUBSET Owners
             /\ "legacy" \notin reconciler'[p]
  BY <1>1, <1>2 DEF PromiseInv, Released, IfSo, Owners
<1>5. reconciler' \in [CRs -> SUBSET Owners] /\ Released'
  BY <1>2, <1>4 DEF PromiseInv, Released
<1>6. UpstreamWhenReady'
  <2>1. ASSUME NEW p \in CRs, "upstream" \in reconciler'[p], NEW q \in Before[p]
        PROVE  "upstream" \in reconciler[q]
    <3>1. CASE p = o
      BY <1>1, <3>1
    <3>2. CASE p # o
      BY <1>2, <2>1, <3>2 DEF PromiseInv, UpstreamWhenReady
    <3> QED BY <3>1, <3>2
  <2> QED BY <1>1, <1>3, <1>5, <2>1 DEF UpstreamWhenReady
<1>7. SharedTogether'
  BY <1>2 DEF PromiseInv, SharedTogether, IfSo
<1> QED BY <1>1, <1>5, <1>6, <1>7 DEF PromiseInv

LEMMA PromiseStep == PromiseInv /\ [Next]_vars => PromiseInv'
<1> SUFFICES ASSUME PromiseInv, [Next]_vars PROVE PromiseInv'
  OBVIOUS
<1>1. CASE Ask
  BY <1>1 DEF Ask, PromiseInv, UpstreamWhenReady, SharedTogether, Released
<1>2. CASE Complete
  BY <1>2 DEF Complete, PromiseInv, UpstreamWhenReady, SharedTogether, Released
<1>3. ASSUME NEW o \in CRs, Release(o) \/ HandOver(o) PROVE PromiseInv'
  BY <1>3, PromiseRelease, PromiseHandOver
<1>4. CASE UNCHANGED vars
  BY <1>4 DEF vars, PromiseInv, UpstreamWhenReady, SharedTogether, Released
<1> QED BY <1>1, <1>2, <1>3, <1>4 DEF Next

\* The legacy operator and upstream never act on the same CR of a hand-over.
THEOREM NeverTwoOwners == Spec => []NeverBoth
<1>1. PromiseInv => NeverBoth
  BY DEF PromiseInv, NeverBoth, UpstreamWhenReady, Released
<1> QED BY <1>1, PromiseInit, PromiseStep, PTL DEF Spec

\* Upstream gets a CR only when all is ready and all before it are upstream's.
THEOREM UpstreamIsReady == Spec => []UpstreamWhenReady
<1>1. PromiseInv => UpstreamWhenReady
  BY DEF PromiseInv
<1> QED BY <1>1, PromiseInit, PromiseStep, PTL DEF Spec

\* cluster-operator comes to a shared CR together with upstream, or was there.
THEOREM SharedComeTogether == Spec => []SharedTogether
<1>1. PromiseInv => SharedTogether
  BY DEF PromiseInv
<1> QED BY <1>1, PromiseInit, PromiseStep, PTL DEF Spec

\* The legacy operator gets nothing back, the others lose nothing.
THEOREM NothingGoesBack == Spec => NeverBack
<1>1. PromiseInv /\ [Next]_vars =>
        [\A o \in CRs :
           /\ "legacy" \notin reconciler[o] => "legacy" \notin reconciler'[o]
           /\ reconciler[o] \ {"legacy"} \subseteq reconciler'[o]]_vars
  <2> SUFFICES ASSUME PromiseInv, Next, NEW o \in CRs
               PROVE  /\ "legacy" \notin reconciler[o] => "legacy" \notin reconciler'[o]
                      /\ reconciler[o] \ {"legacy"} \subseteq reconciler'[o]
    OBVIOUS
  <2>1. CASE Ask \/ Complete
    BY <2>1 DEF Ask, Complete
  <2>2. ASSUME NEW p \in CRs, Release(p) \/ HandOver(p)
        PROVE  /\ "legacy" \notin reconciler[o] => "legacy" \notin reconciler'[o]
               /\ reconciler[o] \ {"legacy"} \subseteq reconciler'[o]
    BY <2>2 DEF Release, HandOver, PromiseInv, IfSo
  <2> QED BY <2>1, <2>2 DEF Next
<1> QED BY <1>1, PromiseInit, PromiseStep, PTL DEF Spec, NeverBack
=============================================================================
