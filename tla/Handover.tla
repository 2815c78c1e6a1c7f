------------------------------ MODULE Handover ------------------------------
(***************************************************************************)
(* What a migration promises: who reconciles the CRs of a cluster.         *)
(*                                                                         *)
(* Legacy CRs belong to the legacy operator (azure- or aws-operator).      *)
(* Once the user has asked, it is relieved of them one by one; when it has *)
(* lost them all and what upstream needs is there, upstream controllers    *)
(* get the CRs one by one, each after those it depends on.  A CR is never  *)
(* the legacy operator's and upstream's at once, and never goes back.      *)
(*                                                                         *)
(* cluster-operator is a third reconciler, one that stays: it goes on with *)
(* the shared CRs beside upstream.                                         *)
(***************************************************************************)
CONSTANTS
    CRs,         \* the CRs of a cluster that change hands
    Legacy,      \* those the legacy operator has at first, some of CRs
    Shared,      \* those cluster-operator has together with upstream
    SharedFirst, \* those cluster-operator has from the first
    Before       \* CR -> the CRs upstream must have before it

VARIABLES
    asked,       \* the user has opted in
    complete,    \* everything upstream needs is there
    reconciler   \* CR -> who reconciles it

vars == <<asked, complete, reconciler>>

\* The owner, where the condition holds.
IfSo(owner, condition) == {r \in {owner} : condition}

Released == \A o \in CRs : "legacy" \notin reconciler[o]

Init ==
    /\ asked = FALSE
    /\ complete = FALSE
    /\ reconciler = [o \in CRs |-> IfSo("legacy", o \in Legacy)
                                   \cup IfSo("cluster-operator", o \in SharedFirst)]

Ask ==
    /\ ~asked /\ asked' = TRUE
    /\ UNCHANGED <<complete, reconciler>>

\* The last release may complete the preparation.
Release(o) ==
    /\ "legacy" \in reconciler[o] /\ "upstream" \notin reconciler[o] /\ asked
    /\ reconciler' = [reconciler EXCEPT ![o] = @ \ {"legacy"}]
    /\ complete' \in {complete, Released'}
    /\ UNCHANGED asked

Complete ==
    /\ asked /\ ~complete /\ Released
    /\ complete' = TRUE
    /\ UNCHANGED <<asked, reconciler>>

HandOver(o) ==
    /\ reconciler[o] \cap {"legacy", "upstream"} = {}
    /\ complete /\ \A p \in Before[o] : "upstream" \in reconciler[p]
    /\ reconciler' = [reconciler EXCEPT ![o] =
                        @ \cup {"upstream"} \cup IfSo("cluster-operator", o \in Shared)]
    /\ UNCHANGED <<asked, complete>>

Next == Ask \/ Complete \/ \E o \in CRs : Release(o) \/ HandOver(o)

Spec == Init /\ [][Next]_vars

-----------------------------------------------------------------------------
(* What it means for a CR (proved in HandoverPromises.tla).                *)

\* The legacy operator and upstream never act on the same CR.
NeverBoth == \A o \in CRs : ~({"legacy", "upstream"} \subseteq reconciler[o])

\* Upstream gets no CR while the legacy operator has one, or before what it needs
\* is there; and each CR only with all those before it.
UpstreamWhenReady ==
    \A o \in CRs : "upstream" \in reconciler[o] =>
        /\ complete /\ Released
        /\ \A p \in Before[o] : "upstream" \in reconciler[p]

\* cluster-operator acts on what it had from the first and on the shared CRs that
\* upstream has, on all of them: nobody gets a CR between the two labels.
SharedTogether ==
    \A o \in CRs : "cluster-operator" \in reconciler[o] <=>
        o \in SharedFirst \/ (o \in Shared /\ "upstream" \in reconciler[o])

\* What the legacy operator has lost it never gets back, and the others keep what
\* they have.
NeverBack ==
    [][\A o \in CRs :
          /\ "legacy" \notin reconciler[o] => "legacy" \notin reconciler'[o]
          /\ reconciler[o] \ {"legacy"} \subseteq reconciler'[o]]_vars
=============================================================================
