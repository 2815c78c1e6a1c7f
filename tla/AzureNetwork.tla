---------------------------- MODULE AzureNetwork ----------------------------
(***************************************************************************)
(* The network of the AzureCluster, as the passes of the Azure migrator    *)
(* rewrite it: the master's address put into the control plane when it is  *)
(* created, the API server's load balancer and the subnets.  Every pass    *)
(* starts from what earlier passes have left.  Migrator.tla has the rest   *)
(* of a pass, and abstracts what this module details.                      *)
(*                                                                         *)
(* Of an IPv4 address only the third and fourth octets matter here.        *)
(***************************************************************************)
EXTENDS Integers, Sequences, FiniteSets

CONSTANTS
    Networks,  \* VNETs the AzureCluster may have: see Network
    Balancers, \* load balancers it may have: see Balancer
    Layouts,   \* sequences of kinds of subnets it may have
    MaxPasses  \* bound: passes whose updates are stored

Byte     == 0 .. 255
Kinds    == {"master", "worker", "pool"}  \* by the suffix of the subnet's name
\* A family other than v4: an IPv6 block, one that does not parse, no block.
Families == {"v4", "v6", "bad", "none"}
Network  == [family : Families, third : Byte, fourth : Byte, prefix : 16 .. 30]
\* A frontend without a public IP, with a nameless one, or with a named one.
Balancer == [named : BOOLEAN, frontends : Seq({"bare", "nameless", "named"})]

ASSUME NetworkAssumption ==
    /\ Networks \subseteq Network
    /\ Balancers \subseteq Balancer
    /\ Layouts \subseteq Seq(Kinds)
    /\ MaxPasses \in Nat

VARIABLES
    network,  \* the VNET's CIDR block, as written in the CR
    balancer, \* spec.networkSpec.apiServerLB
    subnets,  \* spec.networkSpec.subnets: kind, third octet, who made it
    masterIP, \* ClusterMasterIP in the KubeadmControlPlane, <<>> without one
    stage,    \* where the pass is; "crashed" after a panic
    passes    \* updates stored so far

vars == <<network, balancer, subnets, masterIP, stage, passes>>

Existing(kind) == [kind |-> kind, third |-> 0, injected |-> FALSE]

Init ==
    /\ network \in Networks /\ balancer \in Balancers
    /\ \E layout \in Layouts :
          subnets = [i \in DOMAIN layout |-> Existing(layout[i])]
    /\ masterIP = <<>> /\ stage = "idle" /\ passes = 0

-----------------------------------------------------------------------------
(* Addresses: what net.ParseCIDR and byte arithmetic do. *)

\* Addresses in a block of which bits of the octet are fixed: 2^(8 - bits).
BlockSize(bits) == <<256, 128, 64, 32, 16, 8, 4, 2, 1>>[bits + 1]
Masked(octet, bits) == octet - (octet % BlockSize(bits))
Clamp(bits) == IF bits < 0 THEN 0 ELSE IF bits > 8 THEN 8 ELSE bits

BaseWritten(n) == <<n.third, n.fourth>>
\* The address of the network, not the one that is written.
BaseOf(n) == <<Masked(n.third, Clamp(n.prefix - 16)),
               Masked(n.fourth, Clamp(n.prefix - 24))>>
Base == BaseOf(network)

PlusUnbounded(octet, k) == octet + k
\* A byte wraps around.
Plus(octet, k) == (octet + k) % 256

getMasterIPForVNetUnmasked(n) == <<n.third, Plus(n.fourth, 4)>>
getMasterIPForVNet(n) == <<BaseOf(n)[1], Plus(BaseOf(n)[2], 4)>>

-----------------------------------------------------------------------------
(* createKubeadmControlPlane: the first use of the VNET in a pass. *)

getVNETCIDRUnchecked(n) == n.family # "bad"
getVNETCIDR(n) == n.family \in {"v4", "v6"}

\* An error ends the pass before anything is stored; IPv6 is a panic.  The
\* control plane is created once.
createKubeadmControlPlane ==
    /\ stage = "idle"
    /\ passes < MaxPasses
    /\ IF ~getVNETCIDR(network)
       THEN UNCHANGED <<stage, masterIP>>
       ELSE IF network.family = "v6"
            THEN stage' = "crashed" /\ UNCHANGED masterIP
            ELSE /\ stage' = "created"
                 /\ masterIP' = IF masterIP = <<>> THEN getMasterIPForVNet(network)
                                ELSE masterIP
    /\ UNCHANGED <<network, balancer, subnets, passes>>

-----------------------------------------------------------------------------
(* updateAzureCluster. *)

\* The balancer is replaced when it has no name; otherwise its first frontend
\* is completed.
WithFrontendForced(lb) ==
    [lb EXCEPT !.frontends = <<"named">>]
WithFrontendIfAny(lb) ==
    [lb EXCEPT !.frontends = IF @ = <<>> THEN @ ELSE [@ EXCEPT ![1] = "named"]]
WithFrontend(lb) ==
    [lb EXCEPT !.frontends = IF @ = <<>> THEN <<"named">> ELSE [@ EXCEPT ![1] = "named"]]

UpdatedBalancer(lb) ==
    IF lb.named THEN WithFrontend(lb) ELSE [named |-> TRUE, frontends |-> <<"named">>]

Has(nets, kind) == \E i \in DOMAIN nets : nets[i].kind = kind

Injected(kind, third) == <<[kind |-> kind, third |-> third, injected |-> TRUE]>>

\* Subnets without a master or a legacy worker subnet are taken for those of
\* node pools: no worker subnet then.
UpdatedSubnetsAlways(nets, n) ==
    nets \o Injected("master", BaseOf(n)[1])
         \o (IF Has(nets, "worker") \/ nets # <<>> THEN <<>>
             ELSE Injected("worker", Plus(BaseOf(n)[1], 1)))
UpdatedSubnets(nets, n) ==
    LET masterSubnetFound == Has(nets, "master")
        workerSubnetFound == Has(nets, "worker") \/ (~masterSubnetFound /\ nets # <<>>)
    IN nets
       \o (IF masterSubnetFound THEN <<>> ELSE Injected("master", BaseOf(n)[1]))
       \o (IF workerSubnetFound THEN <<>>
           ELSE Injected("worker", Plus(BaseOf(n)[1], 1)))

updateAzureCluster ==
    /\ stage = "created"
    /\ stage' = IF network.family = "none" THEN "crashed" ELSE "idle"
    /\ IF network.family = "v4"
       THEN /\ balancer' = UpdatedBalancer(balancer)
            /\ subnets' = UpdatedSubnets(subnets, network)
            /\ passes' = passes + 1
       ELSE UNCHANGED <<balancer, subnets, passes>>
    /\ UNCHANGED <<network, masterIP>>

\* The pass ends in between: an error of another call, a conflict, a crash.
Interrupted ==
    /\ stage = "created"
    /\ stage' = "idle"
    /\ UNCHANGED <<network, balancer, subnets, masterIP, passes>>

Next == createKubeadmControlPlane \/ updateAzureCluster \/ Interrupted

Spec == Init /\ [][Next]_vars

-----------------------------------------------------------------------------
(* Properties. *)

Subnet == [kind : Kinds, third : Byte, injected : BOOLEAN]

TypeOK ==
    /\ network \in Networks
    /\ balancer \in Balancer
    /\ subnets \in Seq(Subnet)
    /\ masterIP \in {<<>>} \cup (Byte \X Byte)
    /\ stage \in {"idle", "created", "crashed"}
    /\ passes \in 0 .. MaxPasses

\* updateAzureCluster indexes the VNET's blocks and converts the address
\* without a check of its own: it relies on createKubeadmControlPlane.
UpdateHasNetwork == stage = "created" => network.family = "v4"

\* The network settles at the second pass: no later pass changes it, however
\* many run.
SettlesAtSecondPass ==
    [][passes >= 2 => subnets' = subnets /\ balancer' = balancer]_vars

\* No pass adds a second master or legacy worker subnet.
OneSubnetOfAKind ==
    \A i, j \in DOMAIN subnets :
        subnets[i].injected /\ subnets[i].kind = subnets[j].kind => i = j

\* A subnet of a mask of 24 bits lies within the VNET.
InNetwork(third) ==
    network.prefix <= 24 /\ Masked(third, Clamp(network.prefix - 16)) = Base[1]

\* With room for two subnets, those a pass injects lie within the VNET and are
\* different, whatever address the CIDR block is written with.
InjectedInNetwork ==
    network.prefix <= 23 =>
        \A i, j \in DOMAIN subnets :
            subnets[i].injected =>
               /\ InNetwork(subnets[i].third)
               /\ subnets[j].injected /\ i # j => subnets[i].third # subnets[j].third

\* The control plane gets an address in the injected master subnet.
MasterInItsSubnet ==
    network.prefix <= 24 /\ masterIP # <<>> =>
        \A i \in DOMAIN subnets :
            subnets[i].injected /\ subnets[i].kind = "master"
               => subnets[i].third = masterIP[1] /\ masterIP[2] \in 4 .. 254

\* After a pass the balancer can be used, and a named one kept its other
\* frontends.
BalancerUsable ==
    passes > 0 => balancer.named /\ balancer.frontends # <<>>
                  /\ balancer.frontends[1] = "named"
FrontendsKept ==
    [][balancer.named =>
         \A i \in DOMAIN balancer.frontends :
             i > 1 => /\ i \in DOMAIN balancer'.frontends
                      /\ balancer'.frontends[i] = balancer.frontends[i]]_vars

-----------------------------------------------------------------------------
\* A cluster that came with node pool subnets only gets no legacy worker subnet
\* (comment in updateAzureCluster).
NoWorkerSubnetWithPools ==
    /\ Has(subnets, "pool")
    /\ \A i \in DOMAIN subnets : subnets[i].kind = "pool" \/ subnets[i].injected
    => ~ \E i \in DOMAIN subnets : subnets[i].injected /\ subnets[i].kind = "worker"
=============================================================================
