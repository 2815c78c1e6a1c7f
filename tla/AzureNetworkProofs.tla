------------------------- MODULE AzureNetworkProofs -------------------------
(***************************************************************************)
(* Theorems about AzureNetwork, for every set of VNETs, balancers and      *)
(* subnet layouts and any number of passes.  NetworkInv is the inductive   *)
(* invariant: where an injected subnet and the master's address lie follows *)
(* from the VNET alone, and what one pass has found the next finds again.  *)
(***************************************************************************)
EXTENDS AzureNetwork, SequenceTheorems, TLAPS

-----------------------------------------------------------------------------
(* Addresses. *)

\* The nine sizes of a block.
LEMMA BlockSizes ==
    ASSUME NEW bits \in 0 .. 8
    PROVE  BlockSize(bits) = IF bits = 0 THEN 256 ELSE IF bits = 1 THEN 128
                             ELSE IF bits = 2 THEN 64 ELSE IF bits = 3 THEN 32
                             ELSE IF bits = 4 THEN 16 ELSE IF bits = 5 THEN 8
                             ELSE IF bits = 6 THEN 4 ELSE IF bits = 7 THEN 2 ELSE 1
  BY DEF BlockSize

\* A block: its start is a multiple of its size, and so is what follows it.
LEMMA BlockArithmetic ==
    ASSUME NEW octet \in Byte, NEW size \in {256, 128, 64, 32, 16, 8, 4, 2, 1}
    PROVE  LET start == octet - (octet % size) IN
           /\ start \in Byte
           /\ start % size = 0
           /\ size > 1 => start + 1 < 256 /\ (start + 1) % size = 1
  <1>1. CASE size = 256
    BY <1>1, SMTT(30) DEF Byte
  <1>2. CASE size = 128
    BY <1>2, SMTT(30) DEF Byte
  <1>3. CASE size = 64
    BY <1>3, SMTT(30) DEF Byte
  <1>4. CASE size = 32
    BY <1>4, SMTT(30) DEF Byte
  <1>5. CASE size = 16
    BY <1>5, SMTT(30) DEF Byte
  <1>6. CASE size = 8
    BY <1>6, SMTT(30) DEF Byte
  <1>7. CASE size = 4
    BY <1>7, SMTT(30) DEF Byte
  <1>8. CASE size = 2
    BY <1>8, SMTT(30) DEF Byte
  <1>9. CASE size = 1
    BY <1>9, SMTT(30) DEF Byte
  <1> QED
    BY <1>1, <1>2, <1>3, <1>4, <1>5, <1>6, <1>7, <1>8, <1>9

\* An octet of which no bit is fixed is masked to zero.
LEMMA NoBitFixed ==
    ASSUME NEW octet \in Byte
    PROVE  Masked(octet, 0) = 0
  <1>1. BlockSize(0) = 256
    BY DEF BlockSize
  <1>2. octet - (octet % 256) = 0
    BY DEF Byte
  <1> QED
    BY <1>1, <1>2 DEF Masked

\* The start of a block of at least two octets: masking leaves it alone, and
\* its successor is in the same block.
LEMMA StartOfBlock ==
    ASSUME NEW octet \in Byte, NEW bits \in 0 .. 8, NEW start, start = Masked(octet, bits)
    PROVE  /\ start \in Byte
           /\ bits <= 7 => /\ Masked(start, bits) = start
                          /\ Masked(Plus(start, 1), bits) = start
                          /\ Plus(start, 1) # start
  <1>1. PICK size \in {256, 128, 64, 32, 16, 8, 4, 2, 1} :
           BlockSize(bits) = size /\ (bits <= 7 => size > 1)
    BY BlockSizes
  <1>2. start = octet - (octet % size)
    BY <1>1 DEF Masked
  <1>3. /\ start \in Byte /\ start % size = 0
        /\ bits <= 7 => start + 1 < 256 /\ (start + 1) % size = 1
    BY <1>1, <1>2, BlockArithmetic
  <1>4. ASSUME bits <= 7 PROVE Plus(start, 1) = start + 1
    BY <1>3, <1>4 DEF Plus, Byte
  <1>5. Masked(start, bits) = start - (start % size)
        /\ Masked(start + 1, bits) = (start + 1) - ((start + 1) % size)
    BY <1>1 DEF Masked
  <1>6. start \in Int
    BY <1>3 DEF Byte
  <1> QED
    BY <1>3, <1>4, <1>5, <1>6

\* The network's address consists of octets.
LEMMA BaseIsAddress ==
    ASSUME NEW n \in Network
    PROVE  BaseOf(n) \in Byte \X Byte
  <1>1. n.third \in Byte /\ n.fourth \in Byte /\ n.prefix \in 16 .. 30
    BY DEF Network
  <1>2. Clamp(n.prefix - 16) \in 0 .. 8 /\ Clamp(n.prefix - 24) \in 0 .. 8
    BY <1>1 DEF Clamp
  <1> QED
    BY <1>1, <1>2, StartOfBlock DEF BaseOf

\* Arithmetic on an octet stays within it.
LEMMA PlusIsByte ==
    ASSUME NEW octet \in Byte, NEW k \in {1, 4}
    PROVE  Plus(octet, k) \in Byte
  BY DEF Plus, Byte

-----------------------------------------------------------------------------
(* The rewrite of the subnets, as one subnet added at a time. *)

InjectedSubnet(kind, third) == [kind |-> kind, third |-> third, injected |-> TRUE]
Extended(nets, found, net) == nets \o (IF found THEN <<>> ELSE <<net>>)

\* A subnet is added at the end, or none is.
LEMMA ExtendedShape ==
    ASSUME NEW nets \in Seq(Subnet), NEW found \in BOOLEAN, NEW net \in Subnet,
           NEW new, new = Extended(nets, found, net)
    PROVE  /\ new \in Seq(Subnet)
           /\ found => new = nets
           /\ ~found => Len(new) = Len(nets) + 1 /\ new[Len(nets) + 1] = net
           /\ Len(nets) <= Len(new)
           /\ \A i \in 1 .. Len(nets) : new[i] = nets[i]
  <1>1. Len(nets) \in Nat /\ Len(nets) <= Len(nets) + 1
    BY LenProperties
  <1>2. CASE found
    <2>1. new = nets
      BY <1>2, ConcatEmptySeq DEF Extended
    <2>2. Len(nets) <= Len(nets)
      BY <1>1
    <2> QED
      BY <1>2, <2>1, <2>2, Zenon
  <1>3. CASE ~found
    <2>1. new = Append(nets, net)
      BY <1>3, AppendIsConcat DEF Extended
    <2>2. /\ new \in Seq(Subnet) /\ Len(new) = Len(nets) + 1
          /\ new[Len(nets) + 1] = net
          /\ \A i \in 1 .. Len(nets) : new[i] = nets[i]
      BY <2>1, AppendProperties
    <2>3. Len(nets) <= Len(new)
      BY <1>1, <2>2
    <2> QED
      BY <1>3, <2>2, <2>3, Zenon
  <1> QED
    BY <1>2, <1>3

MasterFound(nets) == Has(nets, "master")
WorkerFound(nets) == Has(nets, "worker") \/ (~MasterFound(nets) /\ nets # <<>>)

\* UpdatedSubnets is two such steps.
LEMMA UpdateInTwoSteps ==
    ASSUME NEW nets, NEW n
    PROVE  UpdatedSubnets(nets, n) =
             Extended(Extended(nets, MasterFound(nets),
                               InjectedSubnet("master", BaseOf(n)[1])),
                      WorkerFound(nets),
                      InjectedSubnet("worker", Plus(BaseOf(n)[1], 1)))
  BY DEF UpdatedSubnets, Extended, InjectedSubnet, Injected, MasterFound, WorkerFound

-----------------------------------------------------------------------------
(* The inductive invariant. *)

\* Where an injected subnet lies follows from its kind.
Placed(nets) ==
    \A i \in DOMAIN nets :
        nets[i].injected =>
           \/ nets[i].kind = "master" /\ nets[i].third = Base[1]
           \/ nets[i].kind = "worker" /\ nets[i].third = Plus(Base[1], 1)

Unique(nets) ==
    \A i, j \in DOMAIN nets :
        nets[i].injected /\ nets[i].kind = nets[j].kind => i = j

Usable(lb) == lb.named /\ lb.frontends # <<>> /\ lb.frontends[1] = "named"

NetworkInv ==
    /\ TypeOK
    /\ UpdateHasNetwork
    /\ Placed(subnets) /\ Unique(subnets)
    /\ masterIP # <<>> => masterIP = getMasterIPForVNet(network)
    /\ passes >= 1 => Usable(balancer) /\ Has(subnets, "master")
    /\ passes >= 2 => Has(subnets, "worker")
    /\ stage = "created" => passes < MaxPasses

\* What a step of UpdatedSubnets does to the parts of the invariant.
LEMMA ExtendedKeeps ==
    ASSUME NEW nets \in Seq(Subnet), NEW found \in BOOLEAN, NEW net \in Subnet,
           Has(nets, net.kind) => found,
           net.injected,
           \/ net.kind = "master" /\ net.third = Base[1]
           \/ net.kind = "worker" /\ net.third = Plus(Base[1], 1),
           Placed(nets), Unique(nets)
    PROVE  LET new == Extended(nets, found, net) IN
           /\ Placed(new) /\ Unique(new)
           /\ \A kind \in Kinds : Has(nets, kind) => Has(new, kind)
           /\ ~found => Has(new, net.kind)
           /\ \A kind \in Kinds : Has(new, kind) => Has(nets, kind) \/ kind = net.kind
  <1> DEFINE new == Extended(nets, found, net)
  <1>1. /\ new \in Seq(Subnet)
        /\ found => new = nets
        /\ ~found => Len(new) = Len(nets) + 1 /\ new[Len(nets) + 1] = net
        /\ \A i \in 1 .. Len(nets) : new[i] = nets[i]
    BY ExtendedShape
  <1>2. CASE found
    BY <1>1, <1>2
  <1>3. CASE ~found
    <2> HIDE DEF new
    <2>1. DOMAIN nets = 1 .. Len(nets) /\ DOMAIN new = 1 .. (Len(nets) + 1)
          /\ Len(nets) \in Nat
      BY <1>1, <1>3
    <2>2. Placed(new)
      BY <1>1, <1>3, <2>1 DEF Placed
    <2>3. Unique(new)
      BY <1>1, <1>3, <2>1 DEF Unique, Has
    <2>4. \A kind \in Kinds : Has(nets, kind) => Has(new, kind)
      BY <1>1, <2>1 DEF Has
    <2>5. Has(new, net.kind)
      BY <1>1, <1>3, <2>1 DEF Has
    <2>6. \A kind \in Kinds : Has(new, kind) => Has(nets, kind) \/ kind = net.kind
      BY <1>1, <1>3, <2>1 DEF Has
    <2> QED
      BY <2>2, <2>3, <2>4, <2>5, <2>6 DEF new
  <1> QED
    BY <1>2, <1>3

\* What a whole rewrite of the subnets does.
LEMMA UpdateKeeps ==
    ASSUME NetworkInv
    PROVE  LET new == UpdatedSubnets(subnets, network) IN
           /\ new \in Seq(Subnet) /\ Placed(new) /\ Unique(new)
           /\ Has(new, "master")
           /\ passes >= 1 => Has(new, "worker")
           /\ passes >= 2 => new = subnets
  <1> DEFINE master == InjectedSubnet("master", Base[1])
             worker == InjectedSubnet("worker", Plus(Base[1], 1))
             half == Extended(subnets, MasterFound(subnets), master)
             new == Extended(half, WorkerFound(subnets), worker)
  <1>1. /\ subnets \in Seq(Subnet) /\ Placed(subnets) /\ Unique(subnets)
        /\ network \in Network
        /\ passes >= 1 => Has(subnets, "master")
        /\ passes >= 2 => Has(subnets, "worker")
    BY NetworkAssumption DEF NetworkInv, TypeOK
  <1>2. UpdatedSubnets(subnets, network) = new
    BY UpdateInTwoSteps DEF Base
  <1>3. master \in Subnet /\ worker \in Subnet
    BY <1>1, BaseIsAddress, PlusIsByte DEF Base, InjectedSubnet, Subnet, Kinds
  <1>4. /\ master.kind = "master" /\ master.third = Base[1] /\ master.injected
        /\ worker.kind = "worker" /\ worker.third = Plus(Base[1], 1) /\ worker.injected
    BY DEF InjectedSubnet
  <1>5. MasterFound(subnets) \in BOOLEAN /\ WorkerFound(subnets) \in BOOLEAN
    BY DEF MasterFound, WorkerFound, Has
  <1> HIDE DEF master, worker
  <1>6. half \in Seq(Subnet)
    BY <1>1, <1>3, <1>5, ExtendedShape
  <1>7. /\ Placed(half) /\ Unique(half)
        /\ \A kind \in Kinds : Has(subnets, kind) => Has(half, kind)
        /\ ~MasterFound(subnets) => Has(half, "master")
        /\ \A kind \in Kinds : Has(half, kind) => Has(subnets, kind) \/ kind = "master"
    BY <1>1, <1>3, <1>4, <1>5, ExtendedKeeps DEF MasterFound
  <1>8. Has(half, "worker") => WorkerFound(subnets)
    BY <1>7 DEF WorkerFound, Kinds
  <1> HIDE DEF half
  <1>9. new \in Seq(Subnet)
    BY <1>3, <1>5, <1>6, ExtendedShape
  <1>10. /\ Placed(new) /\ Unique(new)
         /\ \A kind \in Kinds : Has(half, kind) => Has(new, kind)
         /\ ~WorkerFound(subnets) => Has(new, "worker")
    BY <1>3, <1>4, <1>5, <1>6, <1>7, <1>8, ExtendedKeeps
  <1>11. Has(new, "master")
    BY <1>7, <1>10 DEF MasterFound, Kinds
  <1>12. passes >= 1 => Has(new, "worker")
    <2>1. ASSUME passes >= 1 PROVE WorkerFound(subnets) => Has(subnets, "worker")
      BY <1>1, <2>1 DEF WorkerFound, MasterFound
    <2> QED
      BY <1>7, <1>10, <2>1 DEF Kinds
  <1>13. ASSUME passes >= 2 PROVE new = subnets
    <2>1. passes \in Int
      BY NetworkAssumption DEF NetworkInv, TypeOK
    <2>2. MasterFound(subnets) /\ WorkerFound(subnets)
      BY <1>1, <1>13, <2>1 DEF MasterFound, WorkerFound
    <2>3. half = subnets
      BY <1>1, <1>3, <1>5, <2>2, ExtendedShape DEF half
    <2> QED
      BY <1>3, <1>5, <1>6, <2>2, <2>3, ExtendedShape
  <1> QED
    BY <1>2, <1>9, <1>10, <1>11, <1>12, <1>13

\* What a rewrite of the balancer does.
LEMMA BalancerUpdated ==
    ASSUME NEW lb \in Balancer
    PROVE  /\ UpdatedBalancer(lb) \in Balancer
           /\ Usable(UpdatedBalancer(lb))
           /\ Usable(lb) => UpdatedBalancer(lb) = lb
           /\ lb.named =>
                \A i \in DOMAIN lb.frontends :
                    i > 1 => /\ i \in DOMAIN UpdatedBalancer(lb).frontends
                             /\ UpdatedBalancer(lb).frontends[i] = lb.frontends[i]
  <1> DEFINE Frontend == {"bare", "nameless", "named"}
             done == [lb.frontends EXCEPT ![1] = "named"]
  <1>1. /\ lb = [named |-> lb.named, frontends |-> lb.frontends]
        /\ lb.frontends \in Seq(Frontend) /\ lb.named \in BOOLEAN
    BY DEF Balancer
  <1>2. <<"named">> \in Seq(Frontend) /\ <<"named">> # <<>> /\ <<"named">>[1] = "named"
    OBVIOUS
  <1>3. CASE ~lb.named
    BY <1>1, <1>2, <1>3 DEF UpdatedBalancer, Usable, Balancer
  <1>4. CASE lb.named /\ lb.frontends = <<>>
    <2>1. UpdatedBalancer(lb) = [named |-> TRUE, frontends |-> <<"named">>]
      BY <1>1, <1>4 DEF UpdatedBalancer, WithFrontend, Balancer
    <2> QED
      BY <1>1, <1>2, <1>4, <2>1 DEF Usable, Balancer
  <1>5. CASE lb.named /\ lb.frontends # <<>>
    <2>1. UpdatedBalancer(lb) = [named |-> TRUE, frontends |-> done]
      BY <1>1, <1>5 DEF UpdatedBalancer, WithFrontend, Balancer
    <2>2. 1 \in 1 .. Len(lb.frontends) /\ DOMAIN lb.frontends = 1 .. Len(lb.frontends)
      BY <1>1, <1>5, EmptySeq
    <2>3. /\ done \in Seq(Frontend) /\ done[1] = "named" /\ done # <<>>
          /\ DOMAIN done = DOMAIN lb.frontends
          /\ \A i \in DOMAIN lb.frontends : i # 1 => done[i] = lb.frontends[i]
      BY <1>1, <2>2
    <2>4. ASSUME lb.frontends[1] = "named" PROVE done = lb.frontends
      BY <1>1, <2>2, <2>3, <2>4
    <2> HIDE DEF done
    <2> QED
      BY <1>1, <1>5, <2>1, <2>2, <2>3, <2>4 DEF Usable, Balancer
  <1> QED
    BY <1>3, <1>4, <1>5

-----------------------------------------------------------------------------
(* The invariant holds. *)

LEMMA NetworkInvInit == Init => NetworkInv
  <1> SUFFICES ASSUME Init PROVE NetworkInv
    OBVIOUS
  <1>1. PICK layout \in Layouts : subnets = [i \in DOMAIN layout |-> Existing(layout[i])]
    BY DEF Init
  <1>2. layout \in Seq(Kinds)
    BY NetworkAssumption
  <1>3. subnets \in Seq(Subnet) /\ \A i \in DOMAIN subnets : ~subnets[i].injected
    <2>1. DOMAIN layout = 1 .. Len(layout) /\ Len(layout) \in Nat
      BY <1>2
    <2>2. \A i \in 1 .. Len(layout) : Existing(layout[i]) \in Subnet
      BY <1>2, <2>1 DEF Existing, Subnet, Byte
    <2>3. \A i \in 1 .. Len(layout) : ~Existing(layout[i]).injected
      BY DEF Existing
    <2> QED
      BY <1>1, <2>1, <2>2, <2>3
  <1>4. Placed(subnets) /\ Unique(subnets)
    BY <1>3 DEF Placed, Unique
  <1>5. TypeOK
    BY <1>3, NetworkAssumption DEF Init, TypeOK
  <1> QED
    BY <1>4, <1>5 DEF Init, NetworkInv, UpdateHasNetwork

LEMMA NetworkInvStep == NetworkInv /\ [Next]_vars => NetworkInv'
  <1> SUFFICES ASSUME NetworkInv, [Next]_vars PROVE NetworkInv'
    OBVIOUS
  <1>t. /\ network \in Networks /\ network \in Network /\ balancer \in Balancer
        /\ subnets \in Seq(Subnet) /\ masterIP \in {<<>>} \cup (Byte \X Byte)
        /\ stage \in {"idle", "created", "crashed"}
        /\ passes \in 0 .. MaxPasses /\ MaxPasses \in Nat
    BY NetworkAssumption DEF NetworkInv, TypeOK
  <1>1. CASE createKubeadmControlPlane
    <2>1. UNCHANGED <<network, balancer, subnets, passes>>
      BY <1>1 DEF createKubeadmControlPlane
    <2>2. /\ stage' \in {"idle", "created", "crashed"}
          /\ stage' = "created" => network.family = "v4"
          /\ masterIP' = masterIP \/ masterIP' = getMasterIPForVNet(network)
      BY <1>1, <1>t DEF createKubeadmControlPlane, getVNETCIDR
    <2>3. getMasterIPForVNet(network) \in Byte \X Byte
      BY <1>t, BaseIsAddress, PlusIsByte DEF getMasterIPForVNet
    <2>4. masterIP' \in {<<>>} \cup (Byte \X Byte)
          /\ (masterIP' # <<>> => masterIP' = getMasterIPForVNet(network))
      BY <1>t, <2>2, <2>3 DEF NetworkInv
    <2>5. TypeOK' /\ UpdateHasNetwork'
      BY <1>t, <2>1, <2>2, <2>4 DEF TypeOK, UpdateHasNetwork
    <2>6. Base' = Base /\ getMasterIPForVNet(network)' = getMasterIPForVNet(network)
      BY <2>1 DEF Base
    <2>7. Placed(subnets)' /\ Unique(subnets)' /\ (Usable(balancer)' <=> Usable(balancer))
      BY <2>1, <2>6 DEF NetworkInv, Placed, Unique, Usable
    <2>8. (stage = "created" => passes < MaxPasses)'
      BY <1>1, <2>1 DEF createKubeadmControlPlane
    <2> QED
      BY <2>1, <2>4, <2>5, <2>6, <2>7, <2>8 DEF NetworkInv, Has
  <1>2. CASE updateAzureCluster
    <2>1. UNCHANGED <<network, masterIP>> /\ stage' \in {"idle", "crashed"}
          /\ network.family = "v4"
      BY <1>2 DEF updateAzureCluster, NetworkInv, UpdateHasNetwork
    <2>2. /\ balancer' = UpdatedBalancer(balancer)
          /\ subnets' = UpdatedSubnets(subnets, network)
          /\ passes' = passes + 1
      BY <1>2, <2>1 DEF updateAzureCluster
    <2>3. /\ subnets' \in Seq(Subnet) /\ Placed(subnets') /\ Unique(subnets')
          /\ Has(subnets', "master") /\ (passes >= 1 => Has(subnets', "worker"))
      BY <2>2, UpdateKeeps
    <2>4. balancer' \in Balancer /\ Usable(balancer')
      BY <1>t, <2>2, BalancerUpdated
    <2>5. Base' = Base /\ getMasterIPForVNet(network)' = getMasterIPForVNet(network)
      BY <2>1 DEF Base
    <2>6. Placed(subnets)' /\ Unique(subnets)' /\ Usable(balancer)'
      BY <2>3, <2>4, <2>5 DEF Placed, Unique, Usable
    <2>7. TypeOK' /\ UpdateHasNetwork'
      <3>1. passes < MaxPasses
        BY <1>2 DEF updateAzureCluster, NetworkInv
      <3>2. passes' \in 0 .. MaxPasses
        BY <1>t, <2>2, <3>1
      <3> QED
        BY <1>t, <2>1, <2>3, <2>4, <3>2 DEF TypeOK, UpdateHasNetwork
    <2>8. (masterIP # <<>> => masterIP = getMasterIPForVNet(network))'
      BY <2>1, <2>5 DEF NetworkInv
    <2>9. (passes >= 1 => Has(subnets, "master"))' /\ (passes >= 2 => Has(subnets, "worker"))'
      BY <1>t, <2>2, <2>3 DEF Has
    <2>10. (stage = "created" => passes < MaxPasses)'
      BY <2>1
    <2> QED
      BY <2>6, <2>7, <2>8, <2>9, <2>10 DEF NetworkInv
  <1>3. CASE Interrupted
    <2>1. UNCHANGED <<network, balancer, subnets, masterIP, passes>> /\ stage' = "idle"
      BY <1>3 DEF Interrupted
    <2> QED
      BY <2>1 DEF NetworkInv, TypeOK, UpdateHasNetwork, Placed, Unique, Base, Usable, Has
  <1>4. CASE UNCHANGED vars
    BY <1>4 DEF vars, NetworkInv, TypeOK, UpdateHasNetwork, Placed, Unique, Base, Usable, Has
  <1> QED
    BY <1>1, <1>2, <1>3, <1>4 DEF Next

LEMMA NetworkInvHolds == Spec => []NetworkInv
  BY NetworkInvInit, NetworkInvStep, PTL DEF Spec

-----------------------------------------------------------------------------
(* Theorems. *)

\* Every state is well typed: no octet overflows and no subnet is malformed.
THEOREM NetworkTypeCorrect == Spec => []TypeOK
  BY NetworkInvHolds, PTL DEF NetworkInv

\* updateAzureCluster never runs on a VNET it would panic on, because
\* createKubeadmControlPlane has ended the pass before.
THEOREM UpdateFindsNetwork == Spec => []UpdateHasNetwork
  BY NetworkInvHolds, PTL DEF NetworkInv

\* Passes never inject a second master or legacy worker subnet, however many
\* run and whatever subnets the cluster came with.
THEOREM SubnetsStayUnique == Spec => []OneSubnetOfAKind
  <1>1. NetworkInv => OneSubnetOfAKind
    BY DEF NetworkInv, Unique, OneSubnetOfAKind
  <1> QED
    BY <1>1, NetworkInvHolds, PTL

\* What passes inject lies within the VNET, for every VNET of at least two
\* subnets and whatever address its block is written with.
THEOREM InjectedLiesInNetwork == Spec => []InjectedInNetwork
  <1>1. NetworkInv => InjectedInNetwork
    <2> SUFFICES ASSUME NetworkInv, network.prefix <= 23,
                        NEW i \in DOMAIN subnets, NEW j \in DOMAIN subnets,
                        subnets[i].injected
                 PROVE  /\ InNetwork(subnets[i].third)
                        /\ subnets[j].injected /\ i # j
                             => subnets[i].third # subnets[j].third
      BY DEF InjectedInNetwork
    <2> DEFINE bits == Clamp(network.prefix - 16)
    <2>1. network \in Network /\ network.third \in Byte /\ network.prefix \in 16 .. 30
      BY NetworkAssumption DEF NetworkInv, TypeOK, Network
    <2>2. bits \in 0 .. 7 /\ Base[1] = Masked(network.third, bits)
      BY <2>1 DEF Clamp, Base, BaseOf
    <2>3. /\ Masked(Base[1], bits) = Base[1]
          /\ Masked(Plus(Base[1], 1), bits) = Base[1]
          /\ Plus(Base[1], 1) # Base[1]
      BY <2>1, <2>2, StartOfBlock
    <2>4. \A k \in DOMAIN subnets :
             subnets[k].injected =>
                \/ subnets[k].kind = "master" /\ subnets[k].third = Base[1]
                \/ subnets[k].kind = "worker" /\ subnets[k].third = Plus(Base[1], 1)
      BY DEF NetworkInv, Placed
    <2>5. InNetwork(subnets[i].third)
      BY <2>1, <2>3, <2>4 DEF InNetwork
    <2>6. ASSUME subnets[j].injected, i # j
          PROVE  subnets[i].third # subnets[j].third
      <3>1. subnets[i].kind # subnets[j].kind
        BY <2>6 DEF NetworkInv, Unique
      <3> QED
        BY <2>3, <2>4, <2>6, <3>1
    <2> QED
      BY <2>5, <2>6
  <1> QED
    BY <1>1, NetworkInvHolds, PTL

\* The address that the control plane was given lies in the master subnet that
\* a later method, or a later pass, injects.
THEOREM MasterLiesInItsSubnet == Spec => []MasterInItsSubnet
  <1>1. NetworkInv => MasterInItsSubnet
    <2> SUFFICES ASSUME NetworkInv, network.prefix <= 24, masterIP # <<>>,
                        NEW i \in DOMAIN subnets,
                        subnets[i].injected, subnets[i].kind = "master"
                 PROVE  subnets[i].third = masterIP[1] /\ masterIP[2] \in 4 .. 254
      BY DEF MasterInItsSubnet
    <2>1. network.fourth \in Byte /\ network.prefix \in 16 .. 30
      BY NetworkAssumption DEF NetworkInv, TypeOK, Network
    <2>2. Clamp(network.prefix - 24) = 0
      BY <2>1 DEF Clamp
    <2>3. BaseOf(network)[2] = 0
      BY <2>1, <2>2, NoBitFixed DEF BaseOf
    <2>4. masterIP = <<Base[1], 4>>
      BY <2>3 DEF NetworkInv, getMasterIPForVNet, Base, Plus
    <2>5. subnets[i].third = Base[1]
      BY DEF NetworkInv, Placed
    <2> QED
      BY <2>4, <2>5
  <1> QED
    BY <1>1, NetworkInvHolds, PTL

\* After any pass the API server's load balancer is complete.
THEOREM BalancerIsUsable == Spec => []BalancerUsable
  <1>1. NetworkInv => BalancerUsable
    BY NetworkAssumption DEF NetworkInv, TypeOK, Usable, BalancerUsable
  <1> QED
    BY <1>1, NetworkInvHolds, PTL

\* From the third pass on nothing changes any more: passes repeat for ever, the
\* network does not.
THEOREM NetworkSettles == Spec => SettlesAtSecondPass
  <1>1. NetworkInv /\ [Next]_vars
          => [passes >= 2 => subnets' = subnets /\ balancer' = balancer]_vars
    <2> SUFFICES ASSUME NetworkInv, [Next]_vars, passes >= 2
                 PROVE  subnets' = subnets /\ balancer' = balancer
      OBVIOUS
    <2>1. CASE updateAzureCluster /\ network.family = "v4"
      <3>1. subnets' = UpdatedSubnets(subnets, network)
            /\ balancer' = UpdatedBalancer(balancer)
        BY <2>1 DEF updateAzureCluster
      <3>2. balancer \in Balancer /\ Usable(balancer)
        BY NetworkAssumption DEF NetworkInv, TypeOK
      <3> QED
        BY <3>1, <3>2, UpdateKeeps, BalancerUpdated
    <2>2. CASE ~(updateAzureCluster /\ network.family = "v4")
      BY <2>2 DEF Next, createKubeadmControlPlane, updateAzureCluster, Interrupted, vars
    <2> QED
      BY <2>1, <2>2
  <1> QED
    BY <1>1, NetworkInvHolds, PTL DEF Spec, SettlesAtSecondPass

\* A pass replaces the first frontend of a named balancer at most: the others
\* are never dropped or changed.
THEOREM OtherFrontendsStay == Spec => FrontendsKept
  <1> DEFINE Kept == balancer.named =>
                       \A i \in DOMAIN balancer.frontends :
                          i > 1 => /\ i \in DOMAIN balancer'.frontends
                                   /\ balancer'.frontends[i] = balancer.frontends[i]
  <1>1. NetworkInv /\ [Next]_vars => [Kept]_vars
    <2> SUFFICES ASSUME NetworkInv, [Next]_vars PROVE Kept
      OBVIOUS
    <2>1. CASE balancer' = balancer
      BY <2>1
    <2>2. CASE balancer' = UpdatedBalancer(balancer)
      BY <2>2, BalancerUpdated DEF NetworkInv, TypeOK
    <2> QED
      BY <2>1, <2>2 DEF Next, createKubeadmControlPlane, updateAzureCluster, Interrupted, vars
  <1> QED
    BY <1>1, NetworkInvHolds, PTL DEF Spec, FrontendsKept
=============================================================================
