-------------------------- MODULE VpcNetwork_proofs --------------------------
(* Theorems about VpcNetwork, for every set of names, CIDRs and VMs and any  *)
(* number of VPCs, subnets, groups and tables: subnets lie apart and inside  *)
(* their VPC, each has its system route, associations resolve, and           *)
(* interfaces carry groups of their own VPC.                                 *)
(*                                                                           *)
(* The inductive invariant adds what the four properties rest on: ids of     *)
(* VPCs are distinct and never given out twice, an index entry or a table    *)
(* stays with the VPC in its id, the default table is indexed as long as its *)
(* VPC was ever made, and a table has one route per destination.             *)
EXTENDS VpcNetwork, TLAPS

VpcRowsOK ==
    /\ vni \in Nat /\ vni <= MaxVpcs
    /\ \A v \in vpcs : v.id \in 1 .. vni
    /\ \A v, w \in vpcs : v.id = w.id => v = w

SubnetRowsOK ==
    /\ lastSubnet \in Nat /\ lastSubnet <= MaxSubnets
    /\ \A s \in subnets : /\ s.id \in 1 .. lastSubnet /\ s.vpc \in 1 .. vni
                          /\ s.cidr # {}
    /\ SubnetsDisjoint

\* The default table of every VPC ever made is indexed, and what an index key
\* leads to is of the VPC in the key.
TableRowsOK ==
    /\ made \in Nat
    /\ tableIndex \in [TableKeys -> (Nat \X Nat) \cup {None}]
    /\ \A k \in TableKeys : tableIndex[k] # None => tableIndex[k][1] = k[1]
    /\ \A v \in 1 .. vni : tableIndex[<<v, "default">>] = <<v, 0>>
    /\ \A t \in tables : /\ t.id \in Nat \X Nat /\ t.id[1] = t.vpc
                         /\ t.vpc \in 1 .. vni

\* One route per table and destination.
UniqueKeys(rs) == \A r, s \in rs : r.table = s.table /\ r.dest = s.dest => r = s

RoutesOK == UniqueKeys(routes) /\ SubnetsRouted

AssocOK ==
    /\ assoc \in [SubnetIds -> (Nat \X Nat) \cup {None}]
    /\ AssociationsResolve

GroupRowsOK == \A g \in groups : g.id \in Nat \X Nat /\ g.id[1] = g.vpc

NicRecord == [vm : VMs, subnet : SubnetIds, groups : SUBSET (Nat \X Nat),
              vpc : Nat \cup {None}]

NicsOK == nics \subseteq NicRecord /\ GroupsAreLocal

NetworkOK ==
    /\ VpcRowsOK /\ SubnetRowsOK /\ TableRowsOK /\ RoutesOK /\ AssocOK
    /\ GroupRowsOK /\ NicsOK

-----------------------------------------------------------------------------
(* Routes and CIDRs.                                                         *)

SystemRoute(t, d) == [table |-> t, dest |-> d, origin |-> "system"]

LEMMA PutRouteKeys ==
  ASSUME NEW rs, NEW t, NEW d, NEW o, UniqueKeys(rs)
  PROVE  UniqueKeys(PutRoute(rs, t, d, o))
<1> DEFINE row == [table |-> t, dest |-> d, origin |-> o]
<1>1. row.table = t /\ row.dest = d
  OBVIOUS
<1>2. PutRoute(rs, t, d, o) = {r \in rs : ~(r.table = t /\ r.dest = d)} \cup {row}
  BY DEF PutRoute
<1> HIDE DEF row
<1> QED
  BY <1>1, <1>2 DEF UniqueKeys

\* Writing a system route takes no system route away.
LEMMA PutRouteKeeps ==
  ASSUME NEW rs, NEW t, NEW d, NEW x, NEW y
  PROVE  /\ SystemRoute(t, d) \in PutRoute(rs, t, d, "system")
         /\ SystemRoute(x, y) \in rs =>
               SystemRoute(x, y) \in PutRoute(rs, t, d, "system")
<1>1. SystemRoute(x, y).table = x /\ SystemRoute(x, y).dest = y
  BY DEF SystemRoute
<1>2. PutRoute(rs, t, d, "system") =
        {r \in rs : ~(r.table = t /\ r.dest = d)} \cup {SystemRoute(t, d)}
  BY DEF PutRoute, SystemRoute
<1>3. x = t /\ y = d => SystemRoute(x, y) = SystemRoute(t, d)
  OBVIOUS
<1> QED
  BY <1>1, <1>2, <1>3

LEMMA RoutedBySystem ==
  /\ SubnetsRouted <=> \A s \in subnets : SystemRoute(<<s.vpc, 0>>, s.cidr) \in routes
  /\ SubnetsRouted' <=> \A s \in subnets' : SystemRoute(<<s.vpc, 0>>, s.cidr) \in routes'
  BY DEF SubnetsRouted, SystemRoute

\* The CIDR create_subnet settles on is a nonempty part of the VPC that meets
\* nothing taken, whether it was asked for or found.
LEMMA SubnetCidrFits ==
  ASSUME NEW cidr, NEW taken, NEW asked \in SubnetCidrs \cup {None},
         NEW c \in SubnetCidr(cidr, taken, asked)
  PROVE  c # {} /\ c \subseteq cidr /\ \A t \in taken : t \cap c = {}
<1>1. CASE asked = None
  <2>1. PICK k : /\ c = {2 * k, 2 * k + 1} /\ {2 * k, 2 * k + 1} \subseteq cidr
                 /\ \A t \in taken : t \cap {2 * k, 2 * k + 1} = {}
    BY <1>1, Zenon DEF SubnetCidr, AutoAllocate
  <2> QED
    BY <2>1, Zenon
<1>2. CASE asked # None
  BY <1>2, NetworkAssumption DEF SubnetCidr
<1> QED
  BY <1>1, <1>2

-----------------------------------------------------------------------------
(* Parts of the invariant that a step leaves alone.                          *)

LEMMA VpcsStill ==
  ASSUME VpcRowsOK, UNCHANGED <<vpcs, vni>>
  PROVE  VpcRowsOK'
  BY DEF VpcRowsOK

LEMMA TablesStill ==
  ASSUME TableRowsOK, UNCHANGED <<tables, tableIndex, vni>>, made' \in Nat
  PROVE  TableRowsOK'
  BY DEF TableRowsOK

LEMMA RoutesStill ==
  ASSUME RoutesOK, UNCHANGED <<subnets, routes>>
  PROVE  RoutesOK'
  BY DEF RoutesOK, SubnetsRouted

\* Nothing that is still there is needed less.
LEMMA AssocStill ==
  ASSUME AssocOK, UNCHANGED assoc, subnets \subseteq subnets', tables \subseteq tables'
  PROVE  AssocOK'
<1>1. assoc' = assoc
  OBVIOUS
<1>2. ASSUME NEW i \in SubnetIds, assoc'[i] # None
      PROVE  \E s \in subnets', t \in tables' : s.id = i /\ t.id = assoc'[i] /\ t.vpc = s.vpc
  <2>1. PICK s \in subnets, t \in tables : s.id = i /\ t.id = assoc[i] /\ t.vpc = s.vpc
    BY <1>1, <1>2 DEF AssocOK, AssociationsResolve
  <2> QED
    BY <1>1, <2>1
<1> QED
  BY <1>1, <1>2 DEF AssocOK, AssociationsResolve

LEMMA NicsStill ==
  ASSUME NicsOK, UNCHANGED nics
  PROVE  NicsOK'
  BY DEF NicsOK, GroupsAreLocal

LEMMA GroupsStill ==
  ASSUME GroupRowsOK, UNCHANGED groups
  PROVE  GroupRowsOK'
  BY DEF GroupRowsOK

\* Subnets stay apart when none is added and VPCs are only added with new ids.
LEMMA SubnetsStill ==
  ASSUME VpcRowsOK, SubnetRowsOK, subnets' \subseteq subnets, lastSubnet' = lastSubnet,
         vni' \in Nat, vni <= vni', \A v \in vpcs' : v \in vpcs \/ v.id = vni + 1
  PROVE  SubnetRowsOK'
<1>1. ASSUME NEW s \in subnets'
      PROVE  /\ s.id \in 1 .. lastSubnet' /\ s.vpc \in 1 .. vni' /\ s.cidr # {}
             /\ \A v \in vpcs' : v.id = s.vpc => s.cidr \subseteq v.cidr
             /\ \A x \in subnets' : x.vpc = s.vpc /\ x # s => x.cidr \cap s.cidr = {}
  <2>1. s \in subnets /\ s.id \in 1 .. lastSubnet /\ s.vpc \in 1 .. vni /\ s.cidr # {}
    BY DEF SubnetRowsOK
  <2>2. vni \in Nat
    BY DEF VpcRowsOK
  <2>3. s.vpc \in 1 .. vni' /\ s.vpc # vni + 1
    BY <2>1, <2>2
  <2>4. \A v \in vpcs : v.id = s.vpc => s.cidr \subseteq v.cidr
    BY <2>1 DEF SubnetRowsOK, SubnetsDisjoint
  <2>5. \A x \in subnets' : x.vpc = s.vpc /\ x # s => x.cidr \cap s.cidr = {}
    BY <2>1 DEF SubnetRowsOK, SubnetsDisjoint
  <2> QED
    BY <2>1, <2>3, <2>4, <2>5
<1> QED
  BY <1>1 DEF SubnetRowsOK, SubnetsDisjoint

-----------------------------------------------------------------------------
(* VPCs with their default group and table.                                  *)

LEMMA NewVpcStep ==
  ASSUME VpcRowsOK, SubnetRowsOK, TableRowsOK, GroupRowsOK,
         NEW name, NEW cidr, NEW owner, NEW shared, NEW c,
         AddVpc(name, cidr, owner, shared), AddDefaults(vni + 1, c)
  PROVE  /\ VpcRowsOK' /\ TableRowsOK' /\ GroupRowsOK'
         /\ vni' = vni + 1 /\ vni' \in Nat /\ vni <= vni'
         /\ \A v \in vpcs' : v \in vpcs \/ v.id = vni + 1
         /\ \A v \in vpcs' : v.id = vni + 1 => v.cidr = cidr
         /\ tables \subseteq tables'
<1> DEFINE row == [id |-> vni + 1, name |-> name, cidr |-> cidr,
                   owner |-> owner, shared |-> shared]
           id == <<vni + 1, 0>>
           key == <<vni + 1, "default">>
           default == [id |-> id, name |-> "default", vpc |-> vni + 1]
<1>1. /\ vpcs' = vpcs \cup {row} /\ vni' = vni + 1 /\ vni < MaxVpcs
      /\ groups' = groups \cup {default}
      /\ tables' = tables \cup {default}
      /\ tableIndex' = [tableIndex EXCEPT ![key] = id]
      /\ made' = made
  BY DEF AddVpc, AddDefaults
<1>2. row.id = vni + 1 /\ row.cidr = cidr
  OBVIOUS
<1>3. vni \in Nat /\ vni' \in Nat /\ vni <= vni' /\ vni' <= MaxVpcs
  BY <1>1, NetworkAssumption, TenancyAssumption DEF VpcRowsOK
<1>4. /\ default.id = id /\ default.vpc = vni + 1 /\ id \in Nat \X Nat
      /\ id[1] = vni + 1
  BY <1>3
<1>5. key \in TableKeys /\ key[1] = vni + 1
  BY <1>1, <1>3, TenancyAssumption DEF TableKeys, VpcIds
<1>6. id # None
  BY <1>4, NetworkAssumption
<1> HIDE DEF row, default
<1>7. \A v \in vpcs : v.id \in 1 .. vni /\ v.id \in 1 .. vni' /\ v.id # vni + 1
  BY <1>1, <1>3 DEF VpcRowsOK
<1>8. VpcRowsOK'
  BY <1>1, <1>2, <1>3, <1>7 DEF VpcRowsOK
<1>9. GroupRowsOK'
  BY <1>1, <1>4 DEF GroupRowsOK
<1>10. TableRowsOK'
  <2>1. tableIndex' \in [TableKeys -> (Nat \X Nat) \cup {None}]
    BY <1>1, <1>4 DEF TableRowsOK
  <2>2. /\ tableIndex'[key] = id
        /\ \A k \in TableKeys : k # key => tableIndex'[k] = tableIndex[k]
    BY <1>1, <1>5 DEF TableRowsOK
  <2>3. \A k \in TableKeys : tableIndex'[k] # None => tableIndex'[k][1] = k[1]
    BY <1>4, <1>5, <2>2 DEF TableRowsOK
  <2>4. ASSUME NEW v \in 1 .. vni'
        PROVE  tableIndex'[<<v, "default">>] = <<v, 0>>
    <3>1. CASE v = vni + 1
      BY <2>2, <3>1
    <3>2. CASE v # vni + 1
      <4>1. v \in 1 .. vni
        BY <1>1, <1>3, <3>2
      <4>2. tableIndex[<<v, "default">>] = <<v, 0>>
        BY <4>1 DEF TableRowsOK
      <4>3. <<v, "default">> \in TableKeys /\ <<v, "default">> # key
        BY <1>1, <1>3, <3>2, <4>1, TenancyAssumption DEF TableKeys, VpcIds
      <4> QED
        BY <2>2, <4>2, <4>3
    <3> QED
      BY <3>1, <3>2
  <2>5. ASSUME NEW t \in tables'
        PROVE  t.id \in Nat \X Nat /\ t.id[1] = t.vpc /\ t.vpc \in 1 .. vni'
    <3>1. CASE t = default
      BY <1>1, <1>3, <1>4, <3>1
    <3>2. CASE t \in tables
      <4>1. t.id \in Nat \X Nat /\ t.id[1] = t.vpc /\ t.vpc \in 1 .. vni
        BY <3>2 DEF TableRowsOK
      <4> QED
        BY <1>1, <1>3, <4>1
    <3> QED
      BY <1>1, <3>1, <3>2
  <2> QED
    BY <1>1, <2>1, <2>3, <2>4, <2>5 DEF TableRowsOK
<1> QED
  BY <1>1, <1>2, <1>3, <1>7, <1>8, <1>9, <1>10

LEMMA CreateNetworkStep ==
  ASSUME NetworkOK, NEW name \in VpcNames, NEW cidr \in VpcCidrs, NEW owner \in Owners,
         CreateNetwork(name, cidr, owner)
  PROVE  NetworkOK'
<1> USE DEF NetworkOK
<1>1. AddVpc(name, cidr, owner, owner.kind = "org") /\ AddDefaults(vni + 1, cidr)
  BY DEF CreateNetwork, CreateVpc
<1>2. /\ VpcRowsOK' /\ TableRowsOK' /\ GroupRowsOK'
      /\ vni' \in Nat /\ vni <= vni' /\ tables \subseteq tables'
      /\ \A v \in vpcs' : v \in vpcs \/ v.id = vni + 1
  BY <1>1, NewVpcStep
<1>3. /\ UNCHANGED <<subnets, lastSubnet, nics, assoc>>
      /\ routes' = PutRoute(routes, <<vni + 1, 0>>, cidr, "system")
  BY DEF CreateNetwork, AddDefaults, subnetVars
<1>4. SubnetRowsOK'
  BY <1>2, <1>3, SubnetsStill
<1>5. RoutesOK'
  BY <1>3, PutRouteKeys, PutRouteKeeps, RoutedBySystem DEF RoutesOK
<1>6. AssocOK'
  BY <1>2, <1>3, AssocStill
<1>7. NicsOK'
  BY <1>3, NicsStill
<1> QED
  BY <1>2, <1>4, <1>5, <1>6, <1>7

LEMMA NetworkStill ==
  ASSUME NetworkOK, UNCHANGED netVars, vpcs' \subseteq vpcs, vni' = vni
  PROVE  NetworkOK'
<1> USE DEF NetworkOK
<1>1. VpcRowsOK'
  BY DEF VpcRowsOK
<1>2. UNCHANGED <<subnets, lastSubnet, groups, tables, tableIndex, routes, assoc, nics, made>>
  BY DEF netVars, subnetVars, groupVars, tableVars
<1>3. SubnetRowsOK'
  BY <1>2, SubnetsStill DEF VpcRowsOK
<1>4. TableRowsOK'
  BY <1>2, TablesStill DEF TableRowsOK
<1>5. RoutesOK' /\ AssocOK' /\ GroupRowsOK' /\ NicsOK'
  BY <1>2, RoutesStill, AssocStill, GroupsStill, NicsStill
<1> QED
  BY <1>1, <1>3, <1>4, <1>5

-----------------------------------------------------------------------------
(* Subnets.                                                                  *)

\* One subnet more, in a VPC of the next state.
LEMMA AddSubnetRow ==
  ASSUME VpcRowsOK, SubnetRowsOK, NEW v, NEW c, NEW name, NEW env,
         lastSubnet < MaxSubnets, lastSubnet' = lastSubnet + 1,
         subnets' = subnets \cup {[id |-> lastSubnet + 1, name |-> name, vpc |-> v,
                                   env |-> env, cidr |-> c]},
         vni' \in Nat, vni <= vni', v \in 1 .. vni',
         \A w \in vpcs' : w \in vpcs \/ w.id = vni + 1,
         c # {}, \A w \in vpcs' : w.id = v => c \subseteq w.cidr,
         \A s \in subnets : s.vpc = v => s.cidr \cap c = {}
  PROVE  SubnetRowsOK'
<1> DEFINE row == [id |-> lastSubnet + 1, name |-> name, vpc |-> v,
                   env |-> env, cidr |-> c]
<1>1. row.id = lastSubnet + 1 /\ row.vpc = v /\ row.cidr = c
  OBVIOUS
<1>2. subnets' = subnets \cup {row}
  OBVIOUS
<1>3. vni \in Nat /\ lastSubnet \in Nat /\ lastSubnet' \in Nat /\ lastSubnet' <= MaxSubnets
  BY NetworkAssumption DEF VpcRowsOK, SubnetRowsOK
<1> HIDE DEF row
<1>4. ASSUME NEW s \in subnets
      PROVE  /\ s.id \in 1 .. lastSubnet' /\ s.vpc \in 1 .. vni' /\ s.cidr # {}
             /\ \A w \in vpcs' : w.id = s.vpc => s.cidr \subseteq w.cidr
  <2>1. s.id \in 1 .. lastSubnet /\ s.vpc \in 1 .. vni /\ s.cidr # {}
    BY DEF SubnetRowsOK
  <2>2. s.id \in 1 .. lastSubnet' /\ s.vpc \in 1 .. vni' /\ s.vpc # vni + 1
    BY <1>3, <2>1
  <2>3. \A w \in vpcs : w.id = s.vpc => s.cidr \subseteq w.cidr
    BY DEF SubnetRowsOK, SubnetsDisjoint
  <2> QED
    BY <2>1, <2>2, <2>3
<1>5. /\ row.id \in 1 .. lastSubnet' /\ row.vpc \in 1 .. vni' /\ row.cidr # {}
      /\ \A w \in vpcs' : w.id = row.vpc => row.cidr \subseteq w.cidr
  BY <1>1, <1>3
<1>6. \A s, x \in subnets' : x.vpc = s.vpc /\ x # s => x.cidr \cap s.cidr = {}
  <2> SUFFICES ASSUME NEW s \in subnets', NEW x \in subnets', x.vpc = s.vpc, x # s
               PROVE  x.cidr \cap s.cidr = {}
    OBVIOUS
  <2>1. CASE s \in subnets /\ x \in subnets
    BY <2>1 DEF SubnetRowsOK, SubnetsDisjoint
  <2>2. CASE s = row /\ x \in subnets
    BY <1>1, <2>2
  <2>3. CASE x = row /\ s \in subnets
    BY <1>1, <2>3
  <2> QED
    BY <1>2, <2>1, <2>2, <2>3
<1> QED
  BY <1>2, <1>3, <1>4, <1>5, <1>6 DEF SubnetRowsOK, SubnetsDisjoint

\* The row it adds is routed when its system route was written, and the other
\* subnets keep theirs.
LEMMA AddSubnetRoute ==
  ASSUME RoutesOK, NEW row, subnets' = subnets \cup {row}, NEW first, NEW c,
         \A x, y : SystemRoute(x, y) \in routes => SystemRoute(x, y) \in first,
         UniqueKeys(first), row.cidr = c,
         routes' = PutRoute(first, <<row.vpc, 0>>, c, "system")
  PROVE  RoutesOK'
<1>1. UniqueKeys(routes')
  BY PutRouteKeys
<1>2. ASSUME NEW s \in subnets'
      PROVE  SystemRoute(<<s.vpc, 0>>, s.cidr) \in routes'
  <2>1. CASE s = row
    BY <2>1, PutRouteKeeps
  <2>2. CASE s \in subnets
    <3>1. SystemRoute(<<s.vpc, 0>>, s.cidr) \in first
      BY <2>2, RoutedBySystem DEF RoutesOK
    <3> QED
      BY <3>1, PutRouteKeeps
  <2> QED
    BY <2>1, <2>2
<1> QED
  BY <1>1, <1>2, RoutedBySystem DEF RoutesOK

LEMMA CreateSubnetStep ==
  ASSUME NetworkOK, NEW name \in SubnetNames, NEW vpcName \in VpcNames, NEW env,
         NEW asked \in SubnetCidrs \cup {None},
         CreateSubnet(name, vpcName, env, asked)
  PROVE  NetworkOK'
<1> USE DEF NetworkOK
<1>1. PICK v \in VpcFor(vpcName) :
        /\ lastSubnet < MaxSubnets
        /\ lastSubnet' = lastSubnet + 1
        /\ \E c \in SubnetCidr(v.cidr, CidrsIn(v.id), asked) :
            /\ subnets' = subnets \cup {[id |-> lastSubnet + 1, name |-> name,
                                         vpc |-> v.id, env |-> env, cidr |-> c]}
            /\ routes' = IF tableIndex[<<v.id, "default">>] = None THEN routes
                         ELSE PutRoute(routes, tableIndex[<<v.id, "default">>], c, "system")
  BY DEF CreateSubnet
<1>2. PICK c \in SubnetCidr(v.cidr, CidrsIn(v.id), asked) :
            /\ subnets' = subnets \cup {[id |-> lastSubnet + 1, name |-> name,
                                         vpc |-> v.id, env |-> env, cidr |-> c]}
            /\ routes' = IF tableIndex[<<v.id, "default">>] = None THEN routes
                         ELSE PutRoute(routes, tableIndex[<<v.id, "default">>], c, "system")
  BY <1>1
<1>3. UNCHANGED <<vpcs, vni, groups, tables, tableIndex, assoc, nics, made>>
  BY DEF CreateSubnet, tenancyVars, vpcVars, groupVars
<1>4. v \in vpcs /\ v.id \in 1 .. vni
  BY DEF VpcFor, VpcRowsOK
<1>5. c # {} /\ c \subseteq v.cidr /\ \A t \in CidrsIn(v.id) : t \cap c = {}
  BY SubnetCidrFits
<1>6. \A s \in subnets : s.vpc = v.id => s.cidr \cap c = {}
  BY <1>5 DEF CidrsIn
<1>7. \A w \in vpcs : w.id = v.id => c \subseteq w.cidr
  BY <1>4, <1>5 DEF VpcRowsOK
<1>8. vni \in Nat /\ vni <= vni /\ made \in Nat
  BY DEF VpcRowsOK, TableRowsOK
<1>9. SubnetRowsOK'
  BY <1>1, <1>2, <1>3, <1>4, <1>5, <1>6, <1>7, <1>8, AddSubnetRow
<1>10. RoutesOK'
  <2> DEFINE row == [id |-> lastSubnet + 1, name |-> name, vpc |-> v.id,
                     env |-> env, cidr |-> c]
  <2>1. row.vpc = v.id /\ row.cidr = c
    OBVIOUS
  <2>2. tableIndex[<<v.id, "default">>] = <<v.id, 0>>
    BY <1>4 DEF TableRowsOK
  <2>3. <<v.id, 0>> # None
    <3>1. <<v.id, 0>> \in Nat \X Nat
      BY <1>4, <1>8
    <3> QED
      BY <3>1, NetworkAssumption
  <2>4. routes' = PutRoute(routes, <<v.id, 0>>, c, "system")
    BY <1>2, <2>2, <2>3
  <2>5. subnets' = subnets \cup {row} /\ UniqueKeys(routes)
    BY <1>2 DEF RoutesOK
  <2> HIDE DEF row
  <2> QED
    BY <2>1, <2>4, <2>5, AddSubnetRoute
<1>11. AssocOK'
  BY <1>2, <1>3, AssocStill
<1> QED
  BY <1>3, <1>8, <1>9, <1>10, <1>11, VpcsStill, TablesStill, GroupsStill, NicsStill

LEMMA CreateSubnetAndVpcStep ==
  ASSUME NetworkOK, NEW name \in SubnetNames, NEW vpcName \in VpcNames, NEW env,
         NEW asked \in SubnetCidrs \cup {None},
         CreateSubnetAndVpc(name, vpcName, env, asked)
  PROVE  NetworkOK'
<1> USE DEF NetworkOK
<1> DEFINE owner == ProjectOwner(DefaultOwner[vpcName][1], DefaultOwner[vpcName][2])
           v == vni + 1
           first == PutRoute(routes, <<v, 0>>, DefaultCidr, "system")
           cidrs == IF EnvExists(env) THEN SubnetCidr(DefaultCidr, {}, asked) ELSE {}
<1>1. AddVpc(vpcName, DefaultCidr, owner, FALSE) /\ AddDefaults(v, DefaultCidr)
  BY DEF CreateSubnetAndVpc
<1>2. UNCHANGED <<nics, assoc>>
  BY <1>1 DEF CreateSubnetAndVpc, AddDefaults
<1>3. IF cidrs = {}
      THEN routes' = first /\ UNCHANGED subnetVars
      ELSE /\ lastSubnet < MaxSubnets
           /\ lastSubnet' = lastSubnet + 1
           /\ \E c \in cidrs :
                 /\ subnets' = subnets \cup {[id |-> lastSubnet + 1, name |-> name,
                                              vpc |-> v, env |-> env, cidr |-> c]}
                 /\ routes' = PutRoute(first, <<v, 0>>, c, "system")
  BY DEF CreateSubnetAndVpc
<1>4. /\ VpcRowsOK' /\ TableRowsOK' /\ GroupRowsOK'
      /\ vni' = vni + 1 /\ vni' \in Nat /\ vni <= vni' /\ tables \subseteq tables'
      /\ \A w \in vpcs' : w \in vpcs \/ w.id = vni + 1
      /\ \A w \in vpcs' : w.id = vni + 1 => w.cidr = DefaultCidr
  BY <1>1, NewVpcStep
<1>5. UniqueKeys(first) /\ \A x, y : SystemRoute(x, y) \in routes => SystemRoute(x, y) \in first
  BY PutRouteKeys, PutRouteKeeps DEF RoutesOK
<1>6. CASE cidrs = {}
  <2>1. routes' = first /\ UNCHANGED <<subnets, lastSubnet>>
    BY <1>3, <1>6 DEF subnetVars
  <2>2. SubnetRowsOK'
    BY <1>4, <2>1, SubnetsStill
  <2>3. RoutesOK'
    <3> HIDE DEF first
    <3> QED
      BY <1>5, <2>1, RoutedBySystem DEF RoutesOK
  <2> QED
    BY <1>2, <1>4, <2>1, <2>2, <2>3, AssocStill, NicsStill
<1>7. CASE cidrs # {}
  <2> HIDE DEF first
  <2>1. PICK c \in cidrs :
          /\ subnets' = subnets \cup {[id |-> lastSubnet + 1, name |-> name,
                                       vpc |-> v, env |-> env, cidr |-> c]}
          /\ routes' = PutRoute(first, <<v, 0>>, c, "system")
    BY <1>3, <1>7
  <2>2. lastSubnet < MaxSubnets /\ lastSubnet' = lastSubnet + 1
    BY <1>3, <1>7
  <2>3. c \in SubnetCidr(DefaultCidr, {}, asked)
    OBVIOUS
  <2>4. c # {} /\ c \subseteq DefaultCidr
    BY <2>3, SubnetCidrFits
  <2>5. vni \in Nat /\ v \in 1 .. vni'
    BY <1>4 DEF VpcRowsOK
  <2>6. \A s \in subnets : s.vpc = v => s.cidr \cap c = {}
    BY <2>5 DEF SubnetRowsOK
  <2>7. \A w \in vpcs' : w.id = v => c \subseteq w.cidr
    BY <1>4, <2>4
  <2>8. SubnetRowsOK'
    BY <1>4, <2>1, <2>2, <2>4, <2>5, <2>6, <2>7, AddSubnetRow
  <2>9. RoutesOK'
    <3> DEFINE row == [id |-> lastSubnet + 1, name |-> name, vpc |-> v,
                       env |-> env, cidr |-> c]
    <3>1. row.vpc = v /\ row.cidr = c /\ subnets' = subnets \cup {row}
      BY <2>1
    <3> HIDE DEF row
    <3> QED
      BY <1>5, <2>1, <3>1, AddSubnetRoute
  <2> QED
    BY <1>2, <1>4, <2>1, <2>8, <2>9, AssocStill, NicsStill
<1> QED
  BY <1>6, <1>7

LEMMA DeleteSubnetStep ==
  ASSUME NetworkOK, NEW name \in SubnetNames, NEW vpcName \in VpcNames,
         DeleteSubnet(name, vpcName)
  PROVE  NetworkOK'
<1> USE DEF NetworkOK
<1>1. PICK s \in subnets :
        /\ routes' = DropRoute(routes, tableIndex[<<s.vpc, "default">>], s.cidr)
        /\ assoc' = [assoc EXCEPT ![s.id] = None]
        /\ subnets' = subnets \ {s}
  BY DEF DeleteSubnet, Row
<1>2. UNCHANGED <<vpcs, vni, lastSubnet, groups, tables, tableIndex, nics, made>>
  BY DEF DeleteSubnet, tenancyVars, vpcVars, groupVars
<1>3. s.vpc \in 1 .. vni /\ tableIndex[<<s.vpc, "default">>] = <<s.vpc, 0>>
  BY DEF SubnetRowsOK, TableRowsOK
<1>4. SubnetRowsOK'
  BY <1>1, <1>2, SubnetsStill DEF VpcRowsOK
<1>5. RoutesOK'
  <2>1. UniqueKeys(routes')
    BY <1>1 DEF RoutesOK, UniqueKeys, DropRoute
  <2>2. ASSUME NEW x \in subnets'
        PROVE  SystemRoute(<<x.vpc, 0>>, x.cidr) \in routes'
    <3>1. x \in subnets /\ x # s
      BY <1>1
    <3>2. SystemRoute(<<x.vpc, 0>>, x.cidr) \in routes
      BY <3>1, RoutedBySystem DEF RoutesOK
    <3>3. ~(x.vpc = s.vpc /\ x.cidr = s.cidr)
      BY <3>1 DEF SubnetRowsOK, SubnetsDisjoint
    <3>4. /\ SystemRoute(<<x.vpc, 0>>, x.cidr).table = <<x.vpc, 0>>
          /\ SystemRoute(<<x.vpc, 0>>, x.cidr).dest = x.cidr
      BY DEF SystemRoute
    <3>5. <<x.vpc, 0>> = <<s.vpc, 0>> => x.vpc = s.vpc
      OBVIOUS
    <3> QED
      BY <1>1, <1>3, <3>2, <3>3, <3>4, <3>5 DEF DropRoute
  <2> QED
    BY <2>1, <2>2, RoutedBySystem DEF RoutesOK
<1>6. AssocOK'
  <2>1. assoc' \in [SubnetIds -> (Nat \X Nat) \cup {None}]
    BY <1>1 DEF AssocOK
  <2>2. ASSUME NEW i \in SubnetIds, assoc'[i] # None
        PROVE  \E x \in subnets', t \in tables' : x.id = i /\ t.id = assoc'[i] /\ t.vpc = x.vpc
    <3>1. i # s.id /\ assoc'[i] = assoc[i]
      BY <1>1, <2>2 DEF AssocOK
    <3>2. PICK x \in subnets, t \in tables : x.id = i /\ t.id = assoc[i] /\ t.vpc = x.vpc
      BY <2>2, <3>1 DEF AssocOK, AssociationsResolve
    <3>3. x \in subnets' /\ t \in tables'
      BY <1>1, <1>2, <3>1, <3>2
    <3> QED
      BY <3>1, <3>2, <3>3
  <2> QED
    BY <2>1, <2>2 DEF AssocOK, AssociationsResolve
<1>7. made' \in Nat
  BY <1>2 DEF TableRowsOK
<1> QED
  BY <1>2, <1>4, <1>5, <1>6, <1>7, VpcsStill, TablesStill, GroupsStill, NicsStill

-----------------------------------------------------------------------------
(* Groups and interfaces.                                                    *)

LEMMA GroupStep ==
  ASSUME NetworkOK,
         \/ \E g \in GroupNames : DeleteSg(g) \/ \E v \in VpcNames : CreateSg(g, v)
         \/ \E g \in GroupNames \cup {"default"}, b \in RuleBodies : AddSgRule(g, b)
         \/ \E r \in rules : RemoveSgRule(r)
  PROVE  NetworkOK'
<1> USE DEF NetworkOK
<1>1. /\ UNCHANGED <<vpcs, vni, subnets, lastSubnet, tables, tableIndex, routes, assoc, nics>>
      /\ made' \in Nat
  <2>1. made \in Nat /\ made + 1 \in Nat
    BY DEF TableRowsOK
  <2>2. made' = made \/ made' = made + 1
    BY Zenon DEF DeleteSg, CreateSg, AddSgRule, RemoveSgRule, Make
  <2>3. UNCHANGED <<tenancyVars, subnetVars, tableVars, nics>>
    BY Zenon DEF DeleteSg, CreateSg, AddSgRule, RemoveSgRule
  <2> QED
    BY <2>1, <2>2, <2>3 DEF tenancyVars, vpcVars, subnetVars, tableVars
<1>2. GroupRowsOK'
  <2>1. ASSUME NEW name \in GroupNames, NEW vpcName \in VpcNames, CreateSg(name, vpcName)
        PROVE  GroupRowsOK'
    <3>1. PICK v \in VpcFor(vpcName) :
            groups' = groups \cup {[id |-> <<v.id, made + 1>>, name |-> name, vpc |-> v.id]}
      BY <2>1 DEF CreateSg
    <3>2. v.id \in Nat /\ made + 1 \in Nat
      BY DEF VpcFor, VpcRowsOK, TableRowsOK
    <3> QED
      BY <3>1, <3>2 DEF GroupRowsOK
  <2>2. ASSUME groups' \subseteq groups
        PROVE  GroupRowsOK'
    BY <2>2 DEF GroupRowsOK
  <2> QED
    BY <2>1, <2>2 DEF DeleteSg, AddSgRule, RemoveSgRule
<1>3. SubnetRowsOK'
  BY <1>1, SubnetsStill DEF VpcRowsOK
<1> QED
  BY <1>1, <1>2, <1>3, VpcsStill, TablesStill, RoutesStill, AssocStill, NicsStill

LEMMA NicStep ==
  ASSUME NetworkOK,
         \/ \E vm \in VMs, s \in SubnetIds : CreateNic(vm, s)
         \/ \E n \in nics : DeleteNic(n) \/ \E k \in GroupKeys : AttachSg(k, n) \/ DetachSg(k, n)
  PROVE  NetworkOK'
<1> USE DEF NetworkOK
<1>1. /\ UNCHANGED <<vpcs, vni, subnets, lastSubnet, tables, tableIndex, routes, assoc, groups>>
      /\ made' \in Nat
  BY DEF CreateNic, DeleteNic, AttachSg, DetachSg, Make, TableRowsOK,
         tenancyVars, vpcVars, subnetVars, tableVars, groupVars
<1>2. ASSUME NEW vm \in VMs, NEW subnet \in SubnetIds, CreateNic(vm, subnet)
      PROVE  NicsOK'
  <2> DEFINE vpc == IF Row(subnets, subnet) = {} THEN None
                    ELSE (CHOOSE s \in Row(subnets, subnet) : TRUE).vpc
             n == [vm |-> vm, subnet |-> subnet, groups |-> {}, vpc |-> vpc]
  <2>1. vpc \in Nat \cup {None}
    <3>1. \A s \in Row(subnets, subnet) : s.vpc \in Nat
      BY DEF Row, SubnetRowsOK, VpcRowsOK
    <3> QED
      BY <3>1
  <2>2. nics' = nics \cup {n}
    BY <1>2 DEF CreateNic
  <2> HIDE DEF vpc
  <2>3. n \in NicRecord /\ n.groups = {}
    BY <2>1 DEF NicRecord
  <2> HIDE DEF n
  <2> QED
    BY <2>2, <2>3 DEF NicsOK, GroupsAreLocal
<1>3. ASSUME NEW n \in nics, DeleteNic(n)
      PROVE  NicsOK'
  BY <1>3 DEF DeleteNic, NicsOK, GroupsAreLocal
<1>4. ASSUME NEW n \in nics, NEW G \in SUBSET (Nat \X Nat), \A g \in G : g[1] = n.vpc,
             nics' = (nics \ {n}) \cup {[n EXCEPT !.groups = G]}
      PROVE  NicsOK'
  <2> DEFINE c == [n EXCEPT !.groups = G]
  <2>1. n \in NicRecord
    BY DEF NicsOK
  <2>2. c \in NicRecord /\ c.groups = G /\ c.vpc = n.vpc
    BY <2>1 DEF NicRecord
  <2>3. nics' = (nics \ {n}) \cup {c}
    BY <1>4
  <2> HIDE DEF c
  <2> QED
    BY <1>4, <2>2, <2>3 DEF NicsOK, GroupsAreLocal
<1>5. ASSUME NEW n \in nics, NEW k \in GroupKeys, AttachSg(k, n)
      PROVE  NicsOK'
  <2>1. PICK g \in groups : /\ g.vpc = n.vpc
                            /\ nics' = (nics \ {n}) \cup {[n EXCEPT !.groups = @ \cup {g.id}]}
    BY <1>5 DEF AttachSg, Row
  <2>2. n \in NicRecord /\ n.groups \in SUBSET (Nat \X Nat)
    BY DEF NicsOK, NicRecord
  <2>3. /\ n.groups \cup {g.id} \in SUBSET (Nat \X Nat)
        /\ \A x \in n.groups \cup {g.id} : x[1] = n.vpc
    BY <2>1, <2>2 DEF GroupRowsOK, NicsOK, GroupsAreLocal
  <2>4. nics' = (nics \ {n}) \cup {[n EXCEPT !.groups = n.groups \cup {g.id}]}
    BY <2>1
  <2> QED
    BY <1>4, <2>3, <2>4
<1>6. ASSUME NEW n \in nics, NEW k \in GroupKeys, DetachSg(k, n)
      PROVE  NicsOK'
  <2>1. PICK g \in groups : nics' = (nics \ {n}) \cup {[n EXCEPT !.groups = @ \ {g.id}]}
    BY <1>6 DEF DetachSg, Row
  <2>2. n \in NicRecord /\ n.groups \in SUBSET (Nat \X Nat)
    BY DEF NicsOK, NicRecord
  <2>3. /\ n.groups \ {g.id} \in SUBSET (Nat \X Nat)
        /\ \A x \in n.groups \ {g.id} : x[1] = n.vpc
    BY <2>2 DEF NicsOK, GroupsAreLocal
  <2>4. nics' = (nics \ {n}) \cup {[n EXCEPT !.groups = n.groups \ {g.id}]}
    BY <2>1
  <2> QED
    BY <1>4, <2>3, <2>4
<1>7. NicsOK'
  BY <1>2, <1>3, <1>5, <1>6
<1>8. SubnetRowsOK'
  BY <1>1, SubnetsStill DEF VpcRowsOK
<1> QED
  BY <1>1, <1>7, <1>8, VpcsStill, TablesStill, RoutesStill, AssocStill, GroupsStill

-----------------------------------------------------------------------------
(* Tables, routes and associations.                                          *)

LEMMA CreateRouteTableStep ==
  ASSUME NetworkOK, NEW name \in TableNames, NEW vpcName \in VpcNames,
         CreateRouteTable(name, vpcName)
  PROVE  NetworkOK'
<1> USE DEF NetworkOK
<1>1. UNCHANGED <<vpcs, vni, subnets, lastSubnet, routes, assoc, groups, nics>>
  BY DEF CreateRouteTable, tenancyVars, vpcVars, subnetVars, groupVars
<1>2. PICK v \in VpcFor(vpcName) :
        /\ tables' = tables \cup {[id |-> <<v.id, made + 1>>, name |-> name, vpc |-> v.id]}
        /\ tableIndex' = [tableIndex EXCEPT ![<<v.id, name>>] = <<v.id, made + 1>>]
        /\ made' = made + 1
  BY DEF CreateRouteTable, Make
<1> DEFINE id == <<v.id, made + 1>>
           key == <<v.id, name>>
           row == [id |-> id, name |-> name, vpc |-> v.id]
<1>3. v.id \in 1 .. vni /\ v.id \in Nat /\ made + 1 \in Nat /\ vni \in Nat
  BY DEF VpcFor, VpcRowsOK, TableRowsOK
<1>4. row.id = id /\ row.vpc = v.id /\ id \in Nat \X Nat /\ id[1] = v.id
  BY <1>3
<1>5. key[1] = v.id /\ \A x : <<x, "default">> # key
  BY NetworkAssumption
<1> HIDE DEF row
<1>6. TableRowsOK'
  <2>1. tableIndex' \in [TableKeys -> (Nat \X Nat) \cup {None}]
    BY <1>2, <1>4 DEF TableRowsOK
  <2>2. \A k \in TableKeys : tableIndex'[k] = IF k = key THEN id ELSE tableIndex[k]
    BY <1>2 DEF TableRowsOK
  <2>3. \A k \in TableKeys : tableIndex'[k] # None => tableIndex'[k][1] = k[1]
    BY <1>4, <1>5, <2>2 DEF TableRowsOK
  <2>4. ASSUME NEW x \in 1 .. vni
        PROVE  tableIndex'[<<x, "default">>] = <<x, 0>>
    <3>1. <<x, "default">> \in TableKeys
      BY <1>3, TenancyAssumption DEF TableKeys, VpcIds, VpcRowsOK
    <3>2. tableIndex[<<x, "default">>] = <<x, 0>>
      BY DEF TableRowsOK
    <3>3. <<x, "default">> # key
      BY <1>5
    <3> HIDE DEF key
    <3> QED
      BY <2>2, <3>1, <3>2, <3>3
  <2>5. \A t \in tables' : t.id \in Nat \X Nat /\ t.id[1] = t.vpc /\ t.vpc \in 1 .. vni
    BY <1>2, <1>3, <1>4 DEF TableRowsOK
  <2> QED
    BY <1>1, <1>2, <1>3, <2>1, <2>3, <2>4, <2>5 DEF TableRowsOK
<1>7. SubnetRowsOK'
  BY <1>1, SubnetsStill DEF VpcRowsOK
<1> QED
  BY <1>1, <1>2, <1>6, <1>7, VpcsStill, RoutesStill, AssocStill, GroupsStill, NicsStill

LEMMA DropTableStep ==
  ASSUME NetworkOK, NEW v \in 1 .. vni, NEW name \in TableNames \cup {"default"},
         DropTable(v, name)
  PROVE  NetworkOK'
<1> USE DEF NetworkOK
<1>1. UNCHANGED <<vpcs, vni, subnets, lastSubnet, assoc, groups, nics, made>>
  BY DEF DropTable, tenancyVars, vpcVars, subnetVars, groupVars
<1>2. PICK t \in tables :
        /\ t.id = tableIndex[<<v, name>>] /\ t.id[2] # 0
        /\ \A s \in SubnetIds : assoc[s] # t.id
        /\ routes' = {r \in routes : r.table # t.id}
        /\ tableIndex' = [tableIndex EXCEPT ![<<v, name>>] = None]
        /\ tables' = tables \ {t}
  BY DEF DropTable, Row
<1> DEFINE key == <<v, name>>
<1>3. name # "default"
  BY <1>2 DEF TableRowsOK
<1>4. \A x : <<x, "default">> # key
  BY <1>3
<1>5. TableRowsOK'
  <2>1. tableIndex' \in [TableKeys -> (Nat \X Nat) \cup {None}]
    BY <1>2 DEF TableRowsOK
  <2>2. \A k \in TableKeys : tableIndex'[k] = IF k = key THEN None ELSE tableIndex[k]
    BY <1>2 DEF TableRowsOK
  <2>3. \A k \in TableKeys : tableIndex'[k] # None => tableIndex'[k][1] = k[1]
    BY <2>2 DEF TableRowsOK
  <2>4. ASSUME NEW x \in 1 .. vni
        PROVE  tableIndex'[<<x, "default">>] = <<x, 0>>
    <3>1. <<x, "default">> \in TableKeys
      BY TenancyAssumption DEF TableKeys, VpcIds, VpcRowsOK
    <3>2. tableIndex[<<x, "default">>] = <<x, 0>>
      BY DEF TableRowsOK
    <3>3. <<x, "default">> # key
      BY <1>4
    <3> HIDE DEF key
    <3> QED
      BY <2>2, <3>1, <3>2, <3>3
  <2>5. \A x \in tables' : x.id \in Nat \X Nat /\ x.id[1] = x.vpc /\ x.vpc \in 1 .. vni
    BY <1>2 DEF TableRowsOK
  <2> QED
    BY <1>1, <2>1, <2>3, <2>4, <2>5 DEF TableRowsOK
<1>6. RoutesOK'
  <2>1. UniqueKeys(routes')
    BY <1>2 DEF RoutesOK, UniqueKeys
  <2>2. ASSUME NEW s \in subnets
        PROVE  SystemRoute(<<s.vpc, 0>>, s.cidr) \in routes'
    <3>1. SystemRoute(<<s.vpc, 0>>, s.cidr) \in routes
      BY RoutedBySystem DEF RoutesOK
    <3>2. SystemRoute(<<s.vpc, 0>>, s.cidr).table = <<s.vpc, 0>>
      BY DEF SystemRoute
    <3>3. <<s.vpc, 0>> # t.id
      BY <1>2
    <3> QED
      BY <1>2, <3>1, <3>2, <3>3
  <2> QED
    BY <1>1, <2>1, <2>2, RoutedBySystem DEF RoutesOK
<1>7. AssocOK'
  <2>1. ASSUME NEW i \in SubnetIds, assoc'[i] # None
        PROVE  \E s \in subnets', x \in tables' : s.id = i /\ x.id = assoc'[i] /\ x.vpc = s.vpc
    <3>1. PICK s \in subnets, x \in tables : s.id = i /\ x.id = assoc[i] /\ x.vpc = s.vpc
      BY <1>1, <2>1 DEF AssocOK, AssociationsResolve
    <3>2. x \in tables'
      BY <1>2, <3>1
    <3> QED
      BY <1>1, <3>1, <3>2
  <2> QED
    BY <1>1, <2>1 DEF AssocOK, AssociationsResolve
<1>8. SubnetRowsOK'
  BY <1>1, SubnetsStill DEF VpcRowsOK
<1> QED
  BY <1>1, <1>5, <1>6, <1>7, <1>8, VpcsStill, GroupsStill, NicsStill

LEMMA DeleteRouteTableStep ==
  ASSUME NetworkOK, NEW name \in TableNames \cup {"default"},
         NEW vpcName \in VpcNames \cup {None}, DeleteRouteTable(name, vpcName)
  PROVE  NetworkOK'
<1>1. CASE vpcName = None
  <2>1. PICK t \in tables : DropTable(t.vpc, name)
    BY <1>1 DEF DeleteRouteTable
  <2>2. t.vpc \in 1 .. vni
    BY DEF NetworkOK, TableRowsOK
  <2> QED
    BY <2>1, <2>2, DropTableStep
<1>2. CASE vpcName # None
  <2>1. PICK v \in VpcFor(vpcName) : DropTable(v.id, name)
    BY <1>2 DEF DeleteRouteTable
  <2>2. v.id \in 1 .. vni
    BY DEF NetworkOK, VpcRowsOK, VpcFor
  <2> QED
    BY <2>1, <2>2, DropTableStep
<1> QED
  BY <1>1, <1>2

LEMMA AssociationStep ==
  ASSUME NetworkOK, NEW subnetName \in SubnetNames,
         \/ \E t \in TableNames \cup {"default"} : AssociateRouteTable(t, subnetName)
         \/ DisassociateRouteTable(subnetName)
  PROVE  NetworkOK'
<1> USE DEF NetworkOK
<1>1. UNCHANGED <<vpcs, vni, subnets, lastSubnet, tables, tableIndex, routes, groups, nics, made>>
  BY DEF AssociateRouteTable, DisassociateRouteTable, tenancyVars, vpcVars,
         subnetVars, groupVars
<1>2. ASSUME NEW s \in subnets, NEW id \in (Nat \X Nat) \cup {None},
             assoc' = [assoc EXCEPT ![s.id] = id],
             id # None => \E t \in tables : t.id = id /\ t.vpc = s.vpc
      PROVE  AssocOK'
  <2>1. assoc' \in [SubnetIds -> (Nat \X Nat) \cup {None}]
    BY <1>2 DEF AssocOK
  <2>2. ASSUME NEW i \in SubnetIds, assoc'[i] # None
        PROVE  \E x \in subnets', t \in tables' : x.id = i /\ t.id = assoc'[i] /\ t.vpc = x.vpc
    <3>1. CASE i = s.id
      <4>1. assoc'[i] = id
        BY <1>2, <3>1 DEF AssocOK
      <4> QED
        BY <1>1, <1>2, <2>2, <3>1, <4>1
    <3>2. CASE i # s.id
      <4>1. assoc'[i] = assoc[i]
        BY <1>2, <3>2 DEF AssocOK
      <4>2. PICK x \in subnets, t \in tables : x.id = i /\ t.id = assoc[i] /\ t.vpc = x.vpc
        BY <2>2, <4>1 DEF AssocOK, AssociationsResolve
      <4> QED
        BY <1>1, <4>1, <4>2
    <3> QED
      BY <3>1, <3>2
  <2> QED
    BY <2>1, <2>2 DEF AssocOK, AssociationsResolve
<1>3. ASSUME NEW name \in TableNames \cup {"default"}, AssociateRouteTable(name, subnetName)
      PROVE  AssocOK'
  <2>1. PICK s \in subnets, t \in tables :
          /\ t.id = tableIndex[<<s.vpc, name>>]
          /\ assoc' = [assoc EXCEPT ![s.id] = t.id]
    BY <1>3 DEF AssociateRouteTable, Row
  <2>2. <<s.vpc, name>> \in TableKeys /\ <<s.vpc, name>>[1] = s.vpc
    BY TenancyAssumption DEF SubnetRowsOK, VpcRowsOK, TableKeys, VpcIds
  <2>3. t.id \in Nat \X Nat /\ t.id[1] = t.vpc
    BY DEF TableRowsOK
  <2>4. t.id # None
    BY <2>3, NetworkAssumption
  <2>5. t.vpc = s.vpc
    BY <2>1, <2>2, <2>3, <2>4 DEF TableRowsOK
  <2> QED
    BY <1>2, <2>1, <2>3, <2>5
<1>4. ASSUME DisassociateRouteTable(subnetName)
      PROVE  AssocOK'
  <2>1. PICK s \in subnets : assoc' = [assoc EXCEPT ![s.id] = None]
    BY <1>4 DEF DisassociateRouteTable
  <2> QED
    BY <1>2, <2>1
<1>5. SubnetRowsOK' /\ made' \in Nat
  BY <1>1, SubnetsStill DEF VpcRowsOK, TableRowsOK
<1> QED
  BY <1>1, <1>3, <1>4, <1>5, VpcsStill, TablesStill, RoutesStill, GroupsStill, NicsStill

LEMMA RouteStep ==
  ASSUME NetworkOK, NEW name \in TableNames \cup {"default"}, NEW vpcName \in VpcNames,
         NEW dest \in Destinations,
         AddRoute(vpcName, name, dest) \/ DeleteRoute(vpcName, name, dest)
  PROVE  NetworkOK'
<1> USE DEF NetworkOK
<1>1. /\ UNCHANGED <<vpcs, vni, subnets, lastSubnet, tables, tableIndex, assoc, groups, nics>>
      /\ made' \in Nat
  <2>1. made \in Nat /\ made + 1 \in Nat
    BY DEF TableRowsOK
  <2>2. made' = made \/ made' = made + 1
    BY Zenon DEF AddRoute, DeleteRoute, Make
  <2>3. UNCHANGED <<tenancyVars, subnetVars, groupVars, tables, tableIndex, assoc, nics>>
    BY Zenon DEF AddRoute, DeleteRoute
  <2> QED
    BY <2>1, <2>2, <2>3 DEF tenancyVars, vpcVars, subnetVars, groupVars
<1>2. ASSUME NEW t \in tables, ~\E r \in routes : r.table = t.id /\ r.dest = dest,
             routes' = PutRoute(routes, t.id, dest, "user")
      PROVE  RoutesOK'
  <2>1. UniqueKeys(routes')
    BY <1>2, PutRouteKeys DEF RoutesOK
  <2>2. routes \subseteq routes'
    BY <1>2 DEF PutRoute
  <2> QED
    BY <1>1, <2>1, <2>2, RoutedBySystem DEF RoutesOK
<1>3. ASSUME NEW t \in tables,
             [table |-> t.id, dest |-> dest, origin |-> "user"] \in routes,
             routes' = DropRoute(routes, t.id, dest)
      PROVE  RoutesOK'
  <2> DEFINE row == [table |-> t.id, dest |-> dest, origin |-> "user"]
  <2>1. UniqueKeys(routes')
    BY <1>3 DEF RoutesOK, UniqueKeys, DropRoute
  <2>2. ASSUME NEW s \in subnets
        PROVE  SystemRoute(<<s.vpc, 0>>, s.cidr) \in routes'
    <3> DEFINE sys == SystemRoute(<<s.vpc, 0>>, s.cidr)
    <3>1. sys \in routes
      BY RoutedBySystem DEF RoutesOK
    <3>2. sys.origin = "system" /\ row.origin = "user" /\ row.table = t.id /\ row.dest = dest
      BY DEF SystemRoute
    <3>3. row \in routes
      BY <1>3
    <3> HIDE DEF sys, row
    <3>4. ~(sys.table = t.id /\ sys.dest = dest)
      BY <3>1, <3>2, <3>3 DEF RoutesOK, UniqueKeys
    <3>5. sys \in routes'
      BY <1>3, <3>1, <3>4 DEF DropRoute
    <3> QED
      BY <3>5 DEF sys
  <2> QED
    BY <1>1, <2>1, <2>2, RoutedBySystem DEF RoutesOK
<1>4. RoutesOK'
  <2>1. CASE AddRoute(vpcName, name, dest)
    <3>1. PICK t \in tables : /\ ~\E r \in routes : r.table = t.id /\ r.dest = dest
                              /\ routes' = PutRoute(routes, t.id, dest, "user")
      BY <2>1 DEF AddRoute, Row
    <3> QED
      BY <1>2, <3>1
  <2>2. CASE DeleteRoute(vpcName, name, dest)
    <3>1. PICK t \in tables :
            /\ [table |-> t.id, dest |-> dest, origin |-> "user"] \in routes
            /\ routes' = DropRoute(routes, t.id, dest)
      BY <2>2 DEF DeleteRoute, Row
    <3> QED
      BY <1>3, <3>1
  <2> QED
    BY <2>1, <2>2
<1>5. SubnetRowsOK'
  BY <1>1, SubnetsStill DEF VpcRowsOK
<1> QED
  BY <1>1, <1>4, <1>5, VpcsStill, TablesStill, AssocStill, GroupsStill, NicsStill

LEMMA GatewayStep ==
  ASSUME NetworkOK,
         \E g \in GatewayNames :
            \/ DeleteNatGw(g)
            \/ \E v \in VpcNames, s \in SubnetNames : CreateNatGw(g, v, s)
  PROVE  NetworkOK'
<1> USE DEF NetworkOK
<1>1. /\ UNCHANGED <<vpcs, vni, subnets, lastSubnet, tables, tableIndex, routes,
                     assoc, groups, nics>>
      /\ made' \in Nat
  <2>1. made \in Nat /\ made + 1 \in Nat
    BY DEF TableRowsOK
  <2>2. made' = made \/ made' = made + 1
    BY Zenon DEF DeleteNatGw, CreateNatGw, Make
  <2>3. UNCHANGED <<tenancyVars, subnetVars, groupVars, tableVars, nics>>
    BY Zenon DEF DeleteNatGw, CreateNatGw
  <2> QED
    BY <2>1, <2>2, <2>3 DEF tenancyVars, vpcVars, subnetVars, groupVars, tableVars
<1>2. SubnetRowsOK'
  BY <1>1, SubnetsStill DEF VpcRowsOK
<1> QED
  BY <1>1, <1>2, VpcsStill, TablesStill, RoutesStill, AssocStill, GroupsStill, NicsStill

-----------------------------------------------------------------------------
(* The invariant and what follows from it.                                   *)

LEMMA NetworkStep ==
  ASSUME NetworkOK, NetworkNext
  PROVE  NetworkOK'
<1>1. ASSUME NEW n \in VpcNames, DeleteNetwork(n)
      PROVE  NetworkOK'
  <2>1. UNCHANGED netVars /\ vpcs' \subseteq vpcs /\ vni' = vni
    BY <1>1 DEF DeleteNetwork, DeleteVpc
  <2> QED
    BY <2>1, NetworkStill
<1>2. ASSUME NEW k \in EnvKeys, DeleteEnv(k), UNCHANGED netVars
      PROVE  NetworkOK'
  <2>1. vpcs' \subseteq vpcs /\ vni' = vni
    BY <1>2 DEF DeleteEnv, RemoveEnv, vpcVars
  <2> QED
    BY <1>2, <2>1, NetworkStill
<1>3. CASE \E n \in SubnetNames, v \in VpcNames, i \in 1 .. MaxEnvs :
        \/ \E c \in SubnetCidrs \cup {None} :
            \/ CreateSubnet(n, v, Generated(i), c)
            \/ CreateSubnetAndVpc(n, v, Generated(i), c)
        \/ DeleteSubnet(n, v)
  BY <1>3, CreateSubnetStep, CreateSubnetAndVpcStep, DeleteSubnetStep
<1>4. CASE \E n \in VpcNames, c \in VpcCidrs, w \in Owners : CreateNetwork(n, c, w)
  BY <1>4, CreateNetworkStep
<1>5. CASE \E t \in TableNames \cup {"default"}, v \in VpcNames \cup {None} :
             DeleteRouteTable(t, v)
  BY <1>5, DeleteRouteTableStep
<1>6. CASE \E t \in TableNames, v \in VpcNames : CreateRouteTable(t, v)
  BY <1>6, CreateRouteTableStep
<1>7. CASE \E t \in TableNames \cup {"default"} :
        \/ \E s \in SubnetNames : AssociateRouteTable(t, s)
        \/ \E v \in VpcNames, d \in Destinations : AddRoute(v, t, d) \/ DeleteRoute(v, t, d)
  BY <1>7, AssociationStep, RouteStep
<1>8. CASE \E s \in SubnetNames : DisassociateRouteTable(s)
  BY <1>8, AssociationStep
<1> QED
  BY <1>1, <1>2, <1>3, <1>4, <1>5, <1>6, <1>7, <1>8, GroupStep, NicStep,
     GatewayStep DEF NetworkNext

LEMMA NetworkInvariant == NetworkSpec => []NetworkOK
<1>1. NetworkInit => NetworkOK
  <2> SUFFICES ASSUME NetworkInit
               PROVE  NetworkOK
    OBVIOUS
  <2>1. /\ vpcs = {} /\ vni = 0 /\ subnets = {} /\ lastSubnet = 0 /\ made = 0
        /\ tables = {} /\ tableIndex = [k \in TableKeys |-> None] /\ routes = {}
        /\ assoc = [s \in SubnetIds |-> None] /\ groups = {} /\ nics = {}
    BY DEF NetworkInit
  <2>2. VpcRowsOK /\ SubnetRowsOK
    BY <2>1, TenancyAssumption, NetworkAssumption DEF VpcRowsOK, SubnetRowsOK, SubnetsDisjoint
  <2>3. TableRowsOK
    BY <2>1 DEF TableRowsOK
  <2>4. RoutesOK /\ AssocOK /\ GroupRowsOK /\ NicsOK
    BY <2>1 DEF RoutesOK, UniqueKeys, SubnetsRouted, AssocOK, AssociationsResolve,
                GroupRowsOK, NicsOK, GroupsAreLocal
  <2> QED
    BY <2>2, <2>3, <2>4 DEF NetworkOK
<1>2. NetworkOK /\ [NetworkNext]_networkVars => NetworkOK'
  <2> SUFFICES ASSUME NetworkOK, [NetworkNext]_networkVars
               PROVE  NetworkOK'
    OBVIOUS
  <2>1. CASE UNCHANGED networkVars
    BY <2>1, NetworkStill DEF networkVars, tenancyVars, vpcVars
  <2> QED
    BY <2>1, NetworkStep
<1> QED
  BY <1>1, <1>2, PTL DEF NetworkSpec

\* create_subnet compares with the subnets it finds; whatever was deleted and
\* made in between, subnets lie inside their VPC and apart from each other.
THEOREM SubnetsApart == NetworkSpec => []SubnetsDisjoint
<1>1. NetworkOK => SubnetsDisjoint
  BY DEF NetworkOK, SubnetRowsOK
<1> QED
  BY <1>1, NetworkInvariant, PTL

\* No command on another subnet, on a table or on a user's routes removes the
\* system route that create_subnet wrote.
THEOREM SubnetsKeepRoutes == NetworkSpec => []SubnetsRouted
<1>1. NetworkOK => SubnetsRouted
  BY DEF NetworkOK, RoutesOK
<1> QED
  BY <1>1, NetworkInvariant, PTL

\* An association joins a subnet and a table that both exist in one VPC:
\* delete_subnet clears it and delete_route_table waits for it.
THEOREM AssociationsHold == NetworkSpec => []AssociationsResolve
<1>1. NetworkOK => AssociationsResolve
  BY DEF NetworkOK, AssocOK
<1> QED
  BY <1>1, NetworkInvariant, PTL

\* attach_sg_to_nic compares VPCs at that moment; the comparison stays true
\* because a group's id keeps the VPC it was made in.
THEOREM GroupsStayLocal == NetworkSpec => []GroupsAreLocal
<1>1. NetworkOK => GroupsAreLocal
  BY DEF NetworkOK, NicsOK
<1> QED
  BY <1>1, NetworkInvariant, PTL

=============================================================================
