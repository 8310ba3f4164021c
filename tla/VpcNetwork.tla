------------------------------ MODULE VpcNetwork ------------------------------
(* The lower half of the organisation store: what a VPC holds.  Subnets,     *)
(* security groups with their rules, network interfaces, route tables with   *)
(* their routes and associations, and NAT gateways, each kept under a        *)
(* generated id and an index <<VPC id, name>>.                               *)
EXTENDS Tenancy

CONSTANTS
    SubnetNames, SubnetCidrs,   \* names, and the CIDRs a subnet may ask for
    GroupNames, TableNames, GatewayNames,   \* without "default"
    RuleBodies,                 \* what a rule's id is a hash of, besides its group
    Destinations,               \* destinations of user routes
    VMs,
    DefaultOwner,               \* "{org}-{project}-default" -> <<org, project>>
    DefaultCidr,                \* 10.1.0.0/16
    MaxSubnets,                 \* bound: subnets ever created
    MaxMade                     \* bound: groups, rules, interfaces, tables, routes and
                                \* gateways ever created

ASSUME NetworkAssumption ==
    /\ MaxSubnets \in Nat /\ MaxMade \in Nat
    /\ DefaultCidr \in VpcCidrs
    /\ {} \notin SubnetCidrs
    /\ None \notin Nat \X Nat
    /\ "default" \notin GroupNames \cup TableNames

VARIABLES
    subnets, subnetIndex,       \* rows [id, name, vpc, env, cidr]
    groups, groupIndex,         \* rows [id, name, vpc]; number 0 is the default
    rules,                      \* <<group id, body>>
    nics,                       \* rows [vm, subnet, vpc, groups]
    tables, tableIndex,         \* rows [id, name, vpc]; number 0 is the default
    routes,                     \* rows [table, dest, origin], one per table and dest
    assoc,                      \* subnet id -> id of its own route table
    gateways, gatewayIndex,     \* rows [id, name, vpc, subnet]
    lastSubnet,                 \* the last subnet id given out
    made                        \* the last id given out for anything else

subnetVars == <<subnets, subnetIndex, lastSubnet>>
groupVars == <<groups, groupIndex, rules>>
tableVars == <<tables, tableIndex, routes, assoc>>
gatewayVars == <<gateways, gatewayIndex>>
netVars == <<subnetVars, groupVars, tableVars, gatewayVars, nics, made>>
networkVars == <<tenancyVars, netVars>>

VpcIds == 1 .. MaxVpcs
SubnetIds == 1 .. MaxSubnets
GroupKeys == VpcIds \X (GroupNames \cup {"default"})
TableKeys == VpcIds \X (TableNames \cup {"default"})

\* One more object with an id of its own.
Make == made < MaxMade /\ made' = made + 1

Row(table, id) == {r \in table : r.id = id}
Named(table, name) == {r \in table : r.name = name}

\* create_default_sg and create_default_route_table with its system route.
AddDefaults(v, cidr) ==
    /\ groups' = groups \cup {[id |-> <<v, 0>>, name |-> "default", vpc |-> v]}
    /\ groupIndex' = [groupIndex EXCEPT ![<<v, "default">>] = <<v, 0>>]
    /\ tables' = tables \cup {[id |-> <<v, 0>>, name |-> "default", vpc |-> v]}
    /\ tableIndex' = [tableIndex EXCEPT ![<<v, "default">>] = <<v, 0>>]
    /\ UNCHANGED <<rules, assoc, made>>

\* set on ROUTES_TABLE: a route replaces the one with the same key.
PutRoute(rs, t, dest, origin) ==
    {r \in rs : ~(r.table = t /\ r.dest = dest)}
    \cup {[table |-> t, dest |-> dest, origin |-> origin]}
DropRoute(rs, t, dest) == {r \in rs : ~(r.table = t /\ r.dest = dest)}

CreateNetwork(name, cidr, owner) ==
    /\ CreateVpc(name, cidr, owner)
    /\ AddDefaults(vni + 1, cidr)
    /\ routes' = PutRoute(routes, <<vni + 1, 0>>, cidr, "system")
    /\ UNCHANGED <<subnetVars, gatewayVars, nics>>

DeleteNetwork(name) == DeleteVpc(name) /\ UNCHANGED netVars

-----------------------------------------------------------------------------
(* Subnets.                                                                  *)

CidrsIn(v) == {s.cidr : s \in {s \in subnets : s.vpc = v}}

\* Mutant: the first /24 of the VPC, whatever is taken.
AutoAllocate_First(cidr, taken) ==
    LET whole == {k \in {c \div 2 : c \in cidr} : {2 * k, 2 * k + 1} \subseteq cidr}
    IN {{2 * k, 2 * k + 1} : k \in {k \in whole : \A x \in whole : k <= x}}

\* auto_allocate_subnet_cidr: the lowest free /24, that is two /25 blocks.
AutoAllocate(cidr, taken) ==
    LET free == {k \in {c \div 2 : c \in cidr} :
                    /\ {2 * k, 2 * k + 1} \subseteq cidr
                    /\ \A t \in taken : t \cap {2 * k, 2 * k + 1} = {}}
    IN {{2 * k, 2 * k + 1} : k \in {k \in free : \A x \in free : k <= x}}

\* The CIDR create_subnet settles on: at most one.
SubnetCidr(cidr, taken, asked) ==
    IF asked = None THEN AutoAllocate(cidr, taken)
    ELSE {c \in {asked} : c \subseteq cidr /\ \A t \in taken : t \cap c = {}}

EnvExists(env) == \E r \in envs : r.id = env

\* create_subnet in a VPC that exists.
CreateSubnet(name, vpcName, env, asked) ==
    /\ \E v \in VpcFor(vpcName) :
        /\ EnvExists(env)
        /\ subnetIndex[<<v.id, name>>] = None
        /\ lastSubnet < MaxSubnets
        /\ lastSubnet' = lastSubnet + 1
        /\ \E c \in SubnetCidr(v.cidr, CidrsIn(v.id), asked) :
            /\ subnets' = subnets \cup {[id |-> lastSubnet + 1, name |-> name,
                                         vpc |-> v.id, env |-> env, cidr |-> c]}
            /\ routes' = IF tableIndex[<<v.id, "default">>] = None THEN routes
                         ELSE PutRoute(routes, tableIndex[<<v.id, "default">>], c, "system")
        /\ subnetIndex' = [subnetIndex EXCEPT ![<<v.id, name>>] = lastSubnet + 1]
    /\ UNCHANGED <<tenancyVars, groupVars, tables, tableIndex, assoc,
                   gatewayVars, nics, made>>

\* CreateSubnet in the default VPC of a project, which is created first; it
\* stays when the subnet is refused.
CreateSubnetAndVpc(name, vpcName, env, asked) ==
    /\ vpcName \in DOMAIN DefaultOwner
    /\ VpcFor(vpcName) = {}
    /\ LET owner == ProjectOwner(DefaultOwner[vpcName][1], DefaultOwner[vpcName][2])
           v == vni + 1
           default == <<v, 0>>
           first == PutRoute(routes, default, DefaultCidr, "system")
           cidrs == IF EnvExists(env) THEN SubnetCidr(DefaultCidr, {}, asked) ELSE {}
       IN /\ OwnerExists(owner)
          /\ AddVpc(vpcName, DefaultCidr, owner, FALSE)
          /\ AddDefaults(v, DefaultCidr)
          /\ IF cidrs = {}
             THEN routes' = first /\ UNCHANGED subnetVars
             ELSE /\ lastSubnet < MaxSubnets
                  /\ lastSubnet' = lastSubnet + 1
                  /\ \E c \in cidrs :
                        /\ subnets' = subnets \cup {[id |-> lastSubnet + 1, name |-> name,
                                                     vpc |-> v, env |-> env, cidr |-> c]}
                        /\ routes' = PutRoute(first, default, c, "system")
                  /\ subnetIndex' = [subnetIndex EXCEPT ![<<v, name>>] = lastSubnet + 1]
    /\ UNCHANGED <<treeVars, listed, peerings, attachments, gatewayVars, nics>>

\* Mutant: the association with a route table stays.
DeleteSubnet_KeepAssociation(name, vpcName) ==
    /\ \E v \in VpcFor(vpcName) :
        \E s \in Row(subnets, subnetIndex[<<v.id, name>>]) :
            /\ routes' = DropRoute(routes, tableIndex[<<s.vpc, "default">>], s.cidr)
            /\ subnetIndex' = [subnetIndex EXCEPT ![<<v.id, name>>] = None]
            /\ subnets' = subnets \ {s}
    /\ UNCHANGED <<tenancyVars, lastSubnet, groupVars, tables, tableIndex, assoc,
                   gatewayVars, nics, made>>

\* delete_subnet: interfaces, addresses and gateways of the subnet stay.
DeleteSubnet(name, vpcName) ==
    /\ \E v \in VpcFor(vpcName) :
        \E s \in Row(subnets, subnetIndex[<<v.id, name>>]) :
            /\ routes' = DropRoute(routes, tableIndex[<<s.vpc, "default">>], s.cidr)
            /\ assoc' = [assoc EXCEPT ![s.id] = None]
            /\ subnetIndex' = [subnetIndex EXCEPT ![<<v.id, name>>] = None]
            /\ subnets' = subnets \ {s}
    /\ UNCHANGED <<tenancyVars, lastSubnet, groupVars, tables, tableIndex,
                   gatewayVars, nics, made>>

-----------------------------------------------------------------------------
(* Security groups and interfaces.                                           *)

\* create_security_group
CreateSg(name, vpcName) ==
    /\ \E v \in VpcFor(vpcName) :
        /\ groupIndex[<<v.id, name>>] = None
        /\ Make
        /\ groups' = groups \cup {[id |-> <<v.id, made + 1>>, name |-> name,
                                   vpc |-> v.id]}
        /\ groupIndex' = [groupIndex EXCEPT ![<<v.id, name>>] = <<v.id, made + 1>>]
    /\ UNCHANGED <<tenancyVars, subnetVars, rules, tableVars, gatewayVars, nics>>

\* delete_security_group with no VPC given: the name must be unambiguous;
\* interfaces that carry the group, and its rules, are not looked at.
DeleteSg(name) ==
    /\ \E g \in groups :
        /\ Named(groups, name) = {g}
        /\ g.id[2] # 0
        /\ groupIndex' = [groupIndex EXCEPT ![<<g.vpc, name>>] = None]
        /\ groups' = groups \ {g}
    /\ UNCHANGED <<tenancyVars, subnetVars, rules, tableVars, gatewayVars, nics, made>>

\* AddSgRule: any group of that name, the first in the order of random ids.
AddSgRule(name, body) ==
    /\ Make
    /\ \E g \in Named(groups, name) :
        /\ <<g.id, body>> \notin rules
        /\ rules' = rules \cup {<<g.id, body>>}
    /\ UNCHANGED <<tenancyVars, subnetVars, groups, groupIndex, tableVars,
                   gatewayVars, nics>>

RemoveSgRule(rule) ==
    /\ rule \in rules
    /\ rules' = rules \ {rule}
    /\ UNCHANGED <<tenancyVars, subnetVars, groups, groupIndex, tableVars,
                   gatewayVars, nics, made>>

\* CreateNic: a subnet that is gone leaves the interface without a VPC; an
\* interface that exists is kept.
CreateNic(vm, subnet) ==
    /\ subnet <= lastSubnet
    /\ Make
    /\ ~\E n \in nics : n.vm = vm /\ n.subnet = subnet
    /\ nics' = nics \cup
        {[vm |-> vm, subnet |-> subnet, groups |-> {},
          vpc |-> IF Row(subnets, subnet) = {} THEN None
                  ELSE (CHOOSE s \in Row(subnets, subnet) : TRUE).vpc]}
    /\ UNCHANGED <<tenancyVars, subnetVars, groupVars, tableVars, gatewayVars>>

DeleteNic(n) ==
    /\ n \in nics
    /\ nics' = nics \ {n}
    /\ UNCHANGED <<tenancyVars, subnetVars, groupVars, tableVars, gatewayVars, made>>

\* Mutant: the VPC of the group is not compared.
AttachSg_AnyVpc(key, n) ==
    /\ n \in nics
    /\ \E g \in Row(groups, groupIndex[key]) :
        /\ g.id \notin n.groups
        /\ nics' = (nics \ {n}) \cup {[n EXCEPT !.groups = @ \cup {g.id}]}
    /\ UNCHANGED <<tenancyVars, subnetVars, groupVars, tableVars, gatewayVars, made>>

\* attach_sg_to_nic: the group is given by its index key.
AttachSg(key, n) ==
    /\ n \in nics
    /\ \E g \in Row(groups, groupIndex[key]) :
        /\ g.vpc = n.vpc
        /\ g.id \notin n.groups
        /\ nics' = (nics \ {n}) \cup {[n EXCEPT !.groups = @ \cup {g.id}]}
    /\ UNCHANGED <<tenancyVars, subnetVars, groupVars, tableVars, gatewayVars, made>>

\* detach_sg_from_nic: never the last one.
DetachSg(key, n) ==
    /\ n \in nics
    /\ \E g \in Row(groups, groupIndex[key]) :
        /\ g.id \in n.groups
        /\ Cardinality(n.groups) > 1
        /\ nics' = (nics \ {n}) \cup {[n EXCEPT !.groups = @ \ {g.id}]}
    /\ UNCHANGED <<tenancyVars, subnetVars, groupVars, tableVars, gatewayVars, made>>

-----------------------------------------------------------------------------
(* Route tables, routes and associations.                                    *)

\* create_route_table_by_vpc_name
CreateRouteTable(name, vpcName) ==
    /\ \E v \in VpcFor(vpcName) :
        /\ tableIndex[<<v.id, name>>] = None
        /\ Make
        /\ tables' = tables \cup {[id |-> <<v.id, made + 1>>, name |-> name,
                                   vpc |-> v.id]}
        /\ tableIndex' = [tableIndex EXCEPT ![<<v.id, name>>] = <<v.id, made + 1>>]
    /\ UNCHANGED <<tenancyVars, subnetVars, groupVars, routes, assoc, gatewayVars, nics>>

\* delete_route_table: not the default, not while a subnet uses it; its routes go.
DropTable(v, name) ==
    /\ \E t \in Row(tables, tableIndex[<<v, name>>]) :
        /\ t.id[2] # 0
        /\ \A s \in SubnetIds : assoc[s] # t.id
        /\ routes' = {r \in routes : r.table # t.id}
        /\ tableIndex' = [tableIndex EXCEPT ![<<v, name>>] = None]
        /\ tables' = tables \ {t}
    /\ UNCHANGED <<tenancyVars, subnetVars, groupVars, assoc, gatewayVars, nics, made>>

\* DeleteRouteTable: in the VPC given, or wherever the name is unambiguous.
DeleteRouteTable(name, vpcName) ==
    IF vpcName = None
    THEN \E t \in tables : Named(tables, name) = {t} /\ DropTable(t.vpc, name)
    ELSE \E v \in VpcFor(vpcName) : DropTable(v.id, name)

\* AssociateRouteTable: the subnet's name must be unambiguous, the table is
\* looked up in the subnet's VPC.
AssociateRouteTable(name, subnetName) ==
    /\ \E s \in subnets :
        /\ Named(subnets, subnetName) = {s}
        /\ \E t \in Row(tables, tableIndex[<<s.vpc, name>>]) :
            assoc' = [assoc EXCEPT ![s.id] = t.id]
    /\ UNCHANGED <<tenancyVars, subnetVars, groupVars, tables, tableIndex, routes,
                   gatewayVars, nics, made>>

DisassociateRouteTable(subnetName) ==
    /\ \E s \in subnets :
        /\ Named(subnets, subnetName) = {s}
        /\ assoc' = [assoc EXCEPT ![s.id] = None]
    /\ UNCHANGED <<tenancyVars, subnetVars, groupVars, tables, tableIndex, routes,
                   gatewayVars, nics, made>>

\* Mutant: a route that is there is replaced.
AddRoute_Overwrite(vpcName, name, dest) ==
    /\ \E v \in VpcFor(vpcName) :
        \E t \in Row(tables, tableIndex[<<v.id, name>>]) :
            /\ Make
            /\ routes' = PutRoute(routes, t.id, dest, "user")
    /\ UNCHANGED <<tenancyVars, subnetVars, groupVars, tables, tableIndex, assoc,
                   gatewayVars, nics>>

\* add_route: refused where the table has a route of any origin already.
AddRoute(vpcName, name, dest) ==
    /\ \E v \in VpcFor(vpcName) :
        \E t \in Row(tables, tableIndex[<<v.id, name>>]) :
            /\ ~\E r \in routes : r.table = t.id /\ r.dest = dest
            /\ Make
            /\ routes' = PutRoute(routes, t.id, dest, "user")
    /\ UNCHANGED <<tenancyVars, subnetVars, groupVars, tables, tableIndex, assoc,
                   gatewayVars, nics>>

\* remove_route: only what a user added.
DeleteRoute(vpcName, name, dest) ==
    /\ \E v \in VpcFor(vpcName) :
        \E t \in Row(tables, tableIndex[<<v.id, name>>]) :
            /\ [table |-> t.id, dest |-> dest, origin |-> "user"] \in routes
            /\ routes' = DropRoute(routes, t.id, dest)
    /\ UNCHANGED <<tenancyVars, subnetVars, groupVars, tables, tableIndex, assoc,
                   gatewayVars, nics, made>>

-----------------------------------------------------------------------------
(* NAT gateways.                                                             *)

CreateNatGw(name, vpcName, subnetName) ==
    /\ \E v \in VpcFor(vpcName) :
        /\ \E s \in subnets :
            /\ {x \in Named(subnets, subnetName) : x.vpc = v.id} = {s}
            /\ gateways' = gateways \cup {[id |-> made + 1, name |-> name,
                                           vpc |-> v.id, subnet |-> s.id]}
        /\ gatewayIndex[<<v.id, name>>] = None
        /\ Make
        /\ gatewayIndex' = [gatewayIndex EXCEPT ![<<v.id, name>>] = made + 1]
    /\ UNCHANGED <<tenancyVars, subnetVars, groupVars, tableVars, nics>>

\* DeleteNatGw: routes that lead to the gateway are not looked at.
DeleteNatGw(name) ==
    /\ \E g \in gateways :
        /\ Named(gateways, name) = {g}
        /\ gatewayIndex' = [gatewayIndex EXCEPT ![<<g.vpc, name>>] = None]
        /\ gateways' = {x \in gateways : x.id # gatewayIndex[<<g.vpc, name>>]}
    /\ UNCHANGED <<tenancyVars, subnetVars, groupVars, tableVars, nics, made>>

-----------------------------------------------------------------------------
\* One organisation with a project and an environment, nothing in it yet: the
\* state after CreateOrg, CreateProject and CreateEnv.
NetworkInit ==
    \E o \in OrgNames, p \in ProjectNames, e \in EnvNames :
        /\ orgs = {[id |-> Generated(1), name |-> o]}
        /\ orgIndex = [x \in OrgNames |-> IF x = o THEN Generated(1) ELSE None]
        /\ projects = {[id |-> Generated(1), name |-> p, orgId |-> Generated(1)]}
        /\ projectIndex = [k \in ProjectKeys |-> IF k = <<o, p>> THEN Generated(1) ELSE None]
        /\ envs = {[id |-> Generated(1), name |-> e, projectId |-> Generated(1),
                    protected |-> FALSE, expiry |-> "never"]}
        /\ envIndex = [k \in EnvKeys |-> IF k = <<o, p, e>> THEN Generated(1) ELSE None]
        /\ lastOrg = 1 /\ lastProject = 1 /\ lastEnv = 1 /\ listed = {}
        /\ vpcs = {} /\ vpcIndex = [k \in VpcKeys |-> None]
        /\ peerings = {} /\ attachments = {} /\ vni = 0
        /\ subnets = {} /\ groups = {} /\ rules = {} /\ nics = {}
        /\ tables = {} /\ routes = {} /\ gateways = {}
        /\ subnetIndex = [k \in VpcIds \X SubnetNames |-> None]
        /\ groupIndex = [k \in GroupKeys |-> None]
        /\ tableIndex = [k \in TableKeys |-> None]
        /\ gatewayIndex = [k \in VpcIds \X GatewayNames |-> None]
        /\ assoc = [s \in SubnetIds |-> None]
        /\ lastSubnet = 0 /\ made = 0

NetworkNext ==
    \/ \E n \in VpcNames, c \in VpcCidrs, w \in Owners : CreateNetwork(n, c, w)
    \/ \E n \in VpcNames : DeleteNetwork(n)
    \/ \E k \in EnvKeys : DeleteEnv(k) /\ UNCHANGED netVars
    \/ \E n \in SubnetNames, v \in VpcNames, i \in 1 .. MaxEnvs :
        \/ \E c \in SubnetCidrs \cup {None} :
            \/ CreateSubnet(n, v, Generated(i), c)
            \/ CreateSubnetAndVpc(n, v, Generated(i), c)
        \/ DeleteSubnet(n, v)
    \/ \E g \in GroupNames : DeleteSg(g) \/ \E v \in VpcNames : CreateSg(g, v)
    \/ \E g \in GroupNames \cup {"default"}, b \in RuleBodies : AddSgRule(g, b)
    \/ \E r \in rules : RemoveSgRule(r)
    \/ \E vm \in VMs, s \in SubnetIds : CreateNic(vm, s)
    \/ \E n \in nics : DeleteNic(n) \/ \E k \in GroupKeys : AttachSg(k, n) \/ DetachSg(k, n)
    \/ \E t \in TableNames \cup {"default"}, v \in VpcNames \cup {None} :
        DeleteRouteTable(t, v)
    \/ \E t \in TableNames, v \in VpcNames : CreateRouteTable(t, v)
    \/ \E t \in TableNames \cup {"default"} :
        \/ \E s \in SubnetNames : AssociateRouteTable(t, s)
        \/ \E v \in VpcNames, d \in Destinations : AddRoute(v, t, d) \/ DeleteRoute(v, t, d)
    \/ \E s \in SubnetNames : DisassociateRouteTable(s)
    \/ \E g \in GatewayNames :
        \/ DeleteNatGw(g)
        \/ \E v \in VpcNames, s \in SubnetNames : CreateNatGw(g, v, s)

NetworkSpec == NetworkInit /\ [][NetworkNext]_networkVars

-----------------------------------------------------------------------------
(* Properties.                                                               *)

\* The subnets of a VPC lie inside it and apart from each other, however they
\* were chosen and whatever was deleted in between.
SubnetsDisjoint ==
    \A s \in subnets :
        /\ \A v \in vpcs : v.id = s.vpc => s.cidr \subseteq v.cidr
        /\ \A x \in subnets : x.vpc = s.vpc /\ x # s => x.cidr \cap s.cidr = {}

\* Every subnet has its system route in the default table of its VPC, and no
\* command on another subnet, table or route takes it away.
SubnetsRouted ==
    \A s \in subnets :
        [table |-> <<s.vpc, 0>>, dest |-> s.cidr, origin |-> "system"] \in routes

\* A subnet is associated with a table of its own VPC that exists, and a
\* subnet that is gone holds no table back (delete_route_table).
AssociationsResolve ==
    \A i \in SubnetIds : assoc[i] # None =>
        \E s \in subnets, t \in tables : s.id = i /\ t.id = assoc[i] /\ t.vpc = s.vpc

\* An interface only ever carries groups of its own VPC, also after its
\* subnet, its VPC or a group of the same name were deleted and made again.
GroupsAreLocal == \A n \in nics : \A g \in n.groups : g[1] = n.vpc
=============================================================================
