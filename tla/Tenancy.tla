------------------------------- MODULE Tenancy -------------------------------
(* The upper half of the organisation store: organisations, projects,        *)
(* environments, VPCs, their attachments and peerings, and the sweep that    *)
(* destroys expired environments.  Every row is kept under a generated id    *)
(* and found again through an index of names; most checks look at names,     *)
(* the rows refer to each other by id.                                       *)
(*                                                                           *)
(* A CIDR is the set of /25 blocks it covers.  Names of organisations are    *)
(* numbers, in the order of their index keys.  A command that returns an     *)
(* error changes nothing, so it is not a step.                               *)
EXTENDS Naturals, FiniteSets

CONSTANTS
    OrgNames,       \* numbers, ordered as the keys of the name index
    ProjectNames,
    EnvNames,
    VpcNames,
    VpcCidrs,       \* the valid, private CIDRs a VPC may be given
    None,
    MaxOrgs,        \* bound: organisations ever created
    MaxProjects,    \* bound: projects ever created
    MaxEnvs,        \* bound: environments ever created
    MaxVpcs         \* bound: VPCs ever created

ASSUME TenancyAssumption ==
    /\ OrgNames \subseteq Nat
    /\ None \notin Nat /\ None \notin [id : Nat]
    /\ MaxOrgs \in Nat /\ MaxProjects \in Nat /\ MaxEnvs \in Nat /\ MaxVpcs \in Nat

VARIABLES
    orgs,           \* rows [id, name]
    orgIndex,       \* name -> id
    projects,       \* rows [id, name, orgId]
    projectIndex,   \* <<org, project>> -> id
    envs,           \* rows [id, name, projectId, protected, expiry]
    envIndex,       \* <<org, project, environment>> -> id
    vpcs,           \* rows [id, name, cidr, owner, shared]
    vpcIndex,       \* <<scope, name>> -> id
    peerings,       \* unordered pairs of VPC ids
    attachments,    \* <<VPC id, project>>
    lastOrg, lastProject, lastEnv, vni,     \* the last id of each kind given out
    listed          \* what a sweep has found expired and not yet handled

treeVars == <<orgs, orgIndex, projects, projectIndex, envs, envIndex,
              lastOrg, lastProject, lastEnv>>
vpcVars == <<vpcs, vpcIndex, peerings, attachments, vni>>
tenancyVars == <<treeVars, vpcVars, listed>>

ProjectKeys == OrgNames \X ProjectNames
EnvKeys == OrgNames \X ProjectNames \X EnvNames
VpcKeys == OrgNames \X VpcNames

\* A generated id, and the two forms of id that are really names: the command
\* CreateVpc carries its owner as "org" or "org/project".
Generated(n) == [id |-> n]
OrgOwner(o) == [kind |-> "org", of |-> [name |-> o]]
ProjectOwner(o, p) == [kind |-> "project", of |-> [org |-> o, project |-> p]]
Owners == {OrgOwner(o) : o \in OrgNames}
          \cup {ProjectOwner(k[1], k[2]) : k \in ProjectKeys}

Expiries == {"never", "later", "past"}

-----------------------------------------------------------------------------
(* Organisations, projects, environments.                                    *)

\* create
CreateOrg(o) ==
    /\ orgIndex[o] = None
    /\ lastOrg < MaxOrgs
    /\ lastOrg' = lastOrg + 1
    /\ orgs' = orgs \cup {[id |-> Generated(lastOrg + 1), name |-> o]}
    /\ orgIndex' = [orgIndex EXCEPT ![o] = Generated(lastOrg + 1)]
    /\ UNCHANGED <<projects, projectIndex, envs, envIndex, lastProject, lastEnv>>
    /\ UNCHANGED <<vpcVars, listed>>

\* list_vpcs_by_org, and the filter of existing_cidrs_for_org: owners are
\* compared as ids, whether they are generated or names.
VpcsByOrg(orgId) ==
    {v \in vpcs : \/ v.owner.kind = "org" /\ v.owner.of = orgId
                  \/ /\ v.owner.kind = "project"
                     /\ \E q \in projects : q.id = v.owner.of /\ q.orgId = orgId}

\* list_projects and list_envs read the index by the prefix of its keys.
ListProjects(o) ==
    {q \in projects : \E p \in ProjectNames : projectIndex[<<o, p>>] = q.id}
ListEnvs(o, p) ==
    {r \in envs : \E e \in EnvNames : envIndex[<<o, p, e>>] = r.id}

\* Mutant: projects are not looked at.
DeleteOrg_KeepProjects(o) ==
    /\ \E r \in orgs : r.id = orgIndex[o]
    /\ VpcsByOrg(orgIndex[o]) = {}
    /\ orgs' = {r \in orgs : r.id # orgIndex[o]}
    /\ orgIndex' = [orgIndex EXCEPT ![o] = None]
    /\ UNCHANGED <<projects, projectIndex, envs, envIndex, lastOrg, lastProject, lastEnv>>
    /\ UNCHANGED <<vpcVars, listed>>

\* delete
DeleteOrg(o) ==
    /\ \E r \in orgs : r.id = orgIndex[o]
    /\ VpcsByOrg(orgIndex[o]) = {}
    /\ ListProjects(o) = {}
    /\ orgs' = {r \in orgs : r.id # orgIndex[o]}
    /\ orgIndex' = [orgIndex EXCEPT ![o] = None]
    /\ UNCHANGED <<projects, projectIndex, envs, envIndex, lastOrg, lastProject, lastEnv>>
    /\ UNCHANGED <<vpcVars, listed>>

\* create_project
CreateProject(o, p) ==
    /\ \E r \in orgs : r.id = orgIndex[o]
    /\ projectIndex[<<o, p>>] = None
    /\ lastProject < MaxProjects
    /\ lastProject' = lastProject + 1
    /\ projects' = projects \cup {[id |-> Generated(lastProject + 1), name |-> p,
                                   orgId |-> orgIndex[o]]}
    /\ projectIndex' = [projectIndex EXCEPT ![<<o, p>>] = Generated(lastProject + 1)]
    /\ UNCHANGED <<orgs, orgIndex, envs, envIndex, lastOrg, lastEnv>>
    /\ UNCHANGED <<vpcVars, listed>>

\* Mutant: the index entry stays.
DeleteProject_KeepIndex(o, p) ==
    /\ \E q \in projects : q.id = projectIndex[<<o, p>>]
    /\ ListEnvs(o, p) = {}
    /\ projects' = {q \in projects : q.id # projectIndex[<<o, p>>]}
    /\ UNCHANGED <<orgs, orgIndex, projectIndex, envs, envIndex,
                   lastOrg, lastProject, lastEnv>>
    /\ UNCHANGED <<vpcVars, listed>>

\* delete_project: VPCs and attachments of the project are not looked at.
DeleteProject(o, p) ==
    /\ \E q \in projects : q.id = projectIndex[<<o, p>>]
    /\ ListEnvs(o, p) = {}
    /\ projects' = {q \in projects : q.id # projectIndex[<<o, p>>]}
    /\ projectIndex' = [projectIndex EXCEPT ![<<o, p>>] = None]
    /\ UNCHANGED <<orgs, orgIndex, envs, envIndex, lastOrg, lastProject, lastEnv>>
    /\ UNCHANGED <<vpcVars, listed>>

\* create_env
CreateEnv(o, p, e, protected, expiry) ==
    /\ \E q \in projects : q.id = projectIndex[<<o, p>>]
    /\ envIndex[<<o, p, e>>] = None
    /\ lastEnv < MaxEnvs
    /\ lastEnv' = lastEnv + 1
    /\ envs' = envs \cup {[id |-> Generated(lastEnv + 1), name |-> e,
                           projectId |-> projectIndex[<<o, p>>],
                           protected |-> protected, expiry |-> expiry]}
    /\ envIndex' = [envIndex EXCEPT ![<<o, p, e>>] = Generated(lastEnv + 1)]
    /\ UNCHANGED <<orgs, orgIndex, projects, projectIndex, lastOrg, lastProject>>
    /\ UNCHANGED <<vpcVars, listed>>

\* get_env
EnvFor(k) == {r \in envs : r.id = envIndex[k]}

\* A row is written back with a field changed.
UpdateEnv(r, changed) ==
    /\ envs' = (envs \ {r}) \cup {changed}
    /\ UNCHANGED <<orgs, orgIndex, projects, projectIndex, envIndex,
                   lastOrg, lastProject, lastEnv>>
    /\ UNCHANGED <<vpcVars, listed>>

\* extend_env
ExtendEnv(k) == \E r \in EnvFor(k) : UpdateEnv(r, [r EXCEPT !.expiry = "later"])

\* update_env_protection
ProtectEnv(k, enabled) ==
    \E r \in EnvFor(k) : UpdateEnv(r, [r EXCEPT !.protected = enabled])

\* Mutant: a sweep trusts the protection it saw when it listed.
RemoveEnv_AsListed(k) ==
    /\ \E r \in EnvFor(k) : k \in listed \/ ~r.protected
    /\ envs' = {r \in envs : r.id # envIndex[k]}
    /\ envIndex' = [envIndex EXCEPT ![k] = None]
    /\ UNCHANGED <<orgs, orgIndex, projects, projectIndex, lastOrg, lastProject, lastEnv>>
    /\ UNCHANGED vpcVars

\* delete_env: the row is read again, whatever the caller knew of it.
RemoveEnv(k) ==
    /\ \E r \in EnvFor(k) : ~r.protected
    /\ envs' = {r \in envs : r.id # envIndex[k]}
    /\ envIndex' = [envIndex EXCEPT ![k] = None]
    /\ UNCHANGED <<orgs, orgIndex, projects, projectIndex, lastOrg, lastProject, lastEnv>>
    /\ UNCHANGED vpcVars

DeleteEnv(k) == RemoveEnv(k) /\ UNCHANGED listed

\* The clock passes expires_at of an environment.
Expire(r) == r.expiry = "later" /\ UpdateEnv(r, [r EXCEPT !.expiry = "past"])

\* find_expired_envs: a sweep lists keys of expired environments that are not
\* protected; it deletes them by name, one by one, afterwards.
SweepList ==
    /\ listed = {}
    /\ listed' = {k \in EnvKeys :
                    \E r \in ListEnvs(k[1], k[2]) :
                        r.name = k[3] /\ r.expiry = "past" /\ ~r.protected}
    /\ listed' # {}
    /\ UNCHANGED <<treeVars, vpcVars>>

SweepDestroy(k) ==
    /\ k \in listed
    /\ listed' = listed \ {k}
    /\ \/ RemoveEnv(k)
       \/ /\ \A r \in EnvFor(k) : r.protected
          /\ UNCHANGED <<treeVars, vpcVars>>

-----------------------------------------------------------------------------
(* VPCs, attachments and peerings.                                           *)

\* vpc_org_scope
Scope(owner) == IF owner.kind = "org" THEN owner.of.name ELSE owner.of.org

\* create_vpc: the parent exists, by id or else by name.
OwnerExists(owner) ==
    IF owner.kind = "org"
    THEN \/ \E r \in orgs : r.id = owner.of
         \/ \E r \in orgs : r.id = orgIndex[owner.of.name]
    ELSE \/ \E q \in projects : q.id = owner.of
         \/ /\ \E r \in orgs : r.id = orgIndex[owner.of.org]
            /\ \E q \in projects : q.id = projectIndex[<<owner.of.org, owner.of.project>>]

\* resolve_owner_org_id
OwnerOrgId(owner) ==
    CASE owner.kind = "org" -> owner.of
      [] owner.kind = "project" /\ \E q \in projects : q.id = owner.of ->
            (CHOOSE q \in projects : q.id = owner.of).orgId
      [] OTHER -> orgIndex[owner.of.org]

\* create_vpc, after its parent was found
AddVpc(name, cidr, owner, shared) ==
    /\ vpcIndex[<<Scope(owner), name>>] = None
    /\ \A v \in VpcsByOrg(OwnerOrgId(owner)) : v.cidr \cap cidr = {}
    /\ vni < MaxVpcs
    /\ vni' = vni + 1
    /\ vpcs' = vpcs \cup {[id |-> vni + 1, name |-> name, cidr |-> cidr,
                           owner |-> owner, shared |-> shared]}
    /\ vpcIndex' = [vpcIndex EXCEPT ![<<Scope(owner), name>>] = vni + 1]

\* StateMachineCommand::CreateVpc; a shared VPC belongs to an organisation, any
\* other to a project.
CreateVpc(name, cidr, owner) ==
    /\ OwnerExists(owner)
    /\ AddVpc(name, cidr, owner, owner.kind = "org")
    /\ UNCHANGED <<peerings, attachments>>
    /\ UNCHANGED <<treeVars, listed>>

\* get_vpc: the first index key that ends in the name, whatever its scope.
ScopesOf(name) == {o \in OrgNames : vpcIndex[<<o, name>>] # None}
VpcFor(name) ==
    IF ScopesOf(name) = {} THEN {}
    ELSE LET o == CHOOSE o \in ScopesOf(name) : \A x \in ScopesOf(name) : o <= x
         IN {v \in vpcs : v.id = vpcIndex[<<o, name>>]}

\* Mutant: peerings are not looked at.
DeleteVpc_Peered(name) ==
    \E v \in VpcFor(name) :
        /\ vpcIndex' = [vpcIndex EXCEPT ![<<Scope(v.owner), name>>] = None]
        /\ vpcs' = vpcs \ {v}
        /\ UNCHANGED <<peerings, attachments, vni>>
        /\ UNCHANGED <<treeVars, listed>>

\* delete_vpc: its subnets, groups, tables and attachments stay.
DeleteVpc(name) ==
    \E v \in VpcFor(name) :
        /\ \A pair \in peerings : v.id \notin pair
        /\ vpcIndex' = [vpcIndex EXCEPT ![<<Scope(v.owner), name>>] = None]
        /\ vpcs' = vpcs \ {v}
        /\ UNCHANGED <<peerings, attachments, vni>>
        /\ UNCHANGED <<treeVars, listed>>

\* attach_vpc; the project is not looked up.
AttachVpc(name, project) ==
    \E v \in VpcFor(name) :
        /\ v.shared
        /\ <<v.id, project>> \notin attachments
        /\ attachments' = attachments \cup {<<v.id, project>>}
        /\ UNCHANGED <<vpcs, vpcIndex, peerings, vni>>
        /\ UNCHANGED <<treeVars, listed>>

\* detach_vpc
DetachVpc(name, project) ==
    \E v \in VpcFor(name) :
        /\ <<v.id, project>> \in attachments
        /\ attachments' = attachments \ {<<v.id, project>>}
        /\ UNCHANGED <<vpcs, vpcIndex, peerings, vni>>
        /\ UNCHANGED <<treeVars, listed>>

\* create_peering
PeerVpc(a, b) ==
    /\ a # b
    /\ \E v \in VpcFor(a), w \in VpcFor(b) :
        /\ {v.id, w.id} \notin peerings
        /\ peerings' = peerings \cup {{v.id, w.id}}
    /\ UNCHANGED <<vpcs, vpcIndex, attachments, vni>>
    /\ UNCHANGED <<treeVars, listed>>

\* delete_peering
UnpeerVpc(a, b) ==
    /\ \E v \in VpcFor(a), w \in VpcFor(b) :
        /\ {v.id, w.id} \in peerings
        /\ peerings' = peerings \ {{v.id, w.id}}
    /\ UNCHANGED <<vpcs, vpcIndex, attachments, vni>>
    /\ UNCHANGED <<treeVars, listed>>

-----------------------------------------------------------------------------
TenancyInit ==
    /\ orgs = {} /\ projects = {} /\ envs = {} /\ vpcs = {}
    /\ orgIndex = [o \in OrgNames |-> None]
    /\ projectIndex = [k \in ProjectKeys |-> None]
    /\ envIndex = [k \in EnvKeys |-> None]
    /\ vpcIndex = [k \in VpcKeys |-> None]
    /\ peerings = {} /\ attachments = {} /\ listed = {}
    /\ lastOrg = 0 /\ lastProject = 0 /\ lastEnv = 0 /\ vni = 0

TenancyNext ==
    \/ \E o \in OrgNames : CreateOrg(o) \/ DeleteOrg(o)
    \/ \E k \in ProjectKeys : CreateProject(k[1], k[2]) \/ DeleteProject(k[1], k[2])
    \/ \E k \in EnvKeys :
        \/ \E protected \in BOOLEAN, expiry \in {"never", "later"} :
                CreateEnv(k[1], k[2], k[3], protected, expiry)
        \/ ExtendEnv(k)
        \/ \E enabled \in BOOLEAN : ProtectEnv(k, enabled)
        \/ DeleteEnv(k)
        \/ SweepDestroy(k)
    \/ \E r \in envs : Expire(r)
    \/ SweepList
    \/ \E n \in VpcNames, c \in VpcCidrs, w \in Owners : CreateVpc(n, c, w)
    \/ \E n \in VpcNames : DeleteVpc(n)
    \/ \E n \in VpcNames, p \in ProjectNames : AttachVpc(n, p) \/ DetachVpc(n, p)
    \/ \E a, b \in VpcNames : PeerVpc(a, b) \/ UnpeerVpc(a, b)

TenancySpec == TenancyInit /\ [][TenancyNext]_tenancyVars

-----------------------------------------------------------------------------
(* Properties.                                                               *)

\* The organisation a project was created in, and the project an environment
\* was created in, exist as long as it does.  delete and delete_project check
\* by name for children that point at them by id.
ParentsExist ==
    /\ \A q \in projects : \E r \in orgs : r.id = q.orgId
    /\ \A r \in envs : \E q \in projects : q.id = r.projectId

\* Names and rows stay in step: each row is found under exactly one name, and
\* each name leads to a row that carries it.
NamesResolve ==
    /\ \A o \in OrgNames : orgIndex[o] # None =>
            \E r \in orgs : r.id = orgIndex[o] /\ r.name = o
    /\ \A r \in orgs : orgIndex[r.name] = r.id
    /\ \A k \in ProjectKeys : projectIndex[k] # None =>
            \E q \in projects : /\ q.id = projectIndex[k] /\ q.name = k[2]
                                /\ q.orgId = orgIndex[k[1]]
    /\ \A q \in projects : \E o \in OrgNames : projectIndex[<<o, q.name>>] = q.id
    /\ \A k \in EnvKeys : envIndex[k] # None =>
            \E r \in envs : /\ r.id = envIndex[k] /\ r.name = k[3]
                            /\ r.projectId = projectIndex[<<k[1], k[2]>>]
    /\ \A r \in envs : \E k \in ProjectKeys : envIndex[<<k[1], k[2], r.name>>] = r.id
    /\ \A v \in vpcs : vpcIndex[<<Scope(v.owner), v.name>>] = v.id
    /\ \A k \in VpcKeys : vpcIndex[k] # None => \E v \in vpcs : v.id = vpcIndex[k]

\* A peering joins two VPCs that exist: delete_vpc refuses while one is there.
PeeringsConnect ==
    \A pair \in peerings : Cardinality({v \in vpcs : v.id \in pair}) = 2

\* Nobody removes a protected environment, not even a sweep that listed it
\* before it was protected.
ProtectedSurvives ==
    [][\A r \in envs : r.protected => \E s \in envs' : s.id = r.id]_tenancyVars

=============================================================================
