--------------------------- MODULE Tenancy_proofs ---------------------------
(* Theorems about Tenancy, for every set of names and CIDRs and any number   *)
(* of organisations, projects, environments and VPCs: names and rows stay in *)
(* step, parents outlive their children, peerings join two VPCs that exist,  *)
(* and a protected environment is not removed.                               *)
(*                                                                           *)
(* NamesResolve is not inductive alone: a deletion by id must take exactly   *)
(* the row the name led to, so ids must be distinct, and new ids are new     *)
(* only because the rows stay at or below the counters they came from.       *)
EXTENDS Tenancy, FiniteSetTheorems, WellFoundedInduction, TLAPS

Ids == [id : Nat]

\* No two rows of a table share an id.
Distinct(rows) == \A r, s \in rows : r.id = s.id => r = s

\* Organisations: the rows, their index and their counter.
OrgsOK ==
    /\ orgs \subseteq [id : Ids, name : OrgNames]
    /\ orgIndex \in [OrgNames -> Ids \cup {None}]
    /\ lastOrg \in Nat
    /\ \A r \in orgs : r.id.id <= lastOrg
    /\ Distinct(orgs)
    /\ \A o \in OrgNames : orgIndex[o] # None =>
            \E r \in orgs : r.id = orgIndex[o] /\ r.name = o
    /\ \A r \in orgs : orgIndex[r.name] = r.id

ProjectsOK ==
    /\ projects \subseteq [id : Ids, name : ProjectNames, orgId : Ids]
    /\ projectIndex \in [ProjectKeys -> Ids \cup {None}]
    /\ lastProject \in Nat
    /\ \A q \in projects : q.id.id <= lastProject
    /\ Distinct(projects)
    /\ \A k \in ProjectKeys : projectIndex[k] # None =>
            \E q \in projects : /\ q.id = projectIndex[k] /\ q.name = k[2]
                                /\ q.orgId = orgIndex[k[1]]
    /\ \A q \in projects : \E o \in OrgNames : projectIndex[<<o, q.name>>] = q.id

EnvsOK ==
    /\ envs \subseteq [id : Ids, name : EnvNames, projectId : Ids,
                       protected : BOOLEAN, expiry : Expiries]
    /\ envIndex \in [EnvKeys -> Ids \cup {None}]
    /\ lastEnv \in Nat
    /\ \A r \in envs : r.id.id <= lastEnv
    /\ Distinct(envs)
    /\ \A k \in EnvKeys : envIndex[k] # None =>
            \E r \in envs : /\ r.id = envIndex[k] /\ r.name = k[3]
                            /\ r.projectId = projectIndex[<<k[1], k[2]>>]
    /\ \A r \in envs : \E k \in ProjectKeys : envIndex[<<k[1], k[2], r.name>>] = r.id

VpcsOK ==
    /\ vpcIndex \in [VpcKeys -> Nat \cup {None}]
    /\ vni \in Nat
    /\ \A v \in vpcs : /\ v.id \in Nat /\ v.id <= vni
                       /\ v.name \in VpcNames
                       /\ Scope(v.owner) \in OrgNames
    /\ Distinct(vpcs)
    /\ \A v \in vpcs : vpcIndex[<<Scope(v.owner), v.name>>] = v.id
    /\ \A k \in VpcKeys : vpcIndex[k] # None => \E v \in vpcs : v.id = vpcIndex[k]
    /\ \A k, l \in VpcKeys : vpcIndex[k] # None /\ vpcIndex[k] = vpcIndex[l] => k = l

PeersOK ==
    \A pair \in peerings : \E v, w \in vpcs : v.id # w.id /\ pair = {v.id, w.id}

TenancyOK == OrgsOK /\ ProjectsOK /\ EnvsOK /\ VpcsOK /\ PeersOK

-----------------------------------------------------------------------------
(* Ids and indexes.                                                          *)

LEMMA NoneIsNoId == None \notin Ids /\ None \notin Nat
  BY TenancyAssumption DEF Ids

\* The next id is an id, and no row at or below the counter has it.
LEMMA GeneratedIsNew ==
  ASSUME NEW n \in Nat
  PROVE  /\ Generated(n + 1) \in Ids
         /\ \A i \in Ids : i.id <= n => i # Generated(n + 1)
         /\ Generated(n + 1).id = n + 1
  BY DEF Generated, Ids

\* Two names never lead to one organisation.
LEMMA OrgIndexInjective ==
  ASSUME OrgsOK, NEW o \in OrgNames, NEW p \in OrgNames,
         orgIndex[o] # None, orgIndex[o] = orgIndex[p]
  PROVE  o = p
  BY DEF OrgsOK, Distinct

LEMMA ProjectIndexInjective ==
  ASSUME OrgsOK, ProjectsOK, NEW k \in ProjectKeys, NEW l \in ProjectKeys,
         projectIndex[k] # None, projectIndex[k] = projectIndex[l]
  PROVE  k = l
<1>1. PICK q \in projects : /\ q.id = projectIndex[k] /\ q.name = k[2]
                            /\ q.orgId = orgIndex[k[1]]
  BY DEF ProjectsOK
<1>2. PICK r \in projects : /\ r.id = projectIndex[l] /\ r.name = l[2]
                            /\ r.orgId = orgIndex[l[1]]
  BY DEF ProjectsOK
<1>3. q = r
  BY <1>1, <1>2 DEF ProjectsOK, Distinct
<1>4. q.orgId \in Ids
  BY DEF ProjectsOK
<1>5. k[1] \in OrgNames /\ l[1] \in OrgNames
  BY DEF ProjectKeys
<1>6. k[1] = l[1]
  BY <1>1, <1>2, <1>3, <1>4, <1>5, NoneIsNoId, OrgIndexInjective
<1> QED
  BY <1>1, <1>2, <1>3, <1>6 DEF ProjectKeys

LEMMA EnvIndexInjective ==
  ASSUME OrgsOK, ProjectsOK, EnvsOK, NEW k \in EnvKeys, NEW l \in EnvKeys,
         envIndex[k] # None, envIndex[k] = envIndex[l]
  PROVE  k = l
<1>1. PICK r \in envs : /\ r.id = envIndex[k] /\ r.name = k[3]
                        /\ r.projectId = projectIndex[<<k[1], k[2]>>]
  BY DEF EnvsOK
<1>2. PICK s \in envs : /\ s.id = envIndex[l] /\ s.name = l[3]
                        /\ s.projectId = projectIndex[<<l[1], l[2]>>]
  BY DEF EnvsOK
<1>3. r = s
  BY <1>1, <1>2 DEF EnvsOK, Distinct
<1>4. r.projectId \in Ids
  BY DEF EnvsOK
<1>5. <<k[1], k[2]>> \in ProjectKeys /\ <<l[1], l[2]>> \in ProjectKeys
  BY DEF ProjectKeys, EnvKeys
<1>6. <<k[1], k[2]>> = <<l[1], l[2]>>
  BY <1>1, <1>2, <1>3, <1>4, <1>5, NoneIsNoId, ProjectIndexInjective
<1> QED
  BY <1>1, <1>2, <1>3, <1>6 DEF EnvKeys

\* A project's organisation is the one its index key names.
LEMMA ProjectParent ==
  ASSUME OrgsOK, ProjectsOK, NEW q \in projects
  PROVE  \E o \in OrgNames : /\ projectIndex[<<o, q.name>>] = q.id
                             /\ q.orgId = orgIndex[o] /\ orgIndex[o] # None
<1>1. PICK o \in OrgNames : projectIndex[<<o, q.name>>] = q.id
  BY DEF ProjectsOK
<1>2. q.id \in Ids /\ q.orgId \in Ids /\ <<o, q.name>> \in ProjectKeys
  BY DEF ProjectsOK, ProjectKeys
<1>3. PICK r \in projects : /\ r.id = projectIndex[<<o, q.name>>]
                            /\ r.orgId = orgIndex[<<o, q.name>>[1]]
  BY <1>1, <1>2, NoneIsNoId DEF ProjectsOK
<1>4. r = q
  BY <1>1, <1>3 DEF ProjectsOK, Distinct
<1> QED
  BY <1>1, <1>2, <1>3, <1>4, NoneIsNoId

LEMMA EnvParent ==
  ASSUME EnvsOK, NEW r \in envs
  PROVE  \E k \in ProjectKeys : /\ envIndex[<<k[1], k[2], r.name>>] = r.id
                                /\ r.projectId = projectIndex[k]
                                /\ projectIndex[k] # None
<1>1. PICK k \in ProjectKeys : envIndex[<<k[1], k[2], r.name>>] = r.id
  BY DEF EnvsOK
<1>2. r.id \in Ids /\ r.projectId \in Ids /\ <<k[1], k[2], r.name>> \in EnvKeys
  BY DEF EnvsOK, EnvKeys, ProjectKeys
<1> DEFINE l == <<k[1], k[2], r.name>>
<1>3. PICK s \in envs : /\ s.id = envIndex[l]
                        /\ s.projectId = projectIndex[<<l[1], l[2]>>]
  BY <1>1, <1>2, NoneIsNoId DEF EnvsOK
<1>4. s = r
  BY <1>1, <1>3 DEF EnvsOK, Distinct
<1>5. <<l[1], l[2]>> = k
  BY DEF ProjectKeys
<1> QED
  BY <1>1, <1>2, <1>3, <1>4, <1>5, NoneIsNoId

\* Parents exist because names resolve.
LEMMA ParentsFollow ==
  ASSUME OrgsOK, ProjectsOK, EnvsOK
  PROVE  ParentsExist
<1>1. ASSUME NEW q \in projects
      PROVE  \E r \in orgs : r.id = q.orgId
  <2>1. PICK o \in OrgNames : q.orgId = orgIndex[o] /\ orgIndex[o] # None
    BY ProjectParent
  <2> QED
    BY <2>1 DEF OrgsOK
<1>2. ASSUME NEW r \in envs
      PROVE  \E q \in projects : q.id = r.projectId
  <2>1. PICK k \in ProjectKeys : r.projectId = projectIndex[k] /\ projectIndex[k] # None
    BY EnvParent
  <2> QED
    BY <2>1 DEF ProjectsOK
<1> QED
  BY <1>1, <1>2 DEF ParentsExist

-----------------------------------------------------------------------------
(* Organisations.                                                            *)

LEMMA CreateOrgStep ==
  ASSUME OrgsOK, ProjectsOK, EnvsOK, NEW o \in OrgNames, CreateOrg(o)
  PROVE  OrgsOK' /\ ProjectsOK' /\ EnvsOK'
<1> DEFINE i == Generated(lastOrg + 1)
           row == [id |-> i, name |-> o]
<1>1. /\ i \in Ids /\ i.id = lastOrg + 1 /\ lastOrg + 1 \in Nat
      /\ \A r \in orgs : r.id # i
  BY GeneratedIsNew DEF OrgsOK
<1>2. /\ orgs' = orgs \cup {row} /\ lastOrg' = lastOrg + 1
      /\ orgIndex' = [orgIndex EXCEPT ![o] = i] /\ orgIndex[o] = None
      /\ UNCHANGED <<projects, projectIndex, lastProject>>
      /\ UNCHANGED <<envs, envIndex, lastEnv>>
  BY DEF CreateOrg
<1>3. row.id = i /\ row.name = o /\ row \in [id : Ids, name : OrgNames]
  BY <1>1
<1> HIDE DEF i, row
<1>4. OrgsOK'
  <2>1. \A r \in orgs' : r.id.id <= lastOrg'
    BY <1>1, <1>2, <1>3 DEF OrgsOK, Ids
  <2>2. Distinct(orgs')
    BY <1>1, <1>2, <1>3 DEF OrgsOK, Distinct
  <2>3. \A x \in OrgNames : orgIndex'[x] # None =>
            \E r \in orgs' : r.id = orgIndex'[x] /\ r.name = x
    BY <1>2, <1>3 DEF OrgsOK
  <2>4. \A r \in orgs' : orgIndex'[r.name] = r.id
    BY <1>2, <1>3, NoneIsNoId DEF OrgsOK
  <2> QED
    BY <1>1, <1>2, <1>3, <2>1, <2>2, <2>3, <2>4 DEF OrgsOK
<1>5. ProjectsOK'
  <2>1. ASSUME NEW k \in ProjectKeys, projectIndex[k] # None
        PROVE  \E q \in projects : /\ q.id = projectIndex[k] /\ q.name = k[2]
                                   /\ q.orgId = orgIndex'[k[1]]
    <3>1. PICK q \in projects : /\ q.id = projectIndex[k] /\ q.name = k[2]
                                /\ q.orgId = orgIndex[k[1]]
      BY <2>1 DEF ProjectsOK
    <3>2. q.orgId \in Ids /\ k[1] \in OrgNames
      BY DEF ProjectsOK, ProjectKeys
    <3>3. k[1] # o
      BY <1>2, <3>1, <3>2, NoneIsNoId
    <3> QED
      BY <1>2, <3>1, <3>2, <3>3 DEF OrgsOK
  <2> QED
    BY <1>2, <2>1 DEF ProjectsOK
<1>6. EnvsOK'
  BY <1>2 DEF EnvsOK
<1> QED
  BY <1>4, <1>5, <1>6

LEMMA DeleteOrgStep ==
  ASSUME OrgsOK, ProjectsOK, EnvsOK, NEW o \in OrgNames, DeleteOrg(o)
  PROVE  OrgsOK' /\ ProjectsOK' /\ EnvsOK'
<1>1. /\ orgs' = {r \in orgs : r.id # orgIndex[o]} /\ lastOrg' = lastOrg
      /\ orgIndex' = [orgIndex EXCEPT ![o] = None]
      /\ ListProjects(o) = {}
      /\ \E r \in orgs : r.id = orgIndex[o]
      /\ UNCHANGED <<projects, projectIndex, lastProject>>
      /\ UNCHANGED <<envs, envIndex, lastEnv>>
  BY DEF DeleteOrg
<1>2. orgIndex[o] # None
  BY <1>1, NoneIsNoId DEF OrgsOK
<1>3. OrgsOK'
  <2>1. \A x \in OrgNames : orgIndex'[x] # None =>
            \E r \in orgs' : r.id = orgIndex'[x] /\ r.name = x
    <3> SUFFICES ASSUME NEW x \in OrgNames, orgIndex'[x] # None
                 PROVE  \E r \in orgs' : r.id = orgIndex'[x] /\ r.name = x
      OBVIOUS
    <3>1. x # o /\ orgIndex'[x] = orgIndex[x]
      BY <1>1 DEF OrgsOK
    <3>2. PICK r \in orgs : r.id = orgIndex[x] /\ r.name = x
      BY <3>1 DEF OrgsOK
    <3>3. orgIndex[x] # orgIndex[o]
      BY <3>1, <1>2, OrgIndexInjective
    <3> QED
      BY <1>1, <3>1, <3>2, <3>3
  <2>2. \A r \in orgs' : orgIndex'[r.name] = r.id
    BY <1>1 DEF OrgsOK
  <2> QED
    BY <1>1, <2>1, <2>2 DEF OrgsOK, Distinct
<1>4. ProjectsOK'
  <2>1. ASSUME NEW k \in ProjectKeys, projectIndex[k] # None
        PROVE  orgIndex'[k[1]] = orgIndex[k[1]]
    <3>1. PICK q \in projects : q.id = projectIndex[k]
      BY <2>1 DEF ProjectsOK
    <3>2. k[1] \in OrgNames /\ k[2] \in ProjectNames /\ k = <<k[1], k[2]>>
      BY DEF ProjectKeys
    <3>3. k[1] # o
      BY <1>1, <3>1, <3>2 DEF ListProjects
    <3> QED
      BY <1>1, <3>2, <3>3 DEF OrgsOK
  <2> QED
    BY <1>1, <2>1 DEF ProjectsOK
<1>5. EnvsOK'
  BY <1>1 DEF EnvsOK
<1> QED
  BY <1>3, <1>4, <1>5

-----------------------------------------------------------------------------
(* Projects.                                                                 *)

LEMMA CreateProjectStep ==
  ASSUME OrgsOK, ProjectsOK, EnvsOK, NEW o \in OrgNames, NEW p \in ProjectNames,
         CreateProject(o, p)
  PROVE  OrgsOK' /\ ProjectsOK' /\ EnvsOK'
<1> DEFINE i == Generated(lastProject + 1)
           row == [id |-> i, name |-> p, orgId |-> orgIndex[o]]
           key == <<o, p>>
<1>1. /\ i \in Ids /\ i.id = lastProject + 1 /\ lastProject + 1 \in Nat
      /\ \A q \in projects : q.id # i
  <2>1. lastProject \in Nat /\ \A q \in projects : q.id \in Ids /\ q.id.id <= lastProject
    BY DEF ProjectsOK
  <2> QED
    BY <2>1, GeneratedIsNew
<1>2. /\ projects' = projects \cup {row} /\ lastProject' = lastProject + 1
      /\ projectIndex' = [projectIndex EXCEPT ![key] = i]
      /\ projectIndex[key] = None
      /\ \E r \in orgs : r.id = orgIndex[o]
      /\ UNCHANGED <<orgs, orgIndex, lastOrg>>
      /\ UNCHANGED <<envs, envIndex, lastEnv>>
  BY DEF CreateProject
<1>3. orgIndex[o] \in Ids
  BY <1>2 DEF OrgsOK
<1>4. /\ row.id = i /\ row.name = p /\ row.orgId = orgIndex[o]
      /\ row \in [id : Ids, name : ProjectNames, orgId : Ids]
      /\ key \in ProjectKeys /\ key[1] = o /\ key[2] = p
  BY <1>1, <1>3 DEF ProjectKeys
<1>5. \A x \in OrgNames, y \in ProjectNames : <<x, y>> = key => x = o /\ y = p
  OBVIOUS
<1> HIDE DEF i, row
<1>6. OrgsOK'
  BY <1>2 DEF OrgsOK
<1>7. ProjectsOK'
  <2>1. \A q \in projects' : q.id.id <= lastProject'
    BY <1>1, <1>2, <1>4 DEF ProjectsOK, Ids
  <2>2. Distinct(projects')
    BY <1>1, <1>2, <1>4 DEF ProjectsOK, Distinct
  <2>3. \A k \in ProjectKeys : projectIndex'[k] # None =>
            \E q \in projects' : /\ q.id = projectIndex'[k] /\ q.name = k[2]
                                 /\ q.orgId = orgIndex'[k[1]]
    <3> SUFFICES ASSUME NEW k \in ProjectKeys, projectIndex'[k] # None
                 PROVE  \E q \in projects' :
                          /\ q.id = projectIndex'[k] /\ q.name = k[2]
                          /\ q.orgId = orgIndex'[k[1]]
      OBVIOUS
    <3>1. CASE k = key
      BY <1>2, <1>4, <3>1 DEF ProjectsOK
    <3>2. CASE k # key
      BY <1>2, <3>2 DEF ProjectsOK
    <3> QED
      BY <3>1, <3>2
  <2>4. \A q \in projects' : \E x \in OrgNames : projectIndex'[<<x, q.name>>] = q.id
    <3> SUFFICES ASSUME NEW q \in projects'
                 PROVE  \E x \in OrgNames : projectIndex'[<<x, q.name>>] = q.id
      OBVIOUS
    <3>1. CASE q = row
      <4>1. projectIndex'[key] = i
        BY <1>2, <1>4 DEF ProjectsOK
      <4> QED
        BY <1>4, <3>1, <4>1
    <3>2. CASE q \in projects
      <4>1. PICK x \in OrgNames : projectIndex[<<x, q.name>>] = q.id
        BY <3>2 DEF ProjectsOK
      <4>2. q.id # None /\ <<x, q.name>> \in ProjectKeys
        BY <3>2, NoneIsNoId DEF ProjectsOK, ProjectKeys
      <4>3. <<x, q.name>> # key
        BY <1>2, <4>1, <4>2
      <4> QED
        BY <1>2, <4>1, <4>2, <4>3 DEF ProjectsOK
    <3> QED
      BY <1>2, <3>1, <3>2
  <2> QED
    BY <1>1, <1>2, <1>4, <2>1, <2>2, <2>3, <2>4 DEF ProjectsOK
<1>8. EnvsOK'
  <2>1. ASSUME NEW k \in EnvKeys, envIndex[k] # None
        PROVE  \E r \in envs : /\ r.id = envIndex[k] /\ r.name = k[3]
                               /\ r.projectId = projectIndex'[<<k[1], k[2]>>]
    <3>1. PICK r \in envs : /\ r.id = envIndex[k] /\ r.name = k[3]
                            /\ r.projectId = projectIndex[<<k[1], k[2]>>]
      BY <2>1 DEF EnvsOK
    <3>2. r.projectId \in Ids /\ <<k[1], k[2]>> \in ProjectKeys
      BY DEF EnvsOK, EnvKeys, ProjectKeys
    <3>3. <<k[1], k[2]>> # key
      BY <1>2, <3>1, <3>2, NoneIsNoId
    <3> QED
      BY <1>2, <3>1, <3>2, <3>3 DEF ProjectsOK
  <2> QED
    BY <1>2, <2>1 DEF EnvsOK
<1> QED
  BY <1>6, <1>7, <1>8

LEMMA DeleteProjectStep ==
  ASSUME OrgsOK, ProjectsOK, EnvsOK, NEW o \in OrgNames, NEW p \in ProjectNames,
         DeleteProject(o, p)
  PROVE  OrgsOK' /\ ProjectsOK' /\ EnvsOK'
<1> DEFINE key == <<o, p>>
<1>1. /\ projects' = {q \in projects : q.id # projectIndex[key]}
      /\ lastProject' = lastProject
      /\ projectIndex' = [projectIndex EXCEPT ![key] = None]
      /\ ListEnvs(o, p) = {}
      /\ \E q \in projects : q.id = projectIndex[key]
      /\ UNCHANGED <<orgs, orgIndex, lastOrg>>
      /\ UNCHANGED <<envs, envIndex, lastEnv>>
  BY DEF DeleteProject
<1>2. projectIndex[key] # None
  BY <1>1, NoneIsNoId DEF ProjectsOK
<1>3. key \in ProjectKeys
  BY DEF ProjectKeys
<1>4. OrgsOK'
  BY <1>1 DEF OrgsOK
<1>5. ProjectsOK'
  <2>1. \A k \in ProjectKeys : projectIndex'[k] # None =>
            \E q \in projects' : /\ q.id = projectIndex'[k] /\ q.name = k[2]
                                 /\ q.orgId = orgIndex'[k[1]]
    <3> SUFFICES ASSUME NEW k \in ProjectKeys, projectIndex'[k] # None
                 PROVE  \E q \in projects' :
                          /\ q.id = projectIndex'[k] /\ q.name = k[2]
                          /\ q.orgId = orgIndex'[k[1]]
      OBVIOUS
    <3>1. k # key /\ projectIndex'[k] = projectIndex[k]
      BY <1>1 DEF ProjectsOK
    <3>2. projectIndex[k] # projectIndex[key]
      BY <1>2, <1>3, <3>1, ProjectIndexInjective
    <3> QED
      BY <1>1, <3>1, <3>2 DEF ProjectsOK
  <2>2. \A q \in projects' : \E x \in OrgNames : projectIndex'[<<x, q.name>>] = q.id
    <3> SUFFICES ASSUME NEW q \in projects, q.id # projectIndex[key]
                 PROVE  \E x \in OrgNames : projectIndex'[<<x, q.name>>] = q.id
      BY <1>1
    <3>1. PICK x \in OrgNames : projectIndex[<<x, q.name>>] = q.id
      BY DEF ProjectsOK
    <3>2. <<x, q.name>> \in ProjectKeys /\ <<x, q.name>> # key
      BY <3>1 DEF ProjectsOK, ProjectKeys
    <3> QED
      BY <1>1, <3>1, <3>2 DEF ProjectsOK
  <2> QED
    BY <1>1, <2>1, <2>2 DEF ProjectsOK, Distinct
<1>6. EnvsOK'
  <2>1. ASSUME NEW k \in EnvKeys, envIndex[k] # None
        PROVE  projectIndex'[<<k[1], k[2]>>] = projectIndex[<<k[1], k[2]>>]
    <3>1. PICK r \in envs : r.id = envIndex[k]
      BY <2>1 DEF EnvsOK
    <3>2. /\ k[3] \in EnvNames /\ k = <<k[1], k[2], k[3]>>
          /\ <<k[1], k[2]>> \in ProjectKeys
      BY DEF EnvKeys, ProjectKeys
    <3>3. ~(k[1] = o /\ k[2] = p)
      BY <1>1, <3>1, <3>2 DEF ListEnvs
    <3> QED
      BY <1>1, <3>2, <3>3 DEF ProjectsOK
  <2> QED
    BY ZenonT(60), <1>1, <2>1 DEF EnvsOK
<1> QED
  BY <1>4, <1>5, <1>6

-----------------------------------------------------------------------------
(* Environments.                                                             *)

LEMMA CreateEnvStep ==
  ASSUME ProjectsOK, EnvsOK, NEW o \in OrgNames, NEW p \in ProjectNames,
         NEW e \in EnvNames, NEW protected \in BOOLEAN, NEW expiry \in Expiries,
         CreateEnv(o, p, e, protected, expiry)
  PROVE  EnvsOK'
<1> DEFINE i == Generated(lastEnv + 1)
           row == [id |-> i, name |-> e, projectId |-> projectIndex[<<o, p>>],
                   protected |-> protected, expiry |-> expiry]
           key == <<o, p, e>>
<1>1. /\ i \in Ids /\ i.id = lastEnv + 1 /\ lastEnv + 1 \in Nat
      /\ \A r \in envs : r.id # i
  <2>1. lastEnv \in Nat /\ \A r \in envs : r.id \in Ids /\ r.id.id <= lastEnv
    BY DEF EnvsOK
  <2> QED
    BY <2>1, GeneratedIsNew
<1>2. /\ envs' = envs \cup {row} /\ lastEnv' = lastEnv + 1
      /\ envIndex' = [envIndex EXCEPT ![key] = i]
      /\ envIndex[key] = None
      /\ \E q \in projects : q.id = projectIndex[<<o, p>>]
      /\ UNCHANGED projectIndex
  BY DEF CreateEnv
<1>3. projectIndex[<<o, p>>] \in Ids
  BY <1>2 DEF ProjectsOK
<1>4. /\ row.id = i /\ row.name = e /\ row.projectId = projectIndex[<<o, p>>]
      /\ row \in [id : Ids, name : EnvNames, projectId : Ids,
                  protected : BOOLEAN, expiry : Expiries]
      /\ key \in EnvKeys /\ key[1] = o /\ key[2] = p /\ key[3] = e
  BY <1>1, <1>3 DEF EnvKeys
<1> HIDE DEF i, row
<1>5. \A r \in envs' : r.id.id <= lastEnv'
  <2>1. lastEnv \in Nat /\ \A r \in envs : r.id.id \in Nat /\ r.id.id <= lastEnv
    BY DEF EnvsOK, Ids
  <2> QED
    BY <1>1, <1>2, <1>4, <2>1
<1>6. Distinct(envs')
  BY <1>1, <1>2, <1>4 DEF EnvsOK, Distinct
<1>7. ASSUME NEW k \in EnvKeys, envIndex'[k] # None
      PROVE  \E r \in envs' : /\ r.id = envIndex'[k] /\ r.name = k[3]
                              /\ r.projectId = projectIndex'[<<k[1], k[2]>>]
  <2>1. CASE k = key
    <3>1. envIndex'[k] = i
      BY <1>2, <1>4, <2>1 DEF EnvsOK
    <3> QED
      BY <1>2, <1>4, <2>1, <3>1
  <2>2. CASE k # key
    <3>1. envIndex'[k] = envIndex[k]
      BY <1>2, <2>2 DEF EnvsOK
    <3>2. PICK r \in envs : /\ r.id = envIndex[k] /\ r.name = k[3]
                            /\ r.projectId = projectIndex[<<k[1], k[2]>>]
      BY <1>7, <3>1 DEF EnvsOK
    <3> QED
      BY <1>2, <3>1, <3>2
  <2> QED
    BY <2>1, <2>2
<1>8. ASSUME NEW r \in envs'
      PROVE  \E k \in ProjectKeys : envIndex'[<<k[1], k[2], r.name>>] = r.id
  <2>1. CASE r = row
    <3>1. envIndex'[key] = i
      BY <1>2, <1>4 DEF EnvsOK
    <3>2. <<o, p>> \in ProjectKeys /\ <<o, p>>[1] = o /\ <<o, p>>[2] = p
      BY DEF ProjectKeys
    <3> QED
      BY <1>4, <2>1, <3>1, <3>2
  <2>2. CASE r \in envs
    <3>1. PICK k \in ProjectKeys : envIndex[<<k[1], k[2], r.name>>] = r.id
      BY <2>2 DEF EnvsOK
    <3>2. r.id # None /\ <<k[1], k[2], r.name>> \in EnvKeys
      BY <2>2, NoneIsNoId DEF EnvsOK, EnvKeys, ProjectKeys
    <3>3. <<k[1], k[2], r.name>> # key
      BY <1>2, <3>1, <3>2
    <3>4. envIndex'[<<k[1], k[2], r.name>>] = envIndex[<<k[1], k[2], r.name>>]
      BY <1>2, <3>2, <3>3 DEF EnvsOK
    <3> QED
      BY <3>1, <3>4
  <2> QED
    BY <1>2, <2>1, <2>2
<1> QED
  BY <1>1, <1>2, <1>4, <1>5, <1>6, <1>7, <1>8 DEF EnvsOK

\* A row written back keeps its id, its name and its project.
LEMMA UpdateEnvStep ==
  ASSUME EnvsOK, NEW r \in envs, NEW c, UpdateEnv(r, c),
         c \in [id : Ids, name : EnvNames, projectId : Ids,
                protected : BOOLEAN, expiry : Expiries],
         c.id = r.id, c.name = r.name, c.projectId = r.projectId
  PROVE  EnvsOK'
<1>1. /\ envs' = (envs \ {r}) \cup {c}
      /\ UNCHANGED <<envIndex, projectIndex, lastEnv>>
  BY DEF UpdateEnv
<1>2. \A x \in envs' : x.id.id <= lastEnv'
  BY <1>1 DEF EnvsOK
<1>3. Distinct(envs')
  BY <1>1 DEF EnvsOK, Distinct
<1>4. ASSUME NEW k \in EnvKeys, envIndex'[k] # None
      PROVE  \E x \in envs' : /\ x.id = envIndex'[k] /\ x.name = k[3]
                              /\ x.projectId = projectIndex'[<<k[1], k[2]>>]
  <2>1. PICK x \in envs : /\ x.id = envIndex[k] /\ x.name = k[3]
                          /\ x.projectId = projectIndex[<<k[1], k[2]>>]
    BY <1>1, <1>4 DEF EnvsOK
  <2>2. CASE x = r
    BY <1>1, <2>1, <2>2
  <2>3. CASE x # r
    BY <1>1, <2>1, <2>3
  <2> QED
    BY <2>2, <2>3
<1>5. ASSUME NEW x \in envs'
      PROVE  \E k \in ProjectKeys : envIndex'[<<k[1], k[2], x.name>>] = x.id
  <2>1. PICK y \in envs : y.id = x.id /\ y.name = x.name
    BY <1>1
  <2>2. PICK k \in ProjectKeys : envIndex[<<k[1], k[2], y.name>>] = y.id
    BY DEF EnvsOK
  <2> QED
    BY <1>1, <2>1, <2>2
<1> QED
  BY <1>1, <1>2, <1>3, <1>4, <1>5 DEF EnvsOK

\* What ExtendEnv, ProtectEnv and Expire write.
LEMMA ChangedEnv ==
  ASSUME EnvsOK, NEW r \in envs, NEW b \in BOOLEAN, NEW x \in Expiries
  PROVE  LET c == [r EXCEPT !.protected = b]
             d == [r EXCEPT !.expiry = x]
         IN  /\ c \in [id : Ids, name : EnvNames, projectId : Ids,
                       protected : BOOLEAN, expiry : Expiries]
             /\ c.id = r.id /\ c.name = r.name /\ c.projectId = r.projectId
             /\ d \in [id : Ids, name : EnvNames, projectId : Ids,
                       protected : BOOLEAN, expiry : Expiries]
             /\ d.id = r.id /\ d.name = r.name /\ d.projectId = r.projectId
<1>1. r \in [id : Ids, name : EnvNames, projectId : Ids,
             protected : BOOLEAN, expiry : Expiries]
  BY DEF EnvsOK
<1> QED
  BY <1>1

LEMMA RemoveEnvStep ==
  ASSUME OrgsOK, ProjectsOK, EnvsOK, NEW k \in EnvKeys, RemoveEnv(k)
  PROVE  EnvsOK'
<1>1. /\ envs' = {r \in envs : r.id # envIndex[k]} /\ lastEnv' = lastEnv
      /\ envIndex' = [envIndex EXCEPT ![k] = None]
      /\ \E r \in envs : r.id = envIndex[k]
      /\ UNCHANGED projectIndex
  BY DEF RemoveEnv, EnvFor
<1>2. envIndex[k] # None
  BY <1>1, NoneIsNoId DEF EnvsOK
<1>3. ASSUME NEW l \in EnvKeys, envIndex'[l] # None
      PROVE  \E r \in envs' : /\ r.id = envIndex'[l] /\ r.name = l[3]
                              /\ r.projectId = projectIndex'[<<l[1], l[2]>>]
  <2>1. l # k /\ envIndex'[l] = envIndex[l]
    BY <1>1, <1>3 DEF EnvsOK
  <2>2. envIndex[l] # envIndex[k]
    BY <1>2, <2>1, EnvIndexInjective
  <2>3. PICK r \in envs : /\ r.id = envIndex[l] /\ r.name = l[3]
                          /\ r.projectId = projectIndex[<<l[1], l[2]>>]
    BY <1>3, <2>1 DEF EnvsOK
  <2> QED
    BY <1>1, <2>1, <2>2, <2>3
<1>4. ASSUME NEW r \in envs, r.id # envIndex[k]
      PROVE  \E l \in ProjectKeys : envIndex'[<<l[1], l[2], r.name>>] = r.id
  <2>1. PICK l \in ProjectKeys : envIndex[<<l[1], l[2], r.name>>] = r.id
    BY DEF EnvsOK
  <2>2. <<l[1], l[2], r.name>> \in EnvKeys /\ <<l[1], l[2], r.name>> # k
    BY <1>4, <2>1 DEF EnvsOK, EnvKeys, ProjectKeys
  <2>3. envIndex'[<<l[1], l[2], r.name>>] = envIndex[<<l[1], l[2], r.name>>]
    BY <1>1, <2>2 DEF EnvsOK
  <2> QED
    BY <2>1, <2>3
<1> QED
  BY SMTT(40), <1>1, <1>3, <1>4 DEF EnvsOK, Distinct

-----------------------------------------------------------------------------
(* VPCs and peerings.                                                        *)

\* A nonempty set of organisation names has a first one, in the order in
\* which get_vpc reads the index.
LEMMA FirstName ==
  ASSUME NEW S \in SUBSET Nat, S # {}
  PROVE  \E o \in S : \A x \in S : o <= x
<1> DEFINE Below(x) == {y \in S : y <= x}
           T == {Below(x) : x \in S}
<1>1. T \subseteq FiniteSubsetsOf(Nat)
  <2> SUFFICES ASSUME NEW x \in S
               PROVE  Below(x) \in FiniteSubsetsOf(Nat)
    OBVIOUS
  <2>1. Below(x) \in SUBSET Nat /\ \A y \in Below(x) : y <= x
    OBVIOUS
  <2>2. x \in Nat
    OBVIOUS
  <2> HIDE DEF Below
  <2>3. IsFiniteSet(Below(x))
    BY <2>1, <2>2, FS_BoundedSetOfNaturals
  <2> QED
    BY <2>1, <2>3 DEF FiniteSubsetsOf
<1>2. PICK B \in T : \A C \in T : ~ (<<C, B>> \in StrictSubsetOrdering(Nat))
  <2>1. T # {}
    OBVIOUS
  <2>2. IsWellFoundedOn(StrictSubsetOrdering(Nat), FiniteSubsetsOf(Nat))
    BY FS_StrictSubsetOrderingWellFounded
  <2> HIDE DEF T
  <2> QED
    BY <1>1, <2>1, <2>2, WFMin
<1>3. PICK o \in S : B = Below(o)
  OBVIOUS
<1>4. ASSUME NEW x \in S, ~(o <= x)
      PROVE  FALSE
  <2>1. o \in Nat /\ x \in Nat /\ \A z \in S : z \in Nat
    OBVIOUS
  <2>2. (\A z \in S : z <= x => z <= o) /\ o <= o
    BY <1>4, <2>1
  <2>3. Below(x) \subseteq Below(o) /\ o \in Below(o) /\ o \notin Below(x)
    BY <1>4, <2>2
  <2>4. <<Below(x), Below(o)>> \in StrictSubsetOrdering(Nat)
    BY <2>3 DEF StrictSubsetOrdering
  <2> QED
    BY <1>2, <1>3, <2>4
<1> QED
  BY <1>4

\* get_vpc returns a row that some scope indexes under the name it was asked for.
LEMMA VpcForIndexed ==
  ASSUME NEW name \in VpcNames, NEW v \in VpcFor(name)
  PROVE  /\ v \in vpcs
         /\ \E o \in OrgNames : /\ <<o, name>> \in VpcKeys
                                /\ vpcIndex[<<o, name>>] # None
                                /\ v.id = vpcIndex[<<o, name>>]
<1> DEFINE first == CHOOSE o \in ScopesOf(name) : \A x \in ScopesOf(name) : o <= x
<1>1. ScopesOf(name) # {} /\ v \in vpcs /\ v.id = vpcIndex[<<first, name>>]
  BY DEF VpcFor
<1>2. ScopesOf(name) \in SUBSET Nat
  BY TenancyAssumption DEF ScopesOf
<1>3. \E o \in ScopesOf(name) : \A x \in ScopesOf(name) : o <= x
  BY <1>1, <1>2, FirstName
<1>4. first \in ScopesOf(name)
  BY <1>3
<1>5. first \in OrgNames /\ vpcIndex[<<first, name>>] # None
  BY <1>4 DEF ScopesOf
<1> HIDE DEF first
<1> QED
  BY <1>1, <1>5 DEF VpcKeys

\* So the row carries that name, and its scope is the one that led to it.
LEMMA VpcForNamed ==
  ASSUME VpcsOK, NEW name \in VpcNames, NEW v \in VpcFor(name)
  PROVE  v \in vpcs /\ v.name = name
<1>1. PICK o \in OrgNames : /\ <<o, name>> \in VpcKeys
                            /\ vpcIndex[<<o, name>>] # None
                            /\ v.id = vpcIndex[<<o, name>>]
  BY VpcForIndexed
<1>2. v \in vpcs
  BY VpcForIndexed
<1>3. /\ <<Scope(v.owner), v.name>> \in VpcKeys
      /\ vpcIndex[<<Scope(v.owner), v.name>>] = v.id
  BY <1>2 DEF VpcsOK, VpcKeys
<1>4. <<Scope(v.owner), v.name>> = <<o, name>>
  BY <1>1, <1>3 DEF VpcsOK
<1> QED
  BY <1>2, <1>4

LEMMA OwnerScope ==
  ASSUME NEW w \in Owners
  PROVE  Scope(w) \in OrgNames
<1>1. CASE \E o \in OrgNames : w = OrgOwner(o)
  <2>1. PICK o \in OrgNames : w = OrgOwner(o)
    BY <1>1
  <2>2. w.kind = "org" /\ w.of.name = o
    BY <2>1 DEF OrgOwner
  <2> QED
    BY <2>2 DEF Scope
<1>2. CASE \E k \in ProjectKeys : w = ProjectOwner(k[1], k[2])
  <2>1. PICK k \in ProjectKeys : w = ProjectOwner(k[1], k[2])
    BY <1>2
  <2>2. w.kind = "project" /\ w.of.org = k[1] /\ k[1] \in OrgNames
    BY <2>1 DEF ProjectOwner, ProjectKeys
  <2> QED
    BY <2>2 DEF Scope
<1> QED
  BY <1>1, <1>2 DEF Owners

LEMMA AddVpcStep ==
  ASSUME VpcsOK, NEW name \in VpcNames, NEW cidr, NEW owner, NEW shared,
         Scope(owner) \in OrgNames, AddVpc(name, cidr, owner, shared)
  PROVE  VpcsOK'
<1> DEFINE row == [id |-> vni + 1, name |-> name, cidr |-> cidr,
                   owner |-> owner, shared |-> shared]
           key == <<Scope(owner), name>>
<1>1. /\ vpcs' = vpcs \cup {row} /\ vni' = vni + 1
      /\ vpcIndex' = [vpcIndex EXCEPT ![key] = vni + 1]
      /\ vpcIndex[key] = None
  BY DEF AddVpc
<1>2. row.id = vni + 1 /\ row.name = name /\ row.owner = owner
  OBVIOUS
<1>3. key \in VpcKeys /\ vni \in Nat /\ vni + 1 \in Nat
  BY DEF VpcsOK, VpcKeys
<1>4. \A v \in vpcs : v.id \in Nat /\ v.id <= vni /\ v.id # vni + 1
  BY <1>3 DEF VpcsOK
<1> HIDE DEF row
<1>5. vpcIndex' \in [VpcKeys -> Nat \cup {None}]
  BY <1>1, <1>3 DEF VpcsOK
<1>6. \A v \in vpcs' : /\ v.id \in Nat /\ v.id <= vni'
                       /\ v.name \in VpcNames /\ Scope(v.owner) \in OrgNames
  BY <1>1, <1>2, <1>3, <1>4 DEF VpcsOK
<1>7. Distinct(vpcs')
  BY <1>1, <1>2, <1>4 DEF VpcsOK, Distinct
<1>8. \A k \in VpcKeys : vpcIndex[k] # None => vpcIndex[k] # vni + 1
  BY <1>4 DEF VpcsOK
<1>9. /\ vpcIndex'[key] = vni + 1
      /\ \A k \in VpcKeys : k # key => vpcIndex'[k] = vpcIndex[k]
  BY <1>1, <1>3 DEF VpcsOK
<1>10. ASSUME NEW v \in vpcs'
       PROVE  vpcIndex'[<<Scope(v.owner), v.name>>] = v.id
  <2>1. CASE v = row
    BY <1>2, <1>9, <2>1
  <2>2. CASE v \in vpcs
    <3>1. /\ <<Scope(v.owner), v.name>> \in VpcKeys
          /\ vpcIndex[<<Scope(v.owner), v.name>>] = v.id
      BY <2>2 DEF VpcsOK, VpcKeys
    <3>2. <<Scope(v.owner), v.name>> # key
      BY <1>1, <1>4, <2>2, <3>1, NoneIsNoId
    <3> QED
      BY <1>9, <3>1, <3>2
  <2> QED
    BY <1>1, <2>1, <2>2
<1>11. \A k \in VpcKeys : vpcIndex'[k] # None => \E v \in vpcs' : v.id = vpcIndex'[k]
  BY <1>1, <1>2, <1>9 DEF VpcsOK
<1>12. \A k, l \in VpcKeys : vpcIndex'[k] # None /\ vpcIndex'[k] = vpcIndex'[l] => k = l
  BY <1>8, <1>9, <1>3, NoneIsNoId DEF VpcsOK
<1> QED
  BY <1>1, <1>3, <1>5, <1>6, <1>7, <1>10, <1>11, <1>12 DEF VpcsOK

LEMMA DeleteVpcStep ==
  ASSUME VpcsOK, PeersOK, NEW name \in VpcNames, DeleteVpc(name)
  PROVE  VpcsOK' /\ PeersOK'
<1>1. PICK v \in VpcFor(name) :
        /\ \A pair \in peerings : v.id \notin pair
        /\ vpcIndex' = [vpcIndex EXCEPT ![<<Scope(v.owner), name>>] = None]
        /\ vpcs' = vpcs \ {v}
        /\ UNCHANGED <<peerings, vni>>
  BY DEF DeleteVpc
<1>2. v \in vpcs /\ v.name = name
  BY VpcForNamed
<1> DEFINE key == <<Scope(v.owner), name>>
<1>3. key \in VpcKeys /\ vpcIndex[key] = v.id
  BY <1>2 DEF VpcsOK, VpcKeys
<1>4. vpcIndex'[key] = None /\ \A k \in VpcKeys : k # key => vpcIndex'[k] = vpcIndex[k]
  BY <1>1, <1>3 DEF VpcsOK
<1>5. vpcIndex' \in [VpcKeys -> Nat \cup {None}]
  BY <1>1 DEF VpcsOK
<1>6. ASSUME NEW w \in vpcs'
      PROVE  vpcIndex'[<<Scope(w.owner), w.name>>] = w.id
  <2>1. /\ <<Scope(w.owner), w.name>> \in VpcKeys
        /\ vpcIndex[<<Scope(w.owner), w.name>>] = w.id
    BY <1>1 DEF VpcsOK, VpcKeys
  <2>2. w.id # v.id
    BY <1>1, <1>2 DEF VpcsOK, Distinct
  <2>3. <<Scope(w.owner), w.name>> # key
    BY <1>3, <2>1, <2>2
  <2> QED
    BY <1>4, <2>1, <2>3
<1>7. ASSUME NEW k \in VpcKeys, vpcIndex'[k] # None
      PROVE  \E w \in vpcs' : w.id = vpcIndex'[k]
  <2>1. k # key /\ vpcIndex'[k] = vpcIndex[k]
    BY <1>4, <1>7
  <2>2. PICK w \in vpcs : w.id = vpcIndex[k]
    BY <1>7, <2>1 DEF VpcsOK
  <2>3. w # v
    BY <1>3, <1>7, <2>1, <2>2 DEF VpcsOK
  <2> QED
    BY <1>1, <2>1, <2>2, <2>3
<1>8. \A k, l \in VpcKeys : vpcIndex'[k] # None /\ vpcIndex'[k] = vpcIndex'[l] => k = l
  BY <1>4 DEF VpcsOK
<1>9. VpcsOK'
  BY <1>1, <1>5, <1>6, <1>7, <1>8 DEF VpcsOK, Distinct
<1>10. PeersOK'
  BY <1>1 DEF PeersOK
<1> QED
  BY <1>9, <1>10

LEMMA PeerVpcStep ==
  ASSUME VpcsOK, PeersOK, NEW a \in VpcNames, NEW b \in VpcNames, PeerVpc(a, b)
  PROVE  PeersOK'
<1>1. PICK v \in VpcFor(a), w \in VpcFor(b) : peerings' = peerings \cup {{v.id, w.id}}
  BY DEF PeerVpc
<1>2. a # b /\ vpcs' = vpcs
  BY DEF PeerVpc
<1>3. v \in vpcs /\ v.name = a /\ w \in vpcs /\ w.name = b
  BY VpcForNamed
<1>4. v.id # w.id
  BY <1>2, <1>3 DEF VpcsOK, Distinct
<1> QED
  BY <1>1, <1>2, <1>3, <1>4 DEF PeersOK

\* Two VPCs are at the ends of a peering.
LEMMA PeersCount ==
  ASSUME VpcsOK, PeersOK
  PROVE  PeeringsConnect
<1> SUFFICES ASSUME NEW pair \in peerings
             PROVE  Cardinality({v \in vpcs : v.id \in pair}) = 2
  BY DEF PeeringsConnect
<1>1. PICK v \in vpcs, w \in vpcs : v.id # w.id /\ pair = {v.id, w.id}
  BY DEF PeersOK
<1>2. {x \in vpcs : x.id \in pair} = {v} \cup {w}
  BY <1>1 DEF VpcsOK, Distinct
<1>3. w \notin {v}
  BY <1>1
<1>4. IsFiniteSet({v}) /\ Cardinality({v}) = 1
  BY FS_Singleton
<1>5. Cardinality({v} \cup {w}) = 2
  BY <1>3, <1>4, FS_AddElement
<1> QED
  BY <1>2, <1>5

-----------------------------------------------------------------------------
(* The whole store.                                                          *)

LEMMA TreeStill ==
  ASSUME OrgsOK, ProjectsOK, EnvsOK, UNCHANGED treeVars
  PROVE  OrgsOK' /\ ProjectsOK' /\ EnvsOK'
  BY DEF treeVars, OrgsOK, ProjectsOK, EnvsOK

LEMMA VpcsStill ==
  ASSUME VpcsOK, PeersOK, UNCHANGED <<vpcs, vpcIndex, vni>>, peerings' \subseteq peerings
  PROVE  VpcsOK' /\ PeersOK'
  BY DEF VpcsOK, PeersOK

\* Steps on environments leave the organisations and projects alone.
LEMMA UpperTreeStill ==
  ASSUME OrgsOK, ProjectsOK,
         UNCHANGED <<orgs, orgIndex, projects, projectIndex, lastOrg, lastProject>>
  PROVE  OrgsOK' /\ ProjectsOK'
  BY DEF OrgsOK, ProjectsOK

LEMMA TenancyStep ==
  ASSUME TenancyOK, TenancyNext
  PROVE  TenancyOK'
<1> USE DEF TenancyOK
<1>1. ASSUME NEW o \in OrgNames, CreateOrg(o) \/ DeleteOrg(o)
      PROVE  TenancyOK'
  BY <1>1, CreateOrgStep, DeleteOrgStep, VpcsStill DEF CreateOrg, DeleteOrg, vpcVars
<1>2. ASSUME NEW k \in ProjectKeys,
             CreateProject(k[1], k[2]) \/ DeleteProject(k[1], k[2])
      PROVE  TenancyOK'
  <2>1. k[1] \in OrgNames /\ k[2] \in ProjectNames
    BY DEF ProjectKeys
  <2> QED
    BY <1>2, <2>1, CreateProjectStep, DeleteProjectStep, VpcsStill
       DEF CreateProject, DeleteProject, vpcVars
<1>3. ASSUME NEW k \in EnvKeys, NEW protected \in BOOLEAN,
             NEW expiry \in {"never", "later"},
             CreateEnv(k[1], k[2], k[3], protected, expiry)
      PROVE  TenancyOK'
  <2>1. /\ k[1] \in OrgNames /\ k[2] \in ProjectNames /\ k[3] \in EnvNames
        /\ expiry \in Expiries
    BY DEF EnvKeys, Expiries
  <2>2. EnvsOK'
    BY <1>3, <2>1, CreateEnvStep
  <2> QED
    BY <1>3, <2>2, UpperTreeStill, VpcsStill DEF CreateEnv, vpcVars
<1>4. ASSUME NEW r \in envs, NEW c, UpdateEnv(r, c),
             c \in [id : Ids, name : EnvNames, projectId : Ids,
                    protected : BOOLEAN, expiry : Expiries],
             c.id = r.id, c.name = r.name, c.projectId = r.projectId
      PROVE  TenancyOK'
  <2>1. EnvsOK'
    BY <1>4, UpdateEnvStep
  <2> QED
    BY <1>4, <2>1, UpperTreeStill, VpcsStill DEF UpdateEnv, vpcVars
<1>5. ASSUME NEW r \in envs, NEW x \in Expiries, UpdateEnv(r, [r EXCEPT !.expiry = x])
      PROVE  TenancyOK'
  <2> DEFINE c == [r EXCEPT !.expiry = x]
  <2>1. /\ c \in [id : Ids, name : EnvNames, projectId : Ids,
                  protected : BOOLEAN, expiry : Expiries]
        /\ c.id = r.id /\ c.name = r.name /\ c.projectId = r.projectId
    BY ChangedEnv
  <2>2. UpdateEnv(r, c)
    BY <1>5
  <2> HIDE DEF c
  <2> QED
    BY <1>4, <2>1, <2>2
<1>6. ASSUME NEW r \in envs, NEW b \in BOOLEAN, UpdateEnv(r, [r EXCEPT !.protected = b])
      PROVE  TenancyOK'
  <2> DEFINE c == [r EXCEPT !.protected = b]
  <2>1. /\ c \in [id : Ids, name : EnvNames, projectId : Ids,
                  protected : BOOLEAN, expiry : Expiries]
        /\ c.id = r.id /\ c.name = r.name /\ c.projectId = r.projectId
    <3>1. "never" \in Expiries
      BY DEF Expiries
    <3> QED
      BY <3>1, ChangedEnv
  <2>2. UpdateEnv(r, c)
    BY <1>6
  <2> HIDE DEF c
  <2> QED
    BY <1>4, <2>1, <2>2
<1>7. ASSUME NEW k \in EnvKeys, RemoveEnv(k)
      PROVE  TenancyOK'
  <2>1. EnvsOK'
    BY <1>7, RemoveEnvStep
  <2> QED
    BY <1>7, <2>1, UpperTreeStill, VpcsStill DEF RemoveEnv, vpcVars
<1>8. CASE UNCHANGED <<treeVars, vpcVars>>
  BY <1>8, TreeStill, VpcsStill DEF vpcVars
<1>9. ASSUME NEW n \in VpcNames, NEW c \in VpcCidrs, NEW w \in Owners, CreateVpc(n, c, w)
      PROVE  TenancyOK'
  <2>1. VpcsOK'
    BY <1>9, OwnerScope, AddVpcStep DEF CreateVpc
  <2>2. PeersOK'
    BY <1>9 DEF CreateVpc, AddVpc, PeersOK
  <2> QED
    BY <1>9, <2>1, <2>2, TreeStill DEF CreateVpc
<1>10. ASSUME NEW n \in VpcNames, DeleteVpc(n)
       PROVE  TenancyOK'
  <2>1. UNCHANGED treeVars
    BY <1>10 DEF DeleteVpc
  <2> QED
    BY <1>10, <2>1, DeleteVpcStep, TreeStill
<1>11. ASSUME NEW n \in VpcNames, NEW p \in ProjectNames,
              AttachVpc(n, p) \/ DetachVpc(n, p)
       PROVE  TenancyOK'
  BY <1>11, TreeStill, VpcsStill DEF AttachVpc, DetachVpc
<1>12. ASSUME NEW a \in VpcNames, NEW b \in VpcNames, PeerVpc(a, b)
       PROVE  TenancyOK'
  <2>1. PeersOK'
    BY <1>12, PeerVpcStep
  <2>2. VpcsOK'
    BY <1>12 DEF PeerVpc, VpcsOK
  <2> QED
    BY <1>12, <2>1, <2>2, TreeStill DEF PeerVpc
<1>13. ASSUME NEW a \in VpcNames, NEW b \in VpcNames, UnpeerVpc(a, b)
       PROVE  TenancyOK'
  BY <1>13, TreeStill, VpcsStill DEF UnpeerVpc
<1>14. ASSUME NEW k \in EnvKeys, ExtendEnv(k)
       PROVE  TenancyOK'
  BY <1>5, <1>14 DEF ExtendEnv, EnvFor, Expiries
<1>15. ASSUME NEW k \in EnvKeys, NEW b \in BOOLEAN, ProtectEnv(k, b)
       PROVE  TenancyOK'
  BY <1>6, <1>15 DEF ProtectEnv, EnvFor
<1>16. ASSUME NEW r \in envs, Expire(r)
       PROVE  TenancyOK'
  BY <1>5, <1>16 DEF Expire, Expiries
<1>17. ASSUME NEW k \in EnvKeys, DeleteEnv(k) \/ SweepDestroy(k)
       PROVE  TenancyOK'
  BY <1>7, <1>8, <1>17 DEF DeleteEnv, SweepDestroy
<1>18. CASE SweepList
  BY <1>8, <1>18 DEF SweepList
<1> QED
  BY <1>1, <1>2, <1>3, <1>9, <1>10, <1>11, <1>12, <1>13, <1>14, <1>15, <1>16,
     <1>17, <1>18 DEF TenancyNext

LEMMA TenancyInvariant == TenancySpec => []TenancyOK
<1>1. TenancyInit => TenancyOK
  BY DEF TenancyInit, TenancyOK, OrgsOK, ProjectsOK, EnvsOK, VpcsOK, PeersOK, Distinct
<1>2. TenancyOK /\ [TenancyNext]_tenancyVars => TenancyOK'
  <2> SUFFICES ASSUME TenancyOK, [TenancyNext]_tenancyVars
               PROVE  TenancyOK'
    OBVIOUS
  <2>1. CASE UNCHANGED tenancyVars
    BY <2>1, TreeStill, VpcsStill DEF tenancyVars, vpcVars, TenancyOK
  <2> QED
    BY <2>1, TenancyStep
<1> QED
  BY <1>1, <1>2, PTL DEF TenancySpec

\* delete and delete_project look for children by name; no project outlives
\* its organisation and no environment its project, whatever was deleted and
\* made again under the same name.
THEOREM ParentsOutlive == TenancySpec => []ParentsExist
<1>1. TenancyOK => ParentsExist
  BY ParentsFollow DEF TenancyOK
<1> QED
  BY <1>1, TenancyInvariant, PTL

\* Names and rows stay in step through every create, update and delete: each
\* row is found under its name and each name leads to the row that carries it.
THEOREM NamesAndRowsAgree == TenancySpec => []NamesResolve
<1>1. TenancyOK => NamesResolve
  BY DEF TenancyOK, NamesResolve, OrgsOK, ProjectsOK, EnvsOK, VpcsOK
<1> QED
  BY <1>1, TenancyInvariant, PTL

\* Both ends of a peering exist and are different, although create_peering
\* finds its VPCs by name and delete_vpc its peerings by id.
THEOREM PeeringsJoinTwo == TenancySpec => []PeeringsConnect
<1>1. TenancyOK => PeeringsConnect
  BY PeersCount DEF TenancyOK
<1> QED
  BY <1>1, TenancyInvariant, PTL

\* delete_env reads the row again: an environment protected after a sweep
\* listed it survives that sweep, and every other step.
THEOREM ProtectedStays == TenancySpec => ProtectedSurvives
<1>1. ASSUME TenancyOK, TenancyNext, NEW r \in envs, r.protected
      PROVE  \E s \in envs' : s.id = r.id
  <2>1. CASE envs \subseteq envs'
    BY <2>1
  <2>2. ASSUME NEW x \in envs, NEW c, UpdateEnv(x, c), c.id = x.id
        PROVE  \E s \in envs' : s.id = r.id
    BY <2>2 DEF UpdateEnv
  <2>3. ASSUME NEW x \in envs, NEW e \in Expiries, UpdateEnv(x, [x EXCEPT !.expiry = e])
        PROVE  \E s \in envs' : s.id = r.id
    <3>1. [x EXCEPT !.expiry = e].id = x.id
      BY <1>1, ChangedEnv DEF TenancyOK
    <3> QED
      BY <2>2, <2>3, <3>1
  <2>4. ASSUME NEW x \in envs, NEW b \in BOOLEAN, UpdateEnv(x, [x EXCEPT !.protected = b])
        PROVE  \E s \in envs' : s.id = r.id
    <3>1. [x EXCEPT !.protected = b].id = x.id
      BY <1>1, ChangedEnv DEF TenancyOK, Expiries
    <3> QED
      BY <2>2, <2>4, <3>1
  <2>5. ASSUME NEW k \in EnvKeys, RemoveEnv(k)
        PROVE  \E s \in envs' : s.id = r.id
    <3>1. PICK x \in envs : x.id = envIndex[k] /\ ~x.protected
      BY <2>5 DEF RemoveEnv, EnvFor
    <3>2. r.id # envIndex[k]
      BY <1>1, <3>1 DEF TenancyOK, EnvsOK, Distinct
    <3> QED
      BY <2>5, <3>2 DEF RemoveEnv
  <2>6. ASSUME NEW k \in EnvKeys, ExtendEnv(k)
        PROVE  \E s \in envs' : s.id = r.id
    BY <2>3, <2>6 DEF ExtendEnv, EnvFor, Expiries
  <2>7. ASSUME NEW k \in EnvKeys, NEW b \in BOOLEAN, ProtectEnv(k, b)
        PROVE  \E s \in envs' : s.id = r.id
    BY <2>4, <2>7 DEF ProtectEnv, EnvFor
  <2>8. ASSUME NEW x \in envs, Expire(x)
        PROVE  \E s \in envs' : s.id = r.id
    BY <2>3, <2>8 DEF Expire, Expiries
  <2>9. ASSUME NEW k \in EnvKeys, DeleteEnv(k) \/ SweepDestroy(k)
        PROVE  \E s \in envs' : s.id = r.id
    BY <2>1, <2>5, <2>9 DEF DeleteEnv, SweepDestroy, treeVars
  <2>10. CASE \/ \E o \in OrgNames : CreateOrg(o) \/ DeleteOrg(o)
              \/ \E k \in ProjectKeys :
                    CreateProject(k[1], k[2]) \/ DeleteProject(k[1], k[2])
              \/ \E k \in EnvKeys : \E protected \in BOOLEAN, expiry \in {"never", "later"} :
                    CreateEnv(k[1], k[2], k[3], protected, expiry)
    BY <2>1, <2>10 DEF CreateOrg, DeleteOrg, CreateProject, DeleteProject, CreateEnv
  <2>11. CASE \/ SweepList
              \/ \E n \in VpcNames, c \in VpcCidrs, w \in Owners : CreateVpc(n, c, w)
              \/ \E n \in VpcNames : DeleteVpc(n)
              \/ \E n \in VpcNames, p \in ProjectNames : AttachVpc(n, p) \/ DetachVpc(n, p)
              \/ \E a, b \in VpcNames : PeerVpc(a, b) \/ UnpeerVpc(a, b)
    BY <2>1, <2>11 DEF SweepList, CreateVpc, DeleteVpc, AttachVpc, DetachVpc,
                       PeerVpc, UnpeerVpc, treeVars
  <2> QED
    BY <1>1, <2>6, <2>7, <2>8, <2>9, <2>10, <2>11 DEF TenancyNext
<1>2. TenancyOK /\ [TenancyNext]_tenancyVars =>
        [\A r \in envs : r.protected => \E s \in envs' : s.id = r.id]_tenancyVars
  BY <1>1
<1> QED
  BY <1>2, TenancyInvariant, PTL DEF TenancySpec, ProtectedSurvives

=============================================================================
