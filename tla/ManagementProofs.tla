-------------------------- MODULE ManagementProofs --------------------------
(* Proofs about the management API, for any number of requests at once and any *)
(* organizations, users, projects, sources and destinations.                   *)
EXTENDS Management, FiniteSetTheorems, TLAPS

RoutesOfProjects == WritingRoutes \ OrgOps

(* What a request carries from one step to the next, by the step that comes    *)
(* next.                                                                       *)
Admitted == [pc : WritingRoutes \cup {"projectInOrg", "setSecret"}, op : WritingRoutes,
             org : Org, actor : User, role : Roles, project : Project \cup {None}]
Loading == [pc : {"setSecret"}, org : Org, project : Project]
RoleUpdate == [pc : {"updateRole"}, org : Org, actor : User, target : User, given : Given]
MemberDeletion == [pc : {"deleteMember"}, org : Org, actor : User, target : User]
SeatCheck == [pc : {"checkSeats"}, org : Org, actor : User, target : User, seats : Nat, joined : BOOLEAN]
InvitationRow == [id : Nat, role : Given, expired : BOOLEAN]
Acceptance == [pc : {"acceptInvitation"}, org : Org, actor : User, read : InvitationRow]
ProjectInsertion == [pc : {"insertProject"}, org : Org, count : Nat]
EndpointInsertion == [pc : {"insertEndpoint"}, op : {"createSource", "createDestination"}, org : Org,
                      project : Project, count : Nat]
SourceWrite == [pc : {"writeSource"}, source : Source, key : Patch, config : Patch]
Connecting == [pc : {"connect"}, source : Source, destination : Destination]
PauseWrite == [pc : {"writePause"}, connection : Source \X Destination]

Calls ==
  {NoCall} \cup Admitted \cup Loading \cup RoleUpdate \cup MemberDeletion \cup SeatCheck \cup Acceptance
    \cup ProjectInsertion \cup EndpointInsertion \cup SourceWrite \cup Connecting \cup PauseWrite

SourceRow == [project : Project, key : BOOLEAN, config : BOOLEAN]
DestinationRow == [project : Project]

AccessTyped ==
  /\ plan \in [Org -> {"free", "team"}]
  /\ member \in [Org -> [User -> Roles \cup {None}]]
  /\ home \in [Project -> Org \cup {None}]
  /\ locked \in [Org -> Request \cup {None}]
MembersTyped == invitation \in [Org -> [User -> InvitationRow \cup {None}]] /\ invited \in Nat
ProjectsTyped ==
  /\ secret \in [Project -> Nat] /\ secrets \in Nat
  /\ gone \in SUBSET Project /\ legacy \in SUBSET Project /\ rotated \in SUBSET Project
  /\ used \in SUBSET (Project \X Nat)
EndpointsTyped ==
  /\ source \in [Source -> SourceRow \cup {None, Gone}]
  /\ destination \in [Destination -> DestinationRow \cup {None, Gone}]
  /\ connection \in [Source \X Destination -> {None, Gone, "running", "paused"}]

(* A request to the route of a project names one.                               *)
Named(l) ==
  /\ l.pc \in RoutesOfProjects \cup {"projectInOrg", "setSecret"} => l.project \in Project
  /\ l.pc = "projectInOrg" => l.op \in RoutesOfProjects
ProjectIsNamed == \A c \in Request : Named(call[c])

ManagementTyped ==
  call \in [Request -> Calls] /\ AccessTyped /\ MembersTyped /\ ProjectsTyped /\ EndpointsTyped /\ ProjectIsNamed

-----------------------------------------------------------------------------
(* The step a request is at tells what it carries.                             *)
LEMMA Shapes ==
  ASSUME NEW l \in Calls
  PROVE  /\ l.pc = "idle" => l = NoCall
         /\ l.pc \in WritingRoutes \cup {"projectInOrg"} => l \in Admitted
         /\ l.pc = "setSecret" => l \in Admitted \cup Loading
         /\ l.pc = "updateRole" => l \in RoleUpdate
         /\ l.pc = "deleteMember" => l \in MemberDeletion
         /\ l.pc = "checkSeats" => l \in SeatCheck
         /\ l.pc = "acceptInvitation" => l \in Acceptance
         /\ l.pc = "insertProject" => l \in ProjectInsertion
         /\ l.pc = "insertEndpoint" => l \in EndpointInsertion
         /\ l.pc = "writeSource" => l \in SourceWrite
         /\ l.pc = "connect" => l \in Connecting
         /\ l.pc = "writePause" => l \in PauseWrite
<1> DEFINE Pcs == WritingRoutes \cup {"projectInOrg", "setSecret"}
<1>1. /\ \A m \in Admitted : m.pc \in Pcs
      /\ \A m \in Loading : m.pc = "setSecret"
      /\ \A m \in RoleUpdate : m.pc = "updateRole"
      /\ \A m \in MemberDeletion : m.pc = "deleteMember"
      /\ \A m \in SeatCheck : m.pc = "checkSeats"
      /\ \A m \in Acceptance : m.pc = "acceptInvitation"
      /\ \A m \in ProjectInsertion : m.pc = "insertProject"
      /\ \A m \in EndpointInsertion : m.pc = "insertEndpoint"
      /\ \A m \in SourceWrite : m.pc = "writeSource"
      /\ \A m \in Connecting : m.pc = "connect"
      /\ \A m \in PauseWrite : m.pc = "writePause"
      /\ NoCall.pc = "idle"
  BY DEF Admitted, Loading, RoleUpdate, MemberDeletion, SeatCheck, Acceptance, ProjectInsertion,
         EndpointInsertion, SourceWrite, Connecting, PauseWrite, NoCall
<1> QED BY <1>1 DEF Calls, WritingRoutes

-----------------------------------------------------------------------------
(* A step is taken by one request, or it is the expiry of an invitation.        *)
StepOf(c) ==
  \/ \E op \in WritingRoutes : Enter(c, op)
  \/ ProjectInOrg(c) /\ UNCHANGED <<invitations, projects, endpoints>>
  \/ (MembersStep(c) \/ \E o \in Org, u \in User : FindByTokenHash(c, o, u)) /\ UNCHANGED <<projects, endpoints>>
  \/ ProjectsStep(c) /\ EndpointsGone({p \in Project : home[p] # None /\ home'[p] = None}) /\ UNCHANGED invitations
  \/ EndpointsStep(c) /\ UNCHANGED <<invitations, projects>>

LEMMA WhoSteps ==
  ASSUME ManagementNext(WritingRoutes)
  PROVE  \/ \E c \in Request : StepOf(c)
         \/ (\E o \in Org, u \in User : ExpireInvitation(o, u)) /\ UNCHANGED <<projects, endpoints>>
  BY DEF ManagementNext, MembersNext, ProjectsNext, EndpointsNext, StepOf

(* Members and users can be counted.                                           *)
LEMMA MembersAreFinite == \A o : IsFiniteSet(Members(o)) /\ Cardinality(Members(o)) \in Nat
<1> TAKE o
<1>1. Members(o) \in SUBSET User BY DEF Members
<1> QED BY <1>1, AccessAssumption, FS_Subset, FS_CardinalityType

LEMMA ProjectsAreFinite ==
  \A o : IsFiniteSet(ProjectsOf(o)) /\ Cardinality(ProjectsOf(o)) \in Nat /\ Cardinality(ProjectsOf(o)) <= Cardinality(Project)
<1> TAKE o
<1>1. ProjectsOf(o) \in SUBSET Project BY DEF ProjectsOf
<1> QED BY <1>1, AccessAssumption, FS_Subset, FS_CardinalityType

LEMMA EndpointsAreFinite ==
  \A p : /\ IsFiniteSet(Sources(p)) /\ Cardinality(Sources(p)) \in Nat
         /\ IsFiniteSet(Destinations(p)) /\ Cardinality(Destinations(p)) \in Nat
<1> TAKE p
<1>1. Sources(p) \in SUBSET Source /\ Destinations(p) \in SUBSET Destination BY DEF Sources, Destinations
<1> QED BY <1>1, EndpointsAssumption, FS_Subset, FS_CardinalityType

-----------------------------------------------------------------------------
(* The steps of a request, one kind at a time: it ends, goes on with what it     *)
(* carries, or to a step that carries something else.                           *)
LEMMA GoingOn ==
  ASSUME call \in [Request -> Calls], NEW c \in Request
  PROVE  /\ End(c) => call' \in [Request -> Calls] /\ call'[c] = NoCall
         /\ \A pc \in WritingRoutes \cup {"setSecret"} : call[c] \in Admitted /\ Goto(c, pc) =>
              /\ call' \in [Request -> Calls] /\ call'[c] \in Admitted /\ call'[c].pc = pc
              /\ \A f \in {"op", "org", "actor", "role", "project"} : call'[c][f] = call[c][f]
<1>1. End(c) => call' \in [Request -> Calls] /\ call'[c] = NoCall BY DEF End, Calls
<1>2. ASSUME NEW pc \in WritingRoutes \cup {"setSecret"}, call[c] \in Admitted, Goto(c, pc)
      PROVE  /\ call' \in [Request -> Calls] /\ call'[c] \in Admitted /\ call'[c].pc = pc
             /\ \A f \in {"op", "org", "actor", "role", "project"} : call'[c][f] = call[c][f]
  <2>1. [call[c] EXCEPT !.pc = pc] \in Admitted BY <1>2 DEF Admitted
  <2>2. call'[c] = [call[c] EXCEPT !.pc = pc] BY <1>2 DEF Goto
  <2>3. call' \in [Request -> Calls] BY <1>2, <2>1 DEF Goto, Calls
  <2> QED BY <1>2, <2>1, <2>2, <2>3 DEF Admitted
<1> QED BY <1>1, <1>2

(* Which route a request to a project asks for.                                *)
LEMMA RoutesSplit ==
  /\ OrgOps \cap WritingRoutes = {"changeRole", "removeMember", "invite", "cancelInvitation", "createProject"}
  /\ RoutesOfProjects = {"removeProject", "getSigningSecret", "rotateSigningSecret", "createSource", "updateSource",
        "removeSource", "createDestination", "removeDestination", "createConnection", "pause", "unpause",
        "removeConnection"}
<1>1. OrgOps = {"listMembers", "changeRole", "removeMember", "listInvitations", "invite", "cancelInvitation", "createProject"}
  BY DEF OrgOps, MemberRoutes, InvitationRoutes
<1> QED BY <1>1 DEF RoutesOfProjects, WritingRoutes

(* Where a request enters it is a member of the organization it names.          *)
LEMMA EnterTyping ==
  ASSUME ManagementTyped, NEW c \in Request, NEW op \in WritingRoutes, Enter(c, op)
  PROVE  /\ call' \in [Request -> Calls] /\ call'[c] \in Admitted
         /\ call'[c].pc \in (OrgOps \cap WritingRoutes) \cup {"projectInOrg"}
         /\ call'[c].pc = "projectInOrg" => call'[c].project \in Project /\ call'[c].op \in RoutesOfProjects
<1>0. call \in [Request -> Calls] /\ member \in [Org -> [User -> Roles \cup {None}]]
  BY DEF ManagementTyped, AccessTyped
<1>1. PICK o \in Org, u \in User :
        IF op \in OrgOps THEN Admit(c, o, u, op, None) ELSE \E p \in Project : Admit(c, o, u, op, p)
  BY DEF Enter
<1>2. PICK p \in Project \cup {None} : (op \in OrgOps <=> p = None) /\ Admit(c, o, u, op, p)
  BY <1>1, AccessAssumption
<1> DEFINE new == [pc |-> IF p = None THEN op ELSE "projectInOrg",
                   op |-> op, org |-> o, actor |-> u, role |-> member[o][u], project |-> p]
<1>3. call' = [call EXCEPT ![c] = new] /\ member[o][u] \in Roles
  BY <1>0, <1>2 DEF Admit, MayEnter
<1>4. new \in Admitted BY <1>3 DEF Admitted
<1>5. call' \in [Request -> Calls] /\ call'[c] = new BY <1>0, <1>3, <1>4 DEF Calls
<1>6. op # "projectInOrg" BY DEF WritingRoutes
<1>7. CASE op \in OrgOps BY <1>2, <1>4, <1>5, <1>6, <1>7
<1>8. CASE op \notin OrgOps BY <1>2, <1>4, <1>5, <1>8 DEF RoutesOfProjects
<1> QED BY <1>7, <1>8

LEMMA ProjectInOrgTyping ==
  ASSUME ManagementTyped, NEW c \in Request, ProjectInOrg(c)
  PROVE  \/ call' \in [Request -> Calls] /\ call'[c] = NoCall
         \/ /\ call' \in [Request -> Calls] /\ call'[c] \in Admitted
            /\ call'[c].pc \in RoutesOfProjects /\ call'[c].org = call[c].org /\ call'[c].actor = call[c].actor
            /\ call'[c].project = call[c].project /\ home[call[c].project] = call[c].org
<1>0. call \in [Request -> Calls] /\ call[c].pc = "projectInOrg" BY DEF ManagementTyped, ProjectInOrg, At
<1>1. call[c] \in Admitted BY <1>0, Shapes
<1>2. call[c].op \in RoutesOfProjects BY <1>0 DEF ManagementTyped, ProjectIsNamed, Named
<1>3. call[c].op \in WritingRoutes \cup {"setSecret"} BY <1>2 DEF RoutesOfProjects
<1>4. CASE End(c) BY <1>0, <1>4, GoingOn
<1>5. CASE home[call[c].project] = call[c].org /\ Goto(c, call[c].op)
  BY <1>0, <1>1, <1>2, <1>3, <1>5, GoingOn
<1> QED BY <1>4, <1>5 DEF ProjectInOrg

-----------------------------------------------------------------------------
(* Where a request is not at its end, it goes on by one of these steps, and no   *)
(* other request moves.                                                        *)
Advances(c) ==
  \/ (\E op \in WritingRoutes : Enter(c, op)) \/ ProjectInOrg(c) \/ GetSigningSecret(c) \/ CountProjects(c) \/ CountEndpoints(c)
  \/ \E u \in User : ChangeRole(c, u) \/ Remove(c, u) \/ CountMembers(c, u)
  \/ \E o \in Org, u \in User : FindByTokenHash(c, o, u)
  \/ \E p \in Project : LoadSecret(c, p)
  \/ \E t \in Source, k, g \in Patch : GetSource(c, t, k, g)
  \/ \E t \in Source, d \in Destination : FindEnds(c, t, d)
  \/ \E k \in Source \X Destination : FindRunning(c, k)

LEMMA MembersMoves ==
  ASSUME call \in [Request -> Calls], NEW c \in Request,
         MembersStep(c) \/ \E o \in Org, u \in User : FindByTokenHash(c, o, u)
  PROVE  /\ \A d \in Request \ {c} : call'[d] = call[d]
         /\ End(c) \/ Advances(c)
<1>1. CASE NothingToDo(c) \/ UpdateRole(c) \/ DeleteMember(c) \/ Invite(c) \/ AcceptInvitation(c)
           \/ \E o \in Org, u \in User : CancelInvitation(c, o, u)
  <2>1. End(c)
    BY <1>1 DEF NothingToDo, UpdateRole, DeleteMember, Invite, AcceptInvitation, CancelInvitation
  <2> QED BY <2>1 DEF End
<1>2. CASE \E u \in User : ChangeRole(c, u) \/ Remove(c, u) \/ CountMembers(c, u)
  BY <1>2 DEF ChangeRole, Remove, CountMembers, Advances
<1>3. CASE \E o \in Org, u \in User : FindByTokenHash(c, o, u)
  BY <1>3 DEF FindByTokenHash, Advances
<1> QED BY <1>1, <1>2, <1>3 DEF MembersStep

LEMMA ProjectsMoves ==
  ASSUME call \in [Request -> Calls], NEW c \in Request, ProjectsStep(c)
  PROVE  /\ \A d \in Request \ {c} : call'[d] = call[d]
         /\ End(c) \/ Advances(c)
<1>1. CASE RefuseProject(c) \/ RemoveProject(c) \/ SetSecret(c) \/ RotateSigningSecret(c) \/ \E p \in Project : InsertProject(c, p)
  <2>1. End(c)
    BY <1>1 DEF RefuseProject, RemoveProject, SetSecret, RotateSigningSecret, InsertProject
  <2> QED BY <2>1 DEF End
<1>2. CASE CountProjects(c) \/ \E p \in Project : LoadSecret(c, p)
  BY <1>2 DEF CountProjects, LoadSecret, Advances
<1>3. CASE GetSigningSecret(c)
  BY <1>3 DEF GetSigningSecret, Goto, End, Advances
<1> QED BY <1>1, <1>2, <1>3 DEF ProjectsStep

LEMMA EndpointsMoves ==
  ASSUME call \in [Request -> Calls], NEW c \in Request, EndpointsStep(c)
  PROVE  /\ \A d \in Request \ {c} : call'[d] = call[d]
         /\ End(c) \/ Advances(c)
<1>1. CASE InsertEndpoint(c) \/ RefuseEndpoint(c) \/ EndpointNotFound(c) \/ WriteSource(c) \/ Connect(c) \/ WritePause(c)
           \/ (\E t \in Source : RemoveSource(c, t)) \/ (\E d \in Destination : RemoveDestination(c, d))
           \/ \E k \in Source \X Destination : Unpause(c, k) \/ RemoveConnection(c, k)
  <2>1. End(c)
    BY <1>1 DEF InsertEndpoint, RefuseEndpoint, EndpointNotFound, WriteSource, Connect, WritePause, RemoveSource,
                RemoveDestination, Unpause, RemoveConnection
  <2> QED BY <2>1 DEF End
<1>2. CASE CountEndpoints(c) BY <1>2 DEF CountEndpoints, Advances
<1>3. ASSUME NEW t \in Source, NEW k \in Patch, NEW g \in Patch, GetSource(c, t, k, g)
      PROVE  (\A d \in Request \ {c} : call'[d] = call[d]) /\ Advances(c)
  BY <1>3 DEF GetSource, Advances
<1>4. ASSUME NEW t \in Source, NEW e \in Destination, FindEnds(c, t, e)
      PROVE  (\A d \in Request \ {c} : call'[d] = call[d]) /\ Advances(c)
  BY <1>4 DEF FindEnds, Advances
<1>5. ASSUME NEW k \in Source \X Destination, FindRunning(c, k)
      PROVE  (\A d \in Request \ {c} : call'[d] = call[d]) /\ Advances(c)
  BY <1>5 DEF FindRunning, Advances
<1> QED BY <1>1, <1>2, <1>3, <1>4, <1>5 DEF EndpointsStep

LEMMA Moves ==
  ASSUME call \in [Request -> Calls], NEW c \in Request, StepOf(c)
  PROVE  /\ \A d \in Request \ {c} : call'[d] = call[d]
         /\ End(c) \/ Advances(c)
<1>1. ASSUME NEW op \in WritingRoutes, Enter(c, op)
      PROVE  (\A d \in Request \ {c} : call'[d] = call[d]) /\ Advances(c)
  BY <1>1 DEF Enter, Admit, Advances
<1>2. CASE ProjectInOrg(c)
  BY <1>2 DEF ProjectInOrg, Goto, End, Advances
<1> QED BY <1>1, <1>2, MembersMoves, ProjectsMoves, EndpointsMoves DEF StepOf

-----------------------------------------------------------------------------
(* Who writes what.                                                            *)
WritesMember(c) == UpdateRole(c) \/ DeleteMember(c) \/ AcceptInvitation(c)
WritesInvitation(c) ==
  Invite(c) \/ AcceptInvitation(c) \/ \E o \in Org, u \in User : CancelInvitation(c, o, u)
WritesHome(c) == RemoveProject(c) \/ \E p \in Project : InsertProject(c, p)
WritesKeys(c) ==
  \/ GetSigningSecret(c) \/ SetSecret(c) \/ RotateSigningSecret(c)
  \/ \E p \in Project : InsertProject(c, p) \/ LoadSecret(c, p)
Locks(c) == CountProjects(c) \/ CountEndpoints(c) \/ \E u \in User : CountMembers(c, u)
Unlocks(c) ==
  \/ Invite(c) \/ RefuseProject(c) \/ InsertEndpoint(c) \/ RefuseEndpoint(c)
  \/ \E p \in Project : InsertProject(c, p)
WritesEndpoints(c) ==
  \/ InsertEndpoint(c) \/ WriteSource(c) \/ Connect(c) \/ WritePause(c)
  \/ (\E t \in Source : RemoveSource(c, t)) \/ (\E d \in Destination : RemoveDestination(c, d))
  \/ \E k \in Source \X Destination : Unpause(c, k) \/ RemoveConnection(c, k)
DropsEndpoints == EndpointsGone({p \in Project : home[p] # None /\ home'[p] = None})

Writers(c) ==
  /\ plan' = plan
  /\ member' = member \/ WritesMember(c)
  /\ UNCHANGED invitations \/ WritesInvitation(c)
  /\ UNCHANGED <<home, gone>> \/ (WritesHome(c) /\ DropsEndpoints)
  /\ locked' = locked \/ Locks(c) \/ Unlocks(c)
  /\ UNCHANGED keys \/ WritesKeys(c)
  /\ UNCHANGED endpoints \/ WritesEndpoints(c) \/ DropsEndpoints

LEMMA MembersWrite ==
  ASSUME NEW c \in Request, MembersStep(c) \/ \E o \in Org, u \in User : FindByTokenHash(c, o, u),
         UNCHANGED <<projects, endpoints>>
  PROVE  Writers(c)
<1> USE DEF Writers, access, invitations, projects, keys
<1>1. CASE NothingToDo(c) BY <1>1 DEF NothingToDo
<1>2. CASE UpdateRole(c) BY <1>2 DEF UpdateRole, WritesMember
<1>3. CASE DeleteMember(c) BY <1>3 DEF DeleteMember, WritesMember
<1>4. CASE Invite(c) BY <1>4 DEF Invite, WritesInvitation, Unlocks
<1>5. CASE AcceptInvitation(c) BY <1>5 DEF AcceptInvitation, WritesMember, WritesInvitation
<1>6. ASSUME NEW u \in User, ChangeRole(c, u) \/ Remove(c, u) PROVE Writers(c) BY <1>6 DEF ChangeRole, Remove
<1>7. ASSUME NEW u \in User, CountMembers(c, u) PROVE Writers(c) BY <1>7 DEF CountMembers, Locks
<1>8. ASSUME NEW o \in Org, NEW u \in User, CancelInvitation(c, o, u) PROVE Writers(c)
  BY <1>8 DEF CancelInvitation, WritesInvitation
<1>9. ASSUME NEW o \in Org, NEW u \in User, FindByTokenHash(c, o, u) PROVE Writers(c)
  BY <1>9 DEF FindByTokenHash
<1> QED BY <1>1, <1>2, <1>3, <1>4, <1>5, <1>6, <1>7, <1>8, <1>9 DEF MembersStep

LEMMA ProjectsWrite ==
  ASSUME NEW c \in Request, ProjectsStep(c), DropsEndpoints, UNCHANGED invitations
  PROVE  Writers(c)
<1> USE DEF Writers, access, invitations, projects, keys
<1>1. CASE CountProjects(c) BY <1>1 DEF CountProjects, Locks
<1>2. CASE RefuseProject(c) BY <1>2 DEF RefuseProject, Unlocks
<1>3. CASE RemoveProject(c) BY <1>3 DEF RemoveProject, WritesHome
<1>4. CASE GetSigningSecret(c) BY <1>4 DEF GetSigningSecret, WritesKeys
<1>5. CASE SetSecret(c) BY <1>5 DEF SetSecret, WritesKeys
<1>6. CASE RotateSigningSecret(c) BY <1>6 DEF RotateSigningSecret, WritesKeys
<1>7. ASSUME NEW p \in Project, InsertProject(c, p) PROVE Writers(c)
  BY <1>7 DEF InsertProject, WritesHome, WritesKeys, Unlocks
<1>8. ASSUME NEW p \in Project, LoadSecret(c, p) PROVE Writers(c) BY <1>8 DEF LoadSecret, WritesKeys
<1> QED BY <1>1, <1>2, <1>3, <1>4, <1>5, <1>6, <1>7, <1>8 DEF ProjectsStep

LEMMA EndpointsWrite ==
  ASSUME NEW c \in Request, EndpointsStep(c), UNCHANGED <<invitations, projects>>
  PROVE  Writers(c)
<1> USE DEF Writers, access, invitations, projects, keys, endpoints
<1>1. CASE CountEndpoints(c) BY <1>1 DEF CountEndpoints, Locks
<1>2. CASE InsertEndpoint(c) BY <1>2 DEF InsertEndpoint, Unlock, WritesEndpoints, Unlocks
<1>3. CASE RefuseEndpoint(c) BY <1>3 DEF RefuseEndpoint, Unlock, Unlocks
<1>4. CASE EndpointNotFound(c) BY <1>4 DEF EndpointNotFound
<1>5. CASE WriteSource(c) \/ Connect(c) \/ WritePause(c)
  <2>1. WritesEndpoints(c) BY <1>5 DEF WritesEndpoints
  <2>2. UNCHANGED access BY <1>5 DEF WriteSource, Connect, WritePause, SetConnection
  <2> QED BY <2>1, <2>2
<1>6. ASSUME NEW t \in Source, RemoveSource(c, t) PROVE Writers(c) BY <1>6 DEF RemoveSource, WritesEndpoints
<1>7. ASSUME NEW d \in Destination, RemoveDestination(c, d) PROVE Writers(c)
  BY <1>7 DEF RemoveDestination, WritesEndpoints
<1>8. ASSUME NEW k \in Source \X Destination, Unpause(c, k) \/ RemoveConnection(c, k) PROVE Writers(c)
  <2>1. WritesEndpoints(c) BY <1>8 DEF WritesEndpoints
  <2>2. UNCHANGED access BY <1>8 DEF Unpause, RemoveConnection, SetConnection
  <2> QED BY <2>1, <2>2
<1>9. ASSUME NEW t \in Source, NEW k \in Patch, NEW g \in Patch, GetSource(c, t, k, g) PROVE Writers(c)
  BY <1>9 DEF GetSource
<1>10. ASSUME NEW t \in Source, NEW d \in Destination, FindEnds(c, t, d) PROVE Writers(c) BY <1>10 DEF FindEnds
<1>11. ASSUME NEW k \in Source \X Destination, FindRunning(c, k) PROVE Writers(c) BY <1>11 DEF FindRunning
<1> QED BY <1>1, <1>2, <1>3, <1>4, <1>5, <1>6, <1>7, <1>8, <1>9, <1>10, <1>11 DEF EndpointsStep

LEMMA WhoWrites == ASSUME NEW c \in Request, StepOf(c) PROVE Writers(c)
<1>1. ASSUME NEW op \in WritingRoutes, Enter(c, op) PROVE Writers(c)
  BY <1>1 DEF Enter, Admit, Writers, access, invitations, projects
<1>2. CASE ProjectInOrg(c) /\ UNCHANGED <<invitations, projects, endpoints>>
  BY <1>2 DEF ProjectInOrg, Writers, access, invitations, projects
<1> QED BY <1>1, <1>2, MembersWrite, ProjectsWrite, EndpointsWrite DEF StepOf, DropsEndpoints

-----------------------------------------------------------------------------
(* By which step a request comes to where it is.                               *)
ArrivesBy(c) ==
  LET pc == call'[c].pc IN
  /\ pc = "updateRole" => \E u \in User : ChangeRole(c, u)
  /\ pc = "deleteMember" => \E u \in User : Remove(c, u)
  /\ pc = "checkSeats" => \E u \in User : CountMembers(c, u)
  /\ pc = "acceptInvitation" => \E o \in Org, u \in User : FindByTokenHash(c, o, u)
  /\ pc = "insertProject" => CountProjects(c)
  /\ pc = "insertEndpoint" => CountEndpoints(c)
  /\ pc = "setSecret" => GetSigningSecret(c) \/ \E p \in Project : LoadSecret(c, p)
  /\ pc = "connect" => \E t \in Source, d \in Destination : FindEnds(c, t, d)
  /\ pc \in RoutesOfProjects => ProjectInOrg(c)
  /\ pc \in OrgOps \cap WritingRoutes => \E op \in WritingRoutes : Enter(c, op)

Arrives(c) == call' \in [Request -> Calls] /\ Named(call'[c]) /\ ArrivesBy(c)

(* A request that begins to carry something else.                              *)
LEMMA Renewing ==
  ASSUME call \in [Request -> Calls], NEW c \in Request, NEW l \in Calls, call' = [call EXCEPT ![c] = l]
  PROVE  call' \in [Request -> Calls] /\ call'[c] = l
  OBVIOUS

LEMMA MembersArrive ==
  ASSUME ManagementTyped, NEW c \in Request, NEW u \in User,
         ChangeRole(c, u) \/ Remove(c, u) \/ CountMembers(c, u) \/ \E o \in Org : FindByTokenHash(c, o, u)
  PROVE  Arrives(c)
<1>0. /\ call \in [Request -> Calls] /\ member \in [Org -> [User -> Roles \cup {None}]]
      /\ invitation \in [Org -> [User -> InvitationRow \cup {None}]]
  BY DEF ManagementTyped, AccessTyped, MembersTyped
<1>1. CASE ChangeRole(c, u)
  <2>1. call[c] \in Admitted BY <1>0, <1>1, Shapes DEF ChangeRole, At, WritingRoutes
  <2>2. PICK r \in Given : call' = [call EXCEPT ![c] =
          [pc |-> "updateRole", org |-> call[c].org, actor |-> call[c].actor, target |-> u, given |-> r]]
    BY <1>1 DEF ChangeRole
  <2> DEFINE l == [pc |-> "updateRole", org |-> call[c].org, actor |-> call[c].actor, target |-> u, given |-> r]
  <2>3. l \in RoleUpdate BY <2>1 DEF RoleUpdate, Admitted
  <2>4. call' \in [Request -> Calls] /\ call'[c] = l BY <1>0, <2>2, <2>3, Renewing DEF Calls
  <2> QED BY <1>1, <2>4, RoutesSplit DEF Arrives, Named, ArrivesBy
<1>2. CASE Remove(c, u)
  <2>1. call[c] \in Admitted BY <1>0, <1>2, Shapes DEF Remove, At, WritingRoutes
  <2> DEFINE l == [pc |-> "deleteMember", org |-> call[c].org, actor |-> call[c].actor, target |-> u]
  <2>3. l \in MemberDeletion BY <2>1 DEF MemberDeletion, Admitted
  <2>4. call' \in [Request -> Calls] /\ call'[c] = l BY <1>0, <1>2, <2>3, Renewing DEF Calls, Remove
  <2> QED BY <1>2, <2>4, RoutesSplit DEF Arrives, Named, ArrivesBy
<1>3. CASE CountMembers(c, u)
  <2>1. call[c] \in Admitted BY <1>0, <1>3, Shapes DEF CountMembers, At, WritingRoutes
  <2> DEFINE l == [pc |-> "checkSeats", org |-> call[c].org, actor |-> call[c].actor, target |-> u,
                   seats |-> Cardinality(Members(call[c].org)), joined |-> member[call[c].org][u] # None]
  <2>3. l \in SeatCheck BY <2>1, MembersAreFinite DEF SeatCheck, Admitted
  <2>4. call' \in [Request -> Calls] /\ call'[c] = l BY <1>0, <1>3, <2>3, Renewing DEF Calls, CountMembers
  <2> QED BY <1>3, <2>4, RoutesSplit DEF Arrives, Named, ArrivesBy
<1>4. ASSUME NEW o \in Org, FindByTokenHash(c, o, u) PROVE Arrives(c)
  <2> DEFINE l == [pc |-> "acceptInvitation", org |-> o, actor |-> u, read |-> invitation[o][u]]
  <2>3. l \in Acceptance BY <1>0, <1>4 DEF Acceptance, FindByTokenHash
  <2>4. call' \in [Request -> Calls] /\ call'[c] = l BY <1>0, <1>4, <2>3, Renewing DEF Calls, FindByTokenHash
  <2> QED BY <1>4, <2>4, RoutesSplit DEF Arrives, Named, ArrivesBy
<1> QED BY <1>1, <1>2, <1>3, <1>4

LEMMA ProjectsArrive ==
  ASSUME ManagementTyped, NEW c \in Request, ~ End(c),
         CountProjects(c) \/ GetSigningSecret(c) \/ \E p \in Project : LoadSecret(c, p)
  PROVE  Arrives(c)
<1>0. call \in [Request -> Calls] /\ home \in [Project -> Org \cup {None}] /\ ProjectIsNamed
  BY DEF ManagementTyped, AccessTyped
<1>1. CASE CountProjects(c)
  <2>1. call[c] \in Admitted BY <1>0, <1>1, Shapes DEF CountProjects, At, WritingRoutes
  <2> DEFINE l == [pc |-> "insertProject", org |-> call[c].org, count |-> Cardinality(ProjectsOf(call[c].org))]
  <2>3. l \in ProjectInsertion BY <2>1, ProjectsAreFinite DEF ProjectInsertion, Admitted
  <2>4. call' \in [Request -> Calls] /\ call'[c] = l BY <1>0, <1>1, <2>3, Renewing DEF Calls, CountProjects
  <2> QED BY <1>1, <2>4, RoutesSplit DEF Arrives, Named, ArrivesBy
<1>2. CASE GetSigningSecret(c)
  <2>1. call[c].pc = "getSigningSecret" BY <1>2 DEF GetSigningSecret, At
  <2>2. call[c] \in Admitted BY <1>0, <2>1, Shapes DEF WritingRoutes
  <2>3. call[c].project \in Project BY <1>0, <2>1, RoutesSplit DEF ProjectIsNamed, Named
  <2>4. Goto(c, "setSecret") BY <1>2 DEF GetSigningSecret
  <2>5. call' \in [Request -> Calls] /\ call'[c].pc = "setSecret" /\ call'[c].project = call[c].project
    BY <1>0, <2>2, <2>4, GoingOn
  <2> QED BY <1>2, <2>3, <2>5, RoutesSplit DEF Arrives, Named, ArrivesBy
<1>3. ASSUME NEW p \in Project, LoadSecret(c, p) PROVE Arrives(c)
  <2> DEFINE l == [pc |-> "setSecret", org |-> home[p], project |-> p]
  <2>1. CASE UNCHANGED call
    <3>1. call[c].pc = "idle" BY <1>3 DEF LoadSecret, At
    <3> QED BY <1>0, <2>1, <3>1, RoutesSplit DEF Arrives, Named, ArrivesBy
  <2>2. CASE call' = [call EXCEPT ![c] = l]
    <3>1. l \in Loading BY <1>0, <1>3 DEF Loading, LoadSecret
    <3>2. call' \in [Request -> Calls] /\ call'[c] = l BY <1>0, <2>2, <3>1, Renewing DEF Calls
    <3> QED BY <1>3, <3>2, RoutesSplit DEF Arrives, Named, ArrivesBy
  <2> QED BY <1>3, <2>1, <2>2 DEF LoadSecret
<1> QED BY <1>1, <1>2, <1>3

LEMMA EndpointsArrive ==
  ASSUME ManagementTyped, NEW c \in Request,
         \/ CountEndpoints(c)
         \/ \E t \in Source, k, g \in Patch : GetSource(c, t, k, g)
         \/ \E t \in Source, d \in Destination : FindEnds(c, t, d)
         \/ \E k \in Source \X Destination : FindRunning(c, k)
  PROVE  Arrives(c)
<1>0. call \in [Request -> Calls] /\ ProjectIsNamed BY DEF ManagementTyped
<1>1. CASE CountEndpoints(c)
  <2> DEFINE l == [pc |-> "insertEndpoint", op |-> call[c].pc, org |-> call[c].org, project |-> call[c].project,
                   count |-> Count(call[c].pc, call[c].project)]
  <2>1. call[c].pc \in {"createSource", "createDestination"} BY <1>1 DEF CountEndpoints
  <2>2. call[c] \in Admitted BY <1>0, <2>1, Shapes DEF WritingRoutes
  <2>3. call[c].project \in Project BY <1>0, <2>1, RoutesSplit DEF ProjectIsNamed, Named
  <2>4. l \in EndpointInsertion BY <2>1, <2>2, <2>3, EndpointsAreFinite DEF EndpointInsertion, Admitted, Count
  <2>5. call' \in [Request -> Calls] /\ call'[c] = l BY <1>0, <1>1, <2>4, Renewing DEF Calls, CountEndpoints
  <2> QED BY <1>1, <2>5, RoutesSplit DEF Arrives, Named, ArrivesBy
<1>2. ASSUME NEW t \in Source, NEW k \in Patch, NEW g \in Patch, GetSource(c, t, k, g) PROVE Arrives(c)
  <2> DEFINE l == [pc |-> "writeSource", source |-> t, key |-> k, config |-> g]
  <2>1. l \in SourceWrite BY DEF SourceWrite
  <2>2. call' \in [Request -> Calls] /\ call'[c] = l BY <1>0, <1>2, <2>1, Renewing DEF Calls, GetSource
  <2> QED BY <2>2, RoutesSplit DEF Arrives, Named, ArrivesBy
<1>3. ASSUME NEW t \in Source, NEW d \in Destination, FindEnds(c, t, d) PROVE Arrives(c)
  <2> DEFINE l == [pc |-> "connect", source |-> t, destination |-> d]
  <2>1. l \in Connecting BY DEF Connecting
  <2>2. call' \in [Request -> Calls] /\ call'[c] = l BY <1>0, <1>3, <2>1, Renewing DEF Calls, FindEnds
  <2> QED BY <1>3, <2>2, RoutesSplit DEF Arrives, Named, ArrivesBy
<1>4. ASSUME NEW k \in Source \X Destination, FindRunning(c, k) PROVE Arrives(c)
  <2> DEFINE l == [pc |-> "writePause", connection |-> k]
  <2>1. l \in PauseWrite BY DEF PauseWrite
  <2>2. call' \in [Request -> Calls] /\ call'[c] = l BY <1>0, <1>4, <2>1, Renewing DEF Calls, FindRunning
  <2> QED BY <2>2, RoutesSplit DEF Arrives, Named, ArrivesBy
<1> QED BY <1>1, <1>2, <1>3, <1>4

(* A request that takes a step is at the end, or it came to where it is by the  *)
(* step that leads there.                                                      *)
LEMMA Arriving ==
  ASSUME ManagementTyped, NEW c \in Request, StepOf(c)
  PROVE  Arrives(c)
<1>0. call \in [Request -> Calls] BY DEF ManagementTyped
<1>1. CASE End(c)
  <2>1. call' \in [Request -> Calls] /\ call'[c].pc = "idle" BY <1>0, <1>1, GoingOn DEF NoCall
  <2> QED BY <2>1, RoutesSplit DEF Arrives, Named, ArrivesBy
<1>2. ASSUME NEW op \in WritingRoutes, Enter(c, op) PROVE Arrives(c)
  <2>1. /\ call' \in [Request -> Calls]
        /\ call'[c].pc \in (OrgOps \cap WritingRoutes) \cup {"projectInOrg"}
        /\ call'[c].pc = "projectInOrg" => call'[c].project \in Project /\ call'[c].op \in RoutesOfProjects
    BY <1>2, EnterTyping
  <2> QED BY <1>2, <2>1, RoutesSplit DEF Arrives, Named, ArrivesBy
<1>3. CASE ProjectInOrg(c) /\ ~ End(c)
  <2>1. call[c].project \in Project BY <1>3 DEF ManagementTyped, ProjectIsNamed, Named, ProjectInOrg, At
  <2>2. Goto(c, call[c].op) /\ call[c] \in Admitted BY <1>0, <1>3, Shapes DEF ProjectInOrg, At
  <2>3. call'[c].pc \in WritingRoutes BY <1>0, <2>2, GoingOn DEF Admitted
  <2>4. call'[c] # NoCall BY <2>3 DEF NoCall, WritingRoutes
  <2> QED BY <1>3, <2>1, ProjectInOrgTyping, RoutesSplit DEF Arrives, Named, ArrivesBy, NoCall
<1> QED BY <1>0, <1>1, <1>2, <1>3, Moves, MembersArrive, ProjectsArrive, EndpointsArrive DEF Advances

(* So requests keep their form.                                                *)
LEMMA CallsTyping ==
  ASSUME ManagementTyped, ManagementNext(WritingRoutes)
  PROVE  call' \in [Request -> Calls] /\ ProjectIsNamed'
<1>0. call \in [Request -> Calls] /\ ProjectIsNamed BY DEF ManagementTyped
<1>1. ASSUME NEW c \in Request, StepOf(c) PROVE call' \in [Request -> Calls] /\ ProjectIsNamed'
  BY <1>0, <1>1, Moves, Arriving DEF ProjectIsNamed, Arrives, Named
<1>2. CASE \E o \in Org, u \in User : ExpireInvitation(o, u)
  BY <1>0, <1>2 DEF ExpireInvitation, ProjectIsNamed, Named
<1> QED BY <1>1, <1>2, WhoSteps

-----------------------------------------------------------------------------
(* What the steps write keeps its type.                                        *)
LEMMA MemberTyping ==
  ASSUME ManagementTyped, NEW c \in Request, WritesMember(c)
  PROVE  member' \in [Org -> [User -> Roles \cup {None}]]
<1>0. call[c] \in Calls /\ member \in [Org -> [User -> Roles \cup {None}]] BY DEF ManagementTyped, AccessTyped
<1>1. CASE UpdateRole(c)
  <2>1. call[c] \in RoleUpdate BY <1>0, <1>1, Shapes DEF UpdateRole, At
  <2>2. call[c].given \in Roles BY <2>1 DEF RoleUpdate, Given, Roles
  <2> QED BY <1>0, <1>1, <2>2 DEF UpdateRole
<1>2. CASE DeleteMember(c) BY <1>0, <1>2 DEF DeleteMember
<1>3. CASE AcceptInvitation(c)
  <2>1. call[c] \in Acceptance BY <1>0, <1>3, Shapes DEF AcceptInvitation, At
  <2>2. call[c].read.role \in Roles BY <2>1 DEF Acceptance, InvitationRow, Given, Roles
  <2>3. CASE member' = [member EXCEPT ![call[c].org][call[c].actor] =
                         Joins(member[call[c].org][call[c].actor], call[c].read.role)]
    <3>1. call[c].org \in Org /\ call[c].actor \in User BY <2>1 DEF Acceptance
    <3>2. Joins(member[call[c].org][call[c].actor], call[c].read.role) \in Roles \cup {None}
      BY <1>0, <2>2, <3>1 DEF Joins
    <3> QED BY <1>0, <2>3, <3>2
  <2> QED BY <1>0, <1>3, <2>3 DEF AcceptInvitation
<1> QED BY <1>1, <1>2, <1>3 DEF WritesMember

LEMMA InvitationTyping ==
  ASSUME ManagementTyped, NEW c \in Request, WritesInvitation(c)
  PROVE  MembersTyped'
<1>0. call[c] \in Calls /\ invitation \in [Org -> [User -> InvitationRow \cup {None}]] /\ invited \in Nat
  BY DEF ManagementTyped, MembersTyped
<1>1. CASE Invite(c)
  <2>1. call[c] \in SeatCheck BY <1>0, <1>1, Shapes DEF Invite, At
  <2> DEFINE o == call[c].org
             u == call[c].target
  <2>2. o \in Org /\ u \in User BY <2>1 DEF SeatCheck
  <2>3. ASSUME NEW r \in Given, invitation' = [invitation EXCEPT ![o][u] = Renewed(invitation[o][u], r)],
               invited' = IF invitation[o][u] = None THEN invited + 1 ELSE invited
        PROVE  MembersTyped'
    <3>1. Renewed(invitation[o][u], r) \in InvitationRow
      BY <1>0, <2>2 DEF Renewed, NewInvitation, InvitationRow
    <3> QED BY <1>0, <2>2, <2>3, <3>1 DEF MembersTyped
  <2>4. CASE UNCHANGED invitations BY <1>0, <2>4 DEF invitations, MembersTyped
  <2> QED BY <1>1, <2>3, <2>4 DEF Invite
<1>2. CASE AcceptInvitation(c) BY <1>0, <1>2 DEF AcceptInvitation, MembersTyped
<1>3. CASE \E o \in Org, u \in User : CancelInvitation(c, o, u) BY <1>0, <1>3 DEF CancelInvitation, MembersTyped
<1> QED BY <1>1, <1>2, <1>3 DEF WritesInvitation

LEMMA HomeTyping ==
  ASSUME ManagementTyped, NEW c \in Request, WritesHome(c)
  PROVE  home' \in [Project -> Org \cup {None}] /\ gone' \in SUBSET Project
<1>0. /\ call[c] \in Calls /\ home \in [Project -> Org \cup {None}] /\ gone \in SUBSET Project
      /\ Named(call[c])
  BY DEF ManagementTyped, AccessTyped, ProjectsTyped, ProjectIsNamed
<1>1. CASE RemoveProject(c)
  <2>1. call[c].project \in Project BY <1>0, <1>1, RoutesSplit DEF RemoveProject, At, Named
  <2> QED BY <1>0, <1>1, <2>1 DEF RemoveProject
<1>2. ASSUME NEW p \in Project, InsertProject(c, p) PROVE home' \in [Project -> Org \cup {None}] /\ gone' = gone
  <2>1. call[c] \in ProjectInsertion BY <1>0, <1>2, Shapes DEF InsertProject, At
  <2> QED BY <1>0, <1>2, <2>1 DEF InsertProject, ProjectInsertion
<1> QED BY <1>0, <1>1, <1>2 DEF WritesHome

LEMMA LockTyping ==
  ASSUME ManagementTyped, NEW c \in Request, Locks(c) \/ Unlocks(c)
  PROVE  locked' \in [Org -> Request \cup {None}]
<1>0. locked \in [Org -> Request \cup {None}] BY DEF ManagementTyped, AccessTyped
<1>1. Locks(c) => locked' = [locked EXCEPT ![call[c].org] = c]
  BY DEF Locks, CountProjects, CountEndpoints, CountMembers
<1>2. Unlocks(c) => locked' = [locked EXCEPT ![call[c].org] = None]
  BY DEF Unlocks, Invite, RefuseProject, InsertEndpoint, RefuseEndpoint, Unlock, InsertProject
<1> QED BY <1>0, <1>1, <1>2

LEMMA KeysTyping ==
  ASSUME ManagementTyped, NEW c \in Request, WritesKeys(c)
  PROVE  /\ secret' \in [Project -> Nat] /\ secrets' \in Nat /\ legacy' \in SUBSET Project
         /\ rotated' \in SUBSET Project /\ used' \in SUBSET (Project \X Nat)
<1> DEFINE Typed == /\ secret \in [Project -> Nat] /\ secrets \in Nat /\ legacy \in SUBSET Project
                    /\ rotated \in SUBSET Project /\ used \in SUBSET (Project \X Nat)
<1>0. call[c] \in Calls /\ Typed /\ Named(call[c]) BY DEF ManagementTyped, ProjectsTyped, ProjectIsNamed
<1>1. ASSUME NEW p \in Project, Use(p) PROVE Typed' BY <1>0, <1>1 DEF Use
<1>2. ASSUME NEW p \in Project, MakeSecret(p), rotated' \in SUBSET Project PROVE Typed'
  BY <1>0, <1>2 DEF MakeSecret
<1>3. CASE UNCHANGED keys BY <1>0, <1>3 DEF keys
<1>4. CASE GetSigningSecret(c)
  <2>1. call[c].project \in Project BY <1>0, <1>4, RoutesSplit DEF GetSigningSecret, At, Named
  <2> QED BY <1>1, <1>3, <1>4, <2>1 DEF GetSigningSecret
<1>5. CASE SetSecret(c)
  <2>1. call[c].project \in Project BY <1>0, <1>5 DEF SetSecret, At, Named
  <2> QED BY <1>0, <1>2, <1>3, <1>5, <2>1 DEF SetSecret
<1>6. CASE RotateSigningSecret(c)
  <2>1. call[c].project \in Project BY <1>0, <1>6, RoutesSplit DEF RotateSigningSecret, At, Named
  <2>2. CASE MakeSecret(call[c].project) /\ rotated' = rotated \cup {call[c].project}
    BY <1>0, <1>2, <2>1, <2>2
  <2> QED BY <1>3, <1>6, <2>2 DEF RotateSigningSecret
<1>7. ASSUME NEW p \in Project, InsertProject(c, p) PROVE Typed' BY <1>0, <1>7 DEF InsertProject, FirstSecret
<1>8. ASSUME NEW p \in Project, LoadSecret(c, p) PROVE Typed' BY <1>1, <1>3, <1>8 DEF LoadSecret
<1> QED BY <1>4, <1>5, <1>6, <1>7, <1>8 DEF WritesKeys

(* The rows of endpoints and connections differ from the marks for none.        *)
LEMMA RowsAreThere ==
  /\ \A row \in SourceRow \cup DestinationRow \cup {"running", "paused"} : There(row)
  /\ ~ There(None) /\ ~ There(Gone)
BY EndpointsAssumption DEF SourceRow, DestinationRow, There

(* A source is patched as a whole, or not at all.                              *)
Whole(row) == There(row) /\ row.key = row.config
Patches(old, new) == There(old) /\ Whole(new) /\ new \in SourceRow /\ new.project = old.project

LEMMA WriteMoves ==
  ASSUME ManagementTyped, NEW c \in Request, WriteSource(c)
  PROVE  /\ UNCHANGED <<destination, connection>>
         /\ \/ source' = source
            \/ \E t \in Source, row \in SourceRow : Patches(source[t], row) /\ source' = [source EXCEPT ![t] = row]
<1>0. call[c] \in Calls /\ source \in [Source -> SourceRow \cup {None, Gone}]
  BY DEF ManagementTyped, EndpointsTyped
<1>1. call[c] \in SourceWrite BY <1>0, Shapes DEF WriteSource, At
<1> DEFINE t == call[c].source
           new == [source[t] EXCEPT !.key = Patched(@, call[c].key), !.config = Patched(@, call[c].config)]
<1>2. t \in Source BY <1>1 DEF SourceWrite
<1>3. CASE There(source[t]) /\ CheckHolds(new)
  <2>1. source[t] \in SourceRow BY <1>0, <1>2, <1>3 DEF There
  <2>2. Patched(source[t].key, call[c].key) \in BOOLEAN /\ Patched(source[t].config, call[c].config) \in BOOLEAN
    BY <2>1 DEF Patched, SourceRow
  <2>3. new \in SourceRow /\ new.project = source[t].project BY <2>1, <2>2 DEF SourceRow
  <2>4. Patches(source[t], new) BY <1>3, <2>3, RowsAreThere DEF Patches, Whole, CheckHolds
  <2>5. source' = [source EXCEPT ![t] = new] BY <1>3 DEF WriteSource
  <2> QED BY <1>2, <2>3, <2>4, <2>5 DEF WriteSource
<1>4. CASE ~ (There(source[t]) /\ CheckHolds(new)) BY <1>4 DEF WriteSource
<1> QED BY <1>3, <1>4

LEMMA EndpointsTyping ==
  ASSUME ManagementTyped, NEW c \in Request, WritesEndpoints(c) \/ DropsEndpoints
  PROVE  EndpointsTyped'
<1>0. /\ call[c] \in Calls /\ Named(call[c])
      /\ source \in [Source -> SourceRow \cup {None, Gone}]
      /\ destination \in [Destination -> DestinationRow \cup {None, Gone}]
      /\ connection \in [Source \X Destination -> {None, Gone, "running", "paused"}]
  BY DEF ManagementTyped, EndpointsTyped, ProjectIsNamed
<1>1. CASE InsertEndpoint(c)
  <2>1. call[c] \in EndpointInsertion BY <1>0, <1>1, Shapes DEF InsertEndpoint, At
  <2>2. call[c].project \in Project BY <2>1 DEF EndpointInsertion
  <2>3. ASSUME NEW t \in Source, NEW v \in BOOLEAN
        PROVE  [project |-> call[c].project, key |-> v, config |-> v] \in SourceRow
    BY <2>2 DEF SourceRow
  <2>4. [project |-> call[c].project] \in DestinationRow BY <2>2 DEF DestinationRow
  <2>5. source' \in [Source -> SourceRow \cup {None, Gone}] BY <1>0, <1>1, <2>3 DEF InsertEndpoint
  <2>6. destination' \in [Destination -> DestinationRow \cup {None, Gone}] BY <1>0, <1>1, <2>4 DEF InsertEndpoint
  <2> QED BY <1>0, <1>1, <2>5, <2>6 DEF InsertEndpoint, EndpointsTyped
<1>2. CASE WriteSource(c) BY <1>0, <1>2, WriteMoves DEF EndpointsTyped
<1>3. CASE Connect(c)
  <2>1. call[c] \in Connecting BY <1>0, <1>3, Shapes DEF Connect, At
  <2>2. <<call[c].source, call[c].destination>> \in Source \X Destination BY <2>1 DEF Connecting
  <2>3. connection[call[c].source, call[c].destination] \in {None, Gone, "running", "paused"} BY <1>0, <2>2
  <2> QED BY <1>0, <1>3, <2>2, <2>3 DEF Connect, SetConnection, EndpointsTyped
<1>4. CASE WritePause(c) BY <1>0, <1>4 DEF WritePause, SetConnection, EndpointsTyped
<1>5. ASSUME NEW t \in Source, RemoveSource(c, t) PROVE EndpointsTyped'
  BY <1>0, <1>5 DEF RemoveSource, EndpointsTyped
<1>6. ASSUME NEW d \in Destination, RemoveDestination(c, d) PROVE EndpointsTyped'
  BY <1>0, <1>6 DEF RemoveDestination, EndpointsTyped
<1>7. ASSUME NEW k \in Source \X Destination, Unpause(c, k) \/ RemoveConnection(c, k) PROVE EndpointsTyped'
  BY <1>0, <1>7 DEF Unpause, RemoveConnection, SetConnection, EndpointsTyped
<1>8. CASE DropsEndpoints BY <1>0, <1>8 DEF DropsEndpoints, EndpointsGone, EndpointsTyped
<1> QED BY <1>1, <1>2, <1>3, <1>4, <1>5, <1>6, <1>7, <1>8 DEF WritesEndpoints

(* Every reachable state is of this form.                                      *)
LEMMA StepTyping ==
  ASSUME ManagementTyped, ManagementNext(WritingRoutes)
  PROVE  ManagementTyped'
<1>0. AccessTyped /\ MembersTyped /\ ProjectsTyped /\ EndpointsTyped BY DEF ManagementTyped
<1>1. call' \in [Request -> Calls] /\ ProjectIsNamed' BY CallsTyping
<1>2. ASSUME NEW c \in Request, StepOf(c)
      PROVE  AccessTyped' /\ MembersTyped' /\ ProjectsTyped' /\ EndpointsTyped'
  <2>1. Writers(c) BY <1>2, WhoWrites
  <2>2. MembersTyped' BY <1>0, <2>1, InvitationTyping DEF Writers, MembersTyped, invitations
  <2>3. EndpointsTyped' BY <1>0, <2>1, EndpointsTyping DEF Writers, EndpointsTyped, endpoints
  <2>4. /\ secret' \in [Project -> Nat] /\ secrets' \in Nat /\ legacy' \in SUBSET Project
        /\ rotated' \in SUBSET Project /\ used' \in SUBSET (Project \X Nat)
    BY <1>0, <2>1, KeysTyping DEF Writers, keys, ProjectsTyped
  <2>5. home' \in [Project -> Org \cup {None}] /\ gone' \in SUBSET Project
    BY <1>0, <2>1, HomeTyping DEF Writers, AccessTyped, ProjectsTyped
  <2>6. member' \in [Org -> [User -> Roles \cup {None}]] BY <1>0, <2>1, MemberTyping DEF Writers, AccessTyped
  <2>7. locked' \in [Org -> Request \cup {None}] BY <1>0, <2>1, LockTyping DEF Writers, AccessTyped
  <2>8. plan' = plan BY <2>1 DEF Writers
  <2> QED BY <1>0, <2>2, <2>3, <2>4, <2>5, <2>6, <2>7, <2>8 DEF AccessTyped, ProjectsTyped
<1>3. ASSUME NEW o \in Org, NEW u \in User, ExpireInvitation(o, u), UNCHANGED <<projects, endpoints>>
      PROVE  AccessTyped' /\ MembersTyped' /\ ProjectsTyped' /\ EndpointsTyped'
  <2> DEFINE row == invitation[o][u]
  <2>0. row \in InvitationRow BY <1>0, <1>3 DEF ExpireInvitation, MembersTyped
  <2>1. [row EXCEPT !.expired = TRUE] \in InvitationRow BY <2>0 DEF InvitationRow
  <2>2. UNCHANGED access /\ MembersTyped' BY <1>0, <1>3, <2>1 DEF ExpireInvitation, MembersTyped
  <2> QED BY <1>0, <1>3, <2>2 DEF AccessTyped, ProjectsTyped, EndpointsTyped, access, projects, keys, endpoints
<1> QED BY <1>1, <1>2, <1>3, WhoSteps DEF ManagementTyped

-----------------------------------------------------------------------------
(* What a request carries, at its steps.                                       *)
LEMMA Carried ==
  ASSUME ManagementTyped, NEW c \in Request
  PROVE  /\ call[c].pc \in {"updateRole", "deleteMember", "checkSeats"} => call[c].target \in User
         /\ call[c].pc \in WritingRoutes \cup {"projectInOrg", "setSecret", "updateRole", "deleteMember", "checkSeats",
                           "acceptInvitation", "insertProject", "insertEndpoint"} => call[c].org \in Org
         /\ call[c].pc \in RoutesOfProjects \cup {"setSecret", "insertEndpoint"} => call[c].project \in Project
         /\ call[c].pc = "acceptInvitation" => call[c].actor \in User /\ call[c].read \in InvitationRow
         /\ call[c].pc = "updateRole" => call[c].given \in Given
         /\ call[c].pc \in {"insertProject", "insertEndpoint"} => call[c].count \in Nat
         /\ call[c].pc = "insertEndpoint" => call[c].op \in {"createSource", "createDestination"}
         /\ call[c].pc = "checkSeats" => call[c].seats \in Nat
<1>0. call[c] \in Calls /\ Named(call[c]) BY DEF ManagementTyped, ProjectIsNamed
<1>1. call[c].pc \in WritingRoutes \cup {"projectInOrg", "setSecret"} => call[c].org \in Org
  BY <1>0, Shapes DEF Admitted, Loading
<1>2. call[c].pc \in RoutesOfProjects \cup {"setSecret"} => call[c].project \in Project BY <1>0 DEF Named
<1>3. call[c].pc = "updateRole" => call[c].org \in Org /\ call[c].target \in User /\ call[c].given \in Given
  BY <1>0, Shapes DEF RoleUpdate
<1>4. call[c].pc = "deleteMember" => call[c].org \in Org /\ call[c].target \in User
  BY <1>0, Shapes DEF MemberDeletion
<1>5. call[c].pc = "checkSeats" => call[c].org \in Org /\ call[c].target \in User /\ call[c].seats \in Nat
  BY <1>0, Shapes DEF SeatCheck
<1>6. call[c].pc = "acceptInvitation" => call[c].org \in Org /\ call[c].actor \in User /\ call[c].read \in InvitationRow
  BY <1>0, Shapes DEF Acceptance
<1>7. call[c].pc = "insertProject" => call[c].org \in Org /\ call[c].count \in Nat
  BY <1>0, Shapes DEF ProjectInsertion
<1>8. call[c].pc = "insertEndpoint" => /\ call[c].org \in Org /\ call[c].project \in Project /\ call[c].count \in Nat
                                       /\ call[c].op \in {"createSource", "createDestination"}
  BY <1>0, Shapes DEF EndpointInsertion
<1> QED BY <1>1, <1>2, <1>3, <1>4, <1>5, <1>6, <1>7, <1>8

(* Only steps of the others matter to a request that waits, and the step it     *)
(* came by to the one that moves.                                              *)
LEMMA WhoMoves ==
  ASSUME ManagementTyped, NEW c \in Request, StepOf(c), NEW d \in Request
  PROVE  (d = c /\ Arrives(c)) \/ (d # c /\ call'[d] = call[d])
<1>1. call \in [Request -> Calls] BY DEF ManagementTyped
<1> QED BY <1>1, Moves, Arriving

-----------------------------------------------------------------------------
(* Who is about to be demoted or removed is no owner, so the owners stay.       *)
NoOwnerIsTarget ==
  \A c \in Request : call[c].pc \in {"updateRole", "deleteMember"} => member[call[c].org][call[c].target] # "owner"

LEMMA OwnersStay ==
  ASSUME ManagementTyped, NoOwnerIsTarget, NEW c \in Request, StepOf(c)
  PROVE  \A o \in Org, u \in User : member'[o][u] = "owner" <=> member[o][u] = "owner"
<1>0. member \in [Org -> [User -> Roles \cup {None}]] BY DEF ManagementTyped, AccessTyped
<1>1. CASE UpdateRole(c)
  <2>1. call[c].org \in Org /\ call[c].target \in User /\ call[c].given \in Given
    BY <1>1, Carried DEF UpdateRole, At
  <2>2. member[call[c].org][call[c].target] # "owner" BY <1>1 DEF UpdateRole, At, NoOwnerIsTarget
  <2> QED BY <1>0, <1>1, <2>1, <2>2 DEF UpdateRole, Given
<1>2. CASE DeleteMember(c)
  <2>1. member[call[c].org][call[c].target] # "owner" BY <1>2 DEF DeleteMember, At, NoOwnerIsTarget
  <2>2. None # "owner" BY AccessAssumption DEF Roles
  <2> QED BY <1>0, <1>2, <2>1, <2>2 DEF DeleteMember
<1>3. CASE AcceptInvitation(c)
  <2>1. call[c].org \in Org /\ call[c].actor \in User /\ call[c].read.role \in Given
    BY <1>3, Carried DEF AcceptInvitation, At, InvitationRow
  <2>2. Joins(member[call[c].org][call[c].actor], call[c].read.role) = "owner"
          <=> member[call[c].org][call[c].actor] = "owner"
    BY <2>1, AccessAssumption DEF Joins, Given, Roles
  <2>3. \/ member' = member
        \/ member' = [member EXCEPT ![call[c].org][call[c].actor] =
                        Joins(member[call[c].org][call[c].actor], call[c].read.role)]
    BY <1>3 DEF AcceptInvitation
  <2> QED BY <1>0, <2>1, <2>2, <2>3
<1> QED BY <1>1, <1>2, <1>3, WhoWrites DEF Writers, WritesMember

LEMMA NoOwnerIsTargetStep ==
  ASSUME ManagementTyped, NoOwnerIsTarget, NEW c \in Request, StepOf(c)
  PROVE  NoOwnerIsTarget'
<1> SUFFICES ASSUME NEW d \in Request, call'[d].pc \in {"updateRole", "deleteMember"}
             PROVE  member'[call'[d].org][call'[d].target] # "owner"
  BY DEF NoOwnerIsTarget
<1>0. call \in [Request -> Calls] BY DEF ManagementTyped
<1>1. CASE call'[d] = call[d]
  <2>1. call[d].org \in Org /\ call[d].target \in User BY <1>1, Carried
  <2> QED BY <1>1, <2>1, OwnersStay DEF NoOwnerIsTarget
<1>2. CASE d = c /\ Arrives(c)
  <2>1. PICK u \in User : ChangeRole(c, u) \/ Remove(c, u) BY <1>2 DEF Arrives, ArrivesBy
  <2>2. /\ call'[c].org = call[c].org /\ call'[c].target = u /\ member[call[c].org][u] # "owner"
        /\ member' = member
    BY <1>0, <2>1 DEF ChangeRole, Remove, MayRemove, access
  <2> QED BY <1>2, <2>2
<1> QED BY <1>1, <1>2, WhoMoves

LEMMA OneOwnerStep ==
  ASSUME ManagementTyped, NoOwnerIsTarget, OneOwner, NEW c \in Request, StepOf(c)
  PROVE  OneOwner'
<1>1. \A o \in Org : Owners(o)' = Owners(o) BY OwnersStay DEF Owners
<1> QED BY <1>1 DEF OneOwner

-----------------------------------------------------------------------------
(* Who has counted holds the lock of the organization until it has inserted.    *)
LockIsHeld ==
  \A c \in Request : call[c].pc \in {"checkSeats", "insertProject", "insertEndpoint"} => locked[call[c].org] = c

LEMMA LockIsHeldStep ==
  ASSUME ManagementTyped, LockIsHeld, NEW c \in Request, StepOf(c)
  PROVE  LockIsHeld'
<1> SUFFICES ASSUME NEW d \in Request, call'[d].pc \in {"checkSeats", "insertProject", "insertEndpoint"}
             PROVE  locked'[call'[d].org] = d
  BY DEF LockIsHeld
<1>0. call \in [Request -> Calls] /\ locked \in [Org -> Request \cup {None}] BY DEF ManagementTyped, AccessTyped
<1>1. CASE d # c /\ call'[d] = call[d]
  <2>1. call[d].org \in Org /\ locked[call[d].org] = d BY <1>1, Carried DEF LockIsHeld
  <2>2. CASE locked' = locked BY <1>1, <2>1, <2>2
  <2>3. CASE Locks(c)
    <3>1. locked' = [locked EXCEPT ![call[c].org] = c] /\ locked[call[c].org] = None
      BY <2>3 DEF Locks, CountProjects, CountEndpoints, CountMembers, CanLock
    <3> QED BY <1>0, <1>1, <2>1, <3>1, AccessAssumption
  <2>4. CASE Unlocks(c)
    <3>1. /\ locked' = [locked EXCEPT ![call[c].org] = None]
          /\ call[c].pc \in {"checkSeats", "insertProject", "insertEndpoint"}
      BY <2>4 DEF Unlocks, Invite, RefuseProject, InsertEndpoint, RefuseEndpoint, Unlock, InsertProject, At
    <3>2. locked[call[c].org] = c BY <3>1 DEF LockIsHeld
    <3> QED BY <1>0, <1>1, <2>1, <3>1, <3>2
  <2> QED BY <2>2, <2>3, <2>4, WhoWrites DEF Writers
<1>2. CASE d = c /\ Arrives(c)
  <2>1. (\E u \in User : CountMembers(c, u)) \/ CountProjects(c) \/ CountEndpoints(c)
    BY <1>2 DEF Arrives, ArrivesBy
  <2>2. /\ call'[c].org = call[c].org /\ locked' = [locked EXCEPT ![call[c].org] = c]
        /\ call[c].pc \in {"invite", "createProject", "createSource", "createDestination"}
    BY <1>0, <2>1 DEF CountMembers, CountProjects, CountEndpoints, At
  <2>3. call[c].org \in Org BY <2>2, Carried DEF WritingRoutes
  <2> QED BY <1>0, <1>2, <2>2, <2>3
<1> QED BY <1>1, <1>2, WhoMoves

-----------------------------------------------------------------------------
(* The project a request is about is one of its organization, or was deleted.   *)
ProjectIsKnown ==
  \A c \in Request : call[c].pc \in RoutesOfProjects \cup {"setSecret", "insertEndpoint"} =>
    \/ home[call[c].project] = call[c].org
    \/ home[call[c].project] = None /\ call[c].project \in gone

(* A project is made where there was none, and its deletion is for good.        *)
LEMMA HomeMoves ==
  ASSUME ManagementTyped, NEW c \in Request, StepOf(c)
  PROVE  /\ gone \subseteq gone'
         /\ \A p \in Project : \/ home'[p] = home[p]
                               \/ home'[p] = None /\ p \in gone'
                               \/ home[p] = None /\ p \notin gone /\ InsertProject(c, p) /\ home'[p] = call[c].org
<1>0. home \in [Project -> Org \cup {None}] BY DEF ManagementTyped, AccessTyped
<1>1. CASE RemoveProject(c) BY <1>0, <1>1 DEF RemoveProject
<1>2. CASE \E p \in Project : InsertProject(c, p) BY <1>0, <1>2 DEF InsertProject
<1> QED BY <1>1, <1>2, WhoWrites DEF Writers, WritesHome

LEMMA ProjectIsKnownStep ==
  ASSUME ManagementTyped, ProjectIsKnown, NEW c \in Request, StepOf(c)
  PROVE  ProjectIsKnown'
<1> DEFINE Known == RoutesOfProjects \cup {"setSecret", "insertEndpoint"}
<1> SUFFICES ASSUME NEW d \in Request, call'[d].pc \in Known
             PROVE  \/ home'[call'[d].project] = call'[d].org
                    \/ home'[call'[d].project] = None /\ call'[d].project \in gone'
  BY DEF ProjectIsKnown
<1>0. call \in [Request -> Calls] BY DEF ManagementTyped
<1>1. CASE call'[d] = call[d]
  <2>1. call[d].project \in Project /\ call[d].org \in Org BY <1>1, Carried DEF RoutesOfProjects
  <2>2. home[call[d].project] = call[d].org \/ (home[call[d].project] = None /\ call[d].project \in gone)
    BY <1>1 DEF ProjectIsKnown
  <2>3. None \notin Org BY AccessAssumption
  <2> QED BY <1>1, <2>1, <2>2, <2>3, HomeMoves
<1>2. CASE d = c /\ Arrives(c)
  <2>1. CASE call'[c].pc \in RoutesOfProjects
    <3>1. ProjectInOrg(c) BY <1>2, <2>1 DEF Arrives, ArrivesBy
    <3>2. call'[c] # NoCall BY <2>1, RoutesSplit DEF NoCall
    <3>3. home' = home BY <3>1 DEF ProjectInOrg, access
    <3> QED BY <1>2, <3>1, <3>2, <3>3, ProjectInOrgTyping
  <2>2. CASE call'[c].pc = "setSecret" /\ GetSigningSecret(c)
    <3>1. call[c].pc = "getSigningSecret" BY <2>2 DEF GetSigningSecret, At
    <3>2. call[c] \in Admitted BY <1>0, <3>1, Shapes DEF WritingRoutes
    <3>3. ~ End(c) BY <1>0, <2>2, GoingOn DEF NoCall
    <3>4. Goto(c, "setSecret") /\ home' = home /\ home[call[c].project] = call[c].org
      BY <2>2, <3>3 DEF GetSigningSecret, InHome, access
    <3>5. call'[c].project = call[c].project /\ call'[c].org = call[c].org BY <1>0, <3>2, <3>4, GoingOn
    <3> QED BY <1>2, <3>4, <3>5
  <2>3. ASSUME call'[c].pc = "setSecret", NEW p \in Project, LoadSecret(c, p)
        PROVE  home'[call'[c].project] = call'[c].org
    BY <1>0, <2>3 DEF LoadSecret, At, access
  <2>4. CASE call'[c].pc = "insertEndpoint"
    <3>1. CountEndpoints(c) BY <1>2, <2>4 DEF Arrives, ArrivesBy
    <3>2. call[c].pc \in RoutesOfProjects BY <3>1, RoutesSplit DEF CountEndpoints
    <3>3. home' = home /\ call'[c].project = call[c].project /\ call'[c].org = call[c].org
      BY <1>0, <3>1 DEF CountEndpoints
    <3>4. gone \subseteq gone' BY HomeMoves
    <3> QED BY <1>2, <3>2, <3>3, <3>4 DEF ProjectIsKnown
  <2> QED BY <1>2, <2>1, <2>2, <2>3, <2>4 DEF Arrives, ArrivesBy
<1> QED BY <1>1, <1>2, WhoMoves

-----------------------------------------------------------------------------
(* What a request has counted under the lock is not less than what there is when *)
(* it inserts.                                                                 *)
ProjectsAreCounted ==
  \A c \in Request : call[c].pc = "insertProject" => Cardinality(ProjectsOf(call[c].org)) <= call[c].count

(* The projects of an organization grow by one that a request of it inserts,    *)
(* under the lock, or not at all.                                              *)
ProjectsThen(o) == {p \in Project : home'[p] = o}

LEMMA ProjectsOfMove ==
  ASSUME ManagementTyped, LockIsHeld, NEW c \in Request, StepOf(c), NEW o \in Org
  PROVE  /\ Cardinality(ProjectsThen(o)) \in Nat
         /\ \/ Cardinality(ProjectsThen(o)) <= Cardinality(ProjectsOf(o))
            \/ /\ Cardinality(ProjectsThen(o)) <= Cardinality(ProjectsOf(o)) + 1
               /\ call[c].pc = "insertProject" /\ call[c].org = o /\ locked[o] = c
               /\ call[c].count < PROJECT_LIMIT[plan[o]]
<1>0. home \in [Project -> Org \cup {None}] BY DEF ManagementTyped, AccessTyped
<1>1. IsFiniteSet(ProjectsOf(o)) /\ Cardinality(ProjectsOf(o)) \in Nat BY ProjectsAreFinite
<1>2. CASE \E p \in Project : InsertProject(c, p) /\ call[c].org = o
  <2>1. PICK p \in Project : InsertProject(c, p) /\ call[c].org = o BY <1>2
  <2>2. ProjectsThen(o) = ProjectsOf(o) \cup {p}
    BY <1>0, <2>1, AccessAssumption DEF InsertProject, ProjectsOf, ProjectsThen
  <2>3. Cardinality(ProjectsThen(o)) \in {Cardinality(ProjectsOf(o)), Cardinality(ProjectsOf(o)) + 1}
    BY <1>1, <2>2, FS_AddElement
  <2> QED BY <1>1, <2>1, <2>3 DEF InsertProject, At, LockIsHeld
<1>3. CASE ~ \E p \in Project : InsertProject(c, p) /\ call[c].org = o
  <2>1. ProjectsThen(o) \subseteq ProjectsOf(o)
    BY <1>0, <1>3, HomeMoves, AccessAssumption DEF ProjectsOf, ProjectsThen
  <2> QED BY <1>1, <2>1, FS_Subset, FS_CardinalityType
<1> QED BY <1>2, <1>3

LEMMA ProjectsWithinPlanStep ==
  ASSUME ManagementTyped, LockIsHeld, ProjectsAreCounted, ProjectsWithinPlan, NEW c \in Request, StepOf(c)
  PROVE  ProjectsAreCounted' /\ ProjectsWithinPlan'
<1>0. call \in [Request -> Calls] /\ plan \in [Org -> {"free", "team"}] BY DEF ManagementTyped, AccessTyped
<1>1. ASSUME NEW o \in Org
      PROVE  Cardinality(ProjectsOf(o)) \in Nat /\ Cardinality(ProjectsThen(o)) \in Nat /\ PROJECT_LIMIT[plan[o]] \in Nat
  <2>1. Cardinality(Project) \in Nat BY AccessAssumption, FS_CardinalityType
  <2> QED BY <1>0, <2>1, ProjectsAreFinite, ProjectsOfMove DEF PROJECT_LIMIT
<1>2. ASSUME NEW o \in Org PROVE Cardinality(ProjectsThen(o)) <= PROJECT_LIMIT[plan'[o]]
  <2>1. Cardinality(ProjectsOf(o)) <= PROJECT_LIMIT[plan[o]] BY DEF ProjectsWithinPlan
  <2>2. plan' = plan BY WhoWrites DEF Writers
  <2>3. call[c].pc = "insertProject" /\ call[c].org = o =>
          Cardinality(ProjectsOf(o)) <= call[c].count /\ call[c].count \in Nat
    BY Carried DEF ProjectsAreCounted
  <2> QED BY <1>1, <2>1, <2>2, <2>3, ProjectsOfMove
<1>3. ASSUME NEW d \in Request, call'[d].pc = "insertProject"
      PROVE  Cardinality(ProjectsThen(call'[d].org)) <= call'[d].count
  <2>1. CASE d # c /\ call'[d] = call[d]
    <3> DEFINE o == call[d].org
    <3>1. o \in Org /\ locked[o] = d /\ Cardinality(ProjectsOf(o)) <= call[d].count /\ call[d].count \in Nat
      BY <1>3, <2>1, Carried DEF LockIsHeld, ProjectsAreCounted
    <3>2. Cardinality(ProjectsThen(o)) <= Cardinality(ProjectsOf(o)) BY <2>1, <3>1, ProjectsOfMove
    <3> QED BY <1>1, <2>1, <3>1, <3>2
  <2>2. CASE d = c /\ Arrives(c)
    <3>1. CountProjects(c) BY <1>3, <2>2 DEF Arrives, ArrivesBy
    <3>2. /\ call'[c].org = call[c].org /\ call'[c].count = Cardinality(ProjectsOf(call[c].org)) /\ home' = home
          /\ call[c].pc = "createProject"
      BY <1>0, <3>1 DEF CountProjects, At
    <3>3. call[c].org \in Org BY <3>2, Carried DEF WritingRoutes
    <3>4. ProjectsThen(call[c].org) = ProjectsOf(call[c].org) BY <3>2 DEF ProjectsOf, ProjectsThen
    <3> QED BY <1>1, <2>2, <3>2, <3>3, <3>4
  <2> QED BY <1>3, <2>1, <2>2, WhoMoves
<1>4. ProjectsAreCounted' BY <1>3 DEF ProjectsAreCounted, ProjectsOf, ProjectsThen
<1>5. ProjectsWithinPlan' BY <1>2 DEF ProjectsWithinPlan, ProjectsOf, ProjectsThen, PROJECT_LIMIT
<1> QED BY <1>4, <1>5

-----------------------------------------------------------------------------
(* A row of a source is written in four ways: it is deleted, left alone,        *)
(* patched, or inserted where there was none; a destination's is not patched.   *)
SourceInserted(c, s) ==
  /\ InsertEndpoint(c) /\ call[c].op = "createSource"
  /\ source[s] = None /\ In(source'[s], call[c].project) /\ Whole(source'[s])
DestinationInserted(c, d) ==
  /\ InsertEndpoint(c) /\ call[c].op = "createDestination"
  /\ destination[d] = None /\ In(destination'[d], call[c].project)

LEMMA InsertionMoves ==
  ASSUME ManagementTyped, NEW c \in Request, InsertEndpoint(c)
  PROVE  /\ connection' = connection /\ call[c].pc = "insertEndpoint" /\ call[c].op \in {"createSource", "createDestination"}
         /\ home[call[c].project] # None /\ call[c].count < ENDPOINT_LIMIT(call[c].org)
         /\ call[c].op = "createSource" =>
              /\ destination' = destination
              /\ \E n \in Source : SourceInserted(c, n) /\ \A s \in Source \ {n} : source'[s] = source[s]
         /\ call[c].op = "createDestination" =>
              /\ source' = source
              /\ \E n \in Destination : DestinationInserted(c, n) /\ \A d \in Destination \ {n} : destination'[d] = destination[d]
<1>0. /\ source \in [Source -> SourceRow \cup {None, Gone}] /\ call[c].pc = "insertEndpoint"
      /\ destination \in [Destination -> DestinationRow \cup {None, Gone}]
  BY DEF ManagementTyped, EndpointsTyped, InsertEndpoint, At
<1>1. call[c].project \in Project /\ call[c].op \in {"createSource", "createDestination"} BY <1>0, Carried
<1>2. CASE call[c].op = "createSource"
  <2>1. PICK n \in Source, v \in BOOLEAN :
          source[n] = None /\ source' = [source EXCEPT ![n] = [project |-> call[c].project, key |-> v, config |-> v]]
    BY <1>2 DEF InsertEndpoint
  <2> DEFINE row == [project |-> call[c].project, key |-> v, config |-> v]
  <2>2. row \in SourceRow BY <1>1 DEF SourceRow
  <2>3. source'[n] = row /\ There(row) BY <1>0, <2>1, <2>2, RowsAreThere
  <2>4. SourceInserted(c, n) BY <1>2, <2>1, <2>3 DEF SourceInserted, In, Whole
  <2>5. \A s \in Source \ {n} : source'[s] = source[s] BY <1>0, <2>1
  <2> QED BY <1>0, <1>1, <1>2, <2>4, <2>5 DEF InsertEndpoint
<1>3. CASE call[c].op = "createDestination"
  <2>1. PICK n \in Destination :
          destination[n] = None /\ destination' = [destination EXCEPT ![n] = [project |-> call[c].project]]
    BY <1>3 DEF InsertEndpoint
  <2> DEFINE row == [project |-> call[c].project]
  <2>2. row \in DestinationRow BY <1>1 DEF DestinationRow
  <2>3. destination'[n] = row /\ There(row) BY <1>0, <2>1, <2>2, RowsAreThere
  <2>4. DestinationInserted(c, n) BY <1>3, <2>1, <2>3 DEF DestinationInserted, In
  <2>5. \A d \in Destination \ {n} : destination'[d] = destination[d] BY <1>0, <2>1
  <2> QED BY <1>0, <1>1, <1>3, <2>4, <2>5 DEF InsertEndpoint
<1> QED BY <1>1, <1>2, <1>3

LEMMA RowsMove ==
  ASSUME ManagementTyped, NEW c \in Request, StepOf(c)
  PROVE  /\ \A s \in Source : \/ source'[s] = Gone \/ source'[s] = source[s]
                              \/ Patches(source[s], source'[s]) \/ SourceInserted(c, s)
         /\ \A d \in Destination : \/ destination'[d] = Gone \/ destination'[d] = destination[d]
                                   \/ DestinationInserted(c, d)
<1>0. /\ source \in [Source -> SourceRow \cup {None, Gone}]
      /\ destination \in [Destination -> DestinationRow \cup {None, Gone}]
  BY DEF ManagementTyped, EndpointsTyped
<1>1. CASE InsertEndpoint(c) BY <1>1, InsertionMoves
<1>2. CASE WriteSource(c) BY <1>0, <1>2, WriteMoves
<1>3. CASE Connect(c) \/ WritePause(c) \/ \E k \in Source \X Destination : Unpause(c, k) \/ RemoveConnection(c, k)
  BY <1>3 DEF Connect, WritePause, Unpause, RemoveConnection, SetConnection
<1>4. ASSUME NEW t \in Source, RemoveSource(c, t)
      PROVE  destination' = destination /\ \A s \in Source : source'[s] = Gone \/ source'[s] = source[s]
  BY <1>0, <1>4 DEF RemoveSource
<1>5. ASSUME NEW e \in Destination, RemoveDestination(c, e)
      PROVE  source' = source /\ \A d \in Destination : destination'[d] = Gone \/ destination'[d] = destination[d]
  BY <1>0, <1>5 DEF RemoveDestination
<1>6. CASE DropsEndpoints BY <1>6 DEF DropsEndpoints, EndpointsGone
<1>7. CASE UNCHANGED endpoints BY <1>7 DEF endpoints
<1> QED BY <1>1, <1>2, <1>3, <1>4, <1>5, <1>6, <1>7, WhoWrites DEF Writers, WritesEndpoints

(* The CHECK of the table keeps a source from having one of key and config.     *)
LEMMA BothOrNeitherStep ==
  ASSUME ManagementTyped, BothOrNeither, NEW c \in Request, StepOf(c)
  PROVE  BothOrNeither'
<1>1. \A s \in Source : There(source'[s]) => source'[s].key = source'[s].config
  BY RowsMove, RowsAreThere DEF BothOrNeither, Patches, SourceInserted, Whole
<1> QED BY <1>1 DEF BothOrNeither, There

-----------------------------------------------------------------------------
(* The sources and destinations of a project, after a step.                    *)
SourcesThen(p) == {s \in Source : In(source'[s], p)}
DestinationsThen(p) == {d \in Destination : In(destination'[d], p)}

LEMMA EndpointsOfMove ==
  ASSUME ManagementTyped, NEW c \in Request, StepOf(c), NEW p \in Project
  PROVE  /\ \/ SourcesThen(p) \subseteq Sources(p)
            \/ /\ InsertEndpoint(c) /\ call[c].op = "createSource" /\ call[c].project = p
               /\ \E s \in Source : SourcesThen(p) = Sources(p) \cup {s}
         /\ \/ DestinationsThen(p) \subseteq Destinations(p)
            \/ /\ InsertEndpoint(c) /\ call[c].op = "createDestination" /\ call[c].project = p
               /\ \E d \in Destination : DestinationsThen(p) = Destinations(p) \cup {d}
<1> USE DEF Sources, Destinations, SourcesThen, DestinationsThen
<1>1. CASE InsertEndpoint(c)
  <2>1. CASE call[c].op = "createSource"
    <3>1. destination' = destination BY <1>1, <2>1, InsertionMoves
    <3>2. PICK n \in Source : SourceInserted(c, n) /\ \A s \in Source \ {n} : source'[s] = source[s]
      BY <1>1, <2>1, InsertionMoves
    <3>3. CASE call[c].project = p
      <4>1. SourcesThen(p) = Sources(p) \cup {n} BY <3>2, <3>3, RowsAreThere DEF SourceInserted, In
      <4> QED BY <1>1, <2>1, <3>1, <3>3, <4>1
    <3>4. CASE call[c].project # p BY <3>1, <3>2, <3>4 DEF SourceInserted, In
    <3> QED BY <3>3, <3>4
  <2>2. CASE call[c].op = "createDestination"
    <3>1. source' = source BY <1>1, <2>2, InsertionMoves
    <3>2. PICK n \in Destination : DestinationInserted(c, n) /\ \A d \in Destination \ {n} : destination'[d] = destination[d]
      BY <1>1, <2>2, InsertionMoves
    <3>3. CASE call[c].project = p
      <4>1. DestinationsThen(p) = Destinations(p) \cup {n} BY <3>2, <3>3, RowsAreThere DEF DestinationInserted, In
      <4> QED BY <1>1, <2>2, <3>1, <3>3, <4>1
    <3>4. CASE call[c].project # p BY <3>1, <3>2, <3>4 DEF DestinationInserted, In
    <3> QED BY <3>3, <3>4
  <2> QED BY <1>1, <2>1, <2>2, InsertionMoves
<1>2. CASE ~ InsertEndpoint(c)
  <2>1. SourcesThen(p) \subseteq Sources(p) BY <1>2, RowsMove, RowsAreThere DEF SourceInserted, Patches, In, Whole
  <2>2. DestinationsThen(p) \subseteq Destinations(p) BY <1>2, RowsMove, RowsAreThere DEF DestinationInserted, In
  <2> QED BY <2>1, <2>2
<1> QED BY <1>1, <1>2

(* What is left of a deleted project: nothing.                                 *)
RowsHaveAHome == \A p \in Project : home[p] = None => Sources(p) = {} /\ Destinations(p) = {}

LEMMA RowsHaveAHomeStep ==
  ASSUME ManagementTyped, RowsHaveAHome, NEW c \in Request, StepOf(c)
  PROVE  RowsHaveAHome'
<1>1. ASSUME NEW p \in Project, home'[p] = None PROVE SourcesThen(p) = {} /\ DestinationsThen(p) = {}
  <2>1. CASE home[p] = None
    <3>1. InsertEndpoint(c) => call[c].project # p BY <2>1, InsertionMoves
    <3> QED BY <2>1, <3>1, EndpointsOfMove DEF RowsHaveAHome
  <2>2. CASE home[p] # None
    <3>1. DropsEndpoints BY <1>1, <2>2, WhoWrites DEF Writers
    <3> QED BY <1>1, <2>2, <3>1, RowsAreThere DEF DropsEndpoints, EndpointsGone, SourcesThen, DestinationsThen, In
  <2> QED BY <2>1, <2>2
<1> QED BY <1>1 DEF RowsHaveAHome, SourcesThen, DestinationsThen, Sources, Destinations, In, There

(* As with projects: what was counted under the lock is not less than there is. *)
EndpointsAreCounted ==
  \A c \in Request : call[c].pc = "insertEndpoint" /\ home[call[c].project] # None =>
    Count(call[c].op, call[c].project) <= call[c].count

(* The number of sources and destinations of a project, and whose step makes it *)
(* grow: the one that holds the lock of the organization.                      *)
CountThen(op, p) == Cardinality(IF op = "createSource" THEN SourcesThen(p) ELSE DestinationsThen(p))
Creates == {"createSource", "createDestination"}

LEMMA CountsMove ==
  ASSUME ManagementTyped, LockIsHeld, ProjectIsKnown, NEW c \in Request, StepOf(c),
         NEW p \in Project, NEW op \in Creates
  PROVE  /\ CountThen(op, p) \in Nat /\ Count(op, p) \in Nat
         /\ \/ CountThen(op, p) <= Count(op, p)
            \/ /\ CountThen(op, p) <= Count(op, p) + 1
               /\ call[c].pc = "insertEndpoint" /\ call[c].op = op /\ call[c].project = p
               /\ home[p] = call[c].org /\ call[c].org \in Org /\ locked[call[c].org] = c
               /\ call[c].count < ENDPOINT_LIMIT(call[c].org)
<1> DEFINE now == IF op = "createSource" THEN Sources(p) ELSE Destinations(p)
           next == IF op = "createSource" THEN SourcesThen(p) ELSE DestinationsThen(p)
<1>1. IsFiniteSet(now) /\ Cardinality(now) \in Nat /\ Count(op, p) = Cardinality(now) /\ CountThen(op, p) = Cardinality(next)
  BY EndpointsAreFinite DEF Count, CountThen
<1>2. CASE next \subseteq now BY <1>1, <1>2, FS_Subset, FS_CardinalityType
<1>3. CASE ~ (next \subseteq now)
  <2>1. InsertEndpoint(c) /\ call[c].op = op /\ call[c].project = p /\ \E x : next = now \cup {x}
    BY <1>3, EndpointsOfMove DEF Creates
  <2>2. Cardinality(next) \in {Cardinality(now), Cardinality(now) + 1} BY <1>1, <2>1, FS_AddElement
  <2>3. call[c].pc = "insertEndpoint" /\ home[p] # None /\ call[c].count < ENDPOINT_LIMIT(call[c].org)
    BY <2>1, InsertionMoves
  <2>4. call[c].org \in Org BY <2>3, Carried
  <2>5. home[p] = call[c].org /\ locked[call[c].org] = c BY <2>1, <2>3 DEF ProjectIsKnown, LockIsHeld
  <2> QED BY <1>1, <2>1, <2>2, <2>3, <2>4, <2>5
<1> QED BY <1>2, <1>3

LEMMA EndpointsAreCountedStep ==
  ASSUME ManagementTyped, LockIsHeld, ProjectIsKnown, EndpointsAreCounted, NEW c \in Request, StepOf(c)
  PROVE  EndpointsAreCounted'
<1>0. call \in [Request -> Calls] BY DEF ManagementTyped
<1>1. ASSUME NEW d \in Request, call'[d].pc = "insertEndpoint", home'[call'[d].project] # None
      PROVE  CountThen(call'[d].op, call'[d].project) <= call'[d].count
  <2>1. CASE d # c /\ call'[d] = call[d]
    <3> DEFINE p == call[d].project
               op == call[d].op
    <3>1. /\ p \in Project /\ op \in Creates /\ call[d].count \in Nat /\ call[d].org \in Org
          /\ locked[call[d].org] = d
      BY <1>1, <2>1, Carried DEF Creates, LockIsHeld
    <3>2. home[p] = call[d].org \/ (home[p] = None /\ p \in gone) BY <1>1, <2>1 DEF ProjectIsKnown
    <3>3. home[p] = call[d].org /\ home[p] # None
      BY <1>1, <2>1, <3>1, <3>2, HomeMoves, AccessAssumption
    <3>4. Count(op, p) <= call[d].count BY <1>1, <2>1, <3>3 DEF EndpointsAreCounted
    <3>5. CountThen(op, p) <= Count(op, p) /\ CountThen(op, p) \in Nat /\ Count(op, p) \in Nat
      BY <2>1, <3>1, <3>3, CountsMove
    <3> QED BY <2>1, <3>1, <3>4, <3>5
  <2>2. CASE d = c /\ Arrives(c)
    <3>1. CountEndpoints(c) BY <1>1, <2>2 DEF Arrives, ArrivesBy
    <3> DEFINE p == call[c].project
               op == call[c].pc
    <3>2. /\ call'[c].op = op /\ call'[c].project = p /\ call'[c].count = Count(op, p)
          /\ UNCHANGED endpoints /\ op \in Creates
      BY <1>0, <3>1 DEF CountEndpoints, Creates
    <3>3. p \in Project BY <3>2, Carried, RoutesSplit DEF Creates
    <3>4. CountThen(op, p) = Count(op, p)
      BY <3>2 DEF CountThen, Count, SourcesThen, DestinationsThen, Sources, Destinations, endpoints
    <3> QED BY <2>2, <3>2, <3>3, <3>4, CountsMove
  <2> QED BY <1>1, <2>1, <2>2, WhoMoves
<1>2. \A op, p : Count(op, p)' = CountThen(op, p)
  BY DEF CountThen, Count, SourcesThen, DestinationsThen, Sources, Destinations, In, There
<1> QED BY <1>1, <1>2 DEF EndpointsAreCounted

LEMMA EndpointsWithinPlanStep ==
  ASSUME ManagementTyped, LockIsHeld, ProjectIsKnown, RowsHaveAHome, EndpointsAreCounted, EndpointsWithinPlan,
         NEW c \in Request, StepOf(c)
  PROVE  EndpointsWithinPlan'
<1>0. plan' = plan /\ home \in [Project -> Org \cup {None}] BY WhoWrites DEF Writers, ManagementTyped, AccessTyped
<1>1. \A o \in Org : ENDPOINT_LIMIT(o) \in Nat
  <2>1. Cardinality(Source \cup Destination) \in Nat BY EndpointsAssumption, FS_Union, FS_CardinalityType
  <2> QED BY <2>1, EndpointsAssumption DEF ENDPOINT_LIMIT
<1>2. ASSUME NEW p \in Project, NEW op \in Creates, home'[p] # None
      PROVE  CountThen(op, p) \in 0 .. ENDPOINT_LIMIT(home'[p])
  <2>1. CASE home'[p] = home[p]
    <3>1. Count(op, p) \in 0 .. ENDPOINT_LIMIT(home[p]) BY <1>2, <2>1 DEF EndpointsWithinPlan, Count, Creates
    <3>2. home[p] \in Org BY <1>0, <1>2, <2>1
    <3>3. call[c].pc = "insertEndpoint" /\ call[c].op = op /\ call[c].project = p =>
            Count(op, p) <= call[c].count /\ call[c].count \in Nat
      BY <1>2, <2>1, Carried DEF EndpointsAreCounted
    <3> QED BY <1>1, <2>1, <3>1, <3>2, <3>3, CountsMove
  <2>2. CASE home'[p] # home[p]
    <3>1. home[p] = None /\ home'[p] = call[c].org /\ InsertProject(c, p) BY <1>2, <2>2, HomeMoves
    <3>2. call[c].org \in Org BY <3>1, Carried DEF InsertProject, At
    <3>3. Sources(p) = {} /\ Destinations(p) = {} BY <3>1 DEF RowsHaveAHome
    <3>4. SourcesThen(p) = {} /\ DestinationsThen(p) = {}
      BY <3>1, <3>3, EndpointsOfMove, InsertionMoves
    <3>5. CountThen(op, p) = 0 BY <3>4, FS_EmptySet DEF CountThen
    <3> QED BY <1>1, <3>1, <3>2, <3>5
  <2> QED BY <2>1, <2>2
<1>3. ASSUME NEW p \in Project, home'[p] # None
      PROVE  {Cardinality(SourcesThen(p)), Cardinality(DestinationsThen(p))} \subseteq 0 .. ENDPOINT_LIMIT(home'[p])
  BY <1>2, <1>3 DEF CountThen, Creates
<1> QED BY <1>0, <1>3 DEF EndpointsWithinPlan, ENDPOINT_LIMIT, SourcesThen, DestinationsThen, Sources, Destinations, In, There

-----------------------------------------------------------------------------
(* The ends a request has found are of one project for as long as they are there. *)
Joinable(s, d) ==
  \E p \in Project : (In(source[s], p) \/ source[s] = Gone) /\ (In(destination[d], p) \/ destination[d] = Gone)
EndsMeet ==
  \A c \in Request : call[c].pc = "connect" => Joinable(call[c].source, call[c].destination)

(* A row that is there stays in its project until it is gone, and gone it stays. *)
LEMMA RowsStay ==
  ASSUME ManagementTyped, NEW c \in Request, StepOf(c)
  PROVE  /\ \A s \in Source, p \in Project : In(source[s], p) => In(source'[s], p) \/ source'[s] = Gone
         /\ \A d \in Destination, p \in Project : In(destination[d], p) => In(destination'[d], p) \/ destination'[d] = Gone
         /\ \A s \in Source : source[s] = Gone => source'[s] = Gone
         /\ \A d \in Destination : destination[d] = Gone => destination'[d] = Gone
  BY RowsMove, RowsAreThere, EndpointsAssumption DEF In, Patches, Whole, SourceInserted, DestinationInserted

LEMMA EndsMeetStep ==
  ASSUME ManagementTyped, EndsMeet, NEW c \in Request, StepOf(c)
  PROVE  EndsMeet'
<1>0. call \in [Request -> Calls] BY DEF ManagementTyped
<1>1. ASSUME NEW d \in Request, call'[d].pc = "connect"
      PROVE  \E p \in Project : /\ In(source'[call'[d].source], p) \/ source'[call'[d].source] = Gone
                                /\ In(destination'[call'[d].destination], p) \/ destination'[call'[d].destination] = Gone
  <2>1. CASE call'[d] = call[d]
    <3>1. call[d] \in Connecting BY <1>0, <1>1, <2>1, Shapes
    <3>2. call[d].source \in Source /\ call[d].destination \in Destination BY <3>1 DEF Connecting
    <3>3. PICK p \in Project : /\ In(source[call[d].source], p) \/ source[call[d].source] = Gone
                               /\ In(destination[call[d].destination], p) \/ destination[call[d].destination] = Gone
      BY <1>1, <2>1 DEF EndsMeet, Joinable
    <3> QED BY <2>1, <3>2, <3>3, RowsStay
  <2>2. CASE d = c /\ Arrives(c)
    <3>1. PICK s \in Source, e \in Destination : FindEnds(c, s, e) BY <1>1, <2>2 DEF Arrives, ArrivesBy
    <3>2. /\ In(source[s], call[c].project) /\ In(destination[e], call[c].project)
          /\ call'[c].source = s /\ call'[c].destination = e /\ UNCHANGED <<source, destination>>
          /\ call[c].pc = "createConnection"
      BY <1>0, <3>1 DEF FindEnds, EndsInProject, At, endpoints
    <3>3. call[c].project \in Project BY <3>2, Carried, RoutesSplit
    <3> QED BY <2>2, <3>2, <3>3
  <2> QED BY <1>1, <2>1, <2>2, WhoMoves
<1> QED BY <1>1 DEF EndsMeet, Joinable, In, There

(* A connection that is there after a step was there before, or its request      *)
(* makes it, and no step that takes an end away leaves it.                      *)
LEMMA ConnectionsMove ==
  ASSUME ManagementTyped, NEW c \in Request, StepOf(c), NEW s \in Source, NEW d \in Destination,
         There(connection'[s, d])
  PROVE  \/ /\ There(connection[s, d])
            /\ There(source[s]) => source'[s] # Gone
            /\ There(destination[d]) => destination'[d] # Gone
         \/ /\ call[c].pc = "connect" /\ call[c].source = s /\ call[c].destination = d
            /\ There(source[s]) /\ There(destination[d]) /\ UNCHANGED <<source, destination>>
<1>0. /\ source \in [Source -> SourceRow \cup {None, Gone}]
      /\ destination \in [Destination -> DestinationRow \cup {None, Gone}]
      /\ connection \in [Source \X Destination -> {None, Gone, "running", "paused"}]
      /\ <<s, d>> \in Source \X Destination
  BY DEF ManagementTyped, EndpointsTyped
<1>1. CASE InsertEndpoint(c)
  <2>1. connection' = connection BY <1>1, InsertionMoves
  <2>2. There(source[s]) => source'[s] # Gone
    BY <1>1, InsertionMoves, RowsAreThere DEF SourceInserted, Whole, There
  <2>3. There(destination[d]) => destination'[d] # Gone
    BY <1>1, InsertionMoves, RowsAreThere DEF DestinationInserted, In, There
  <2> QED BY <2>1, <2>2, <2>3
<1>2. CASE WriteSource(c)
  <2>1. UNCHANGED <<destination, connection>> BY <1>2, WriteMoves
  <2>2. There(source[s]) => source'[s] # Gone BY <1>0, <1>2, WriteMoves, RowsAreThere DEF Patches, There
  <2> QED BY <2>1, <2>2 DEF There
<1>3. CASE Connect(c)
  <2> DEFINE t == call[c].source
             e == call[c].destination
             possible == There(source[t]) /\ There(destination[e]) /\ connection[t, e] = None
  <2>1. /\ call[c].pc = "connect" /\ UNCHANGED <<source, destination>>
        /\ connection' = [connection EXCEPT ![<<t, e>>] = IF possible THEN "running" ELSE connection[t, e]]
    BY <1>3 DEF Connect, SetConnection, At
  <2>2. CASE <<s, d>> = <<t, e>> /\ possible BY <2>1, <2>2
  <2>3. CASE ~ (<<s, d>> = <<t, e>> /\ possible)
    <3>1. connection'[s, d] = connection[s, d] BY <1>0, <2>1, <2>3
    <3> QED BY <2>1, <3>1 DEF There
  <2> QED BY <2>2, <2>3
<1>4. ASSUME NEW k \in Source \X Destination,
             (WritePause(c) /\ k = call[c].connection) \/ Unpause(c, k) \/ RemoveConnection(c, k)
      PROVE  There(connection[s, d]) /\ UNCHANGED <<source, destination>>
  <2>1. PICK row : /\ connection' = [connection EXCEPT ![k] = row] /\ UNCHANGED <<source, destination>>
                   /\ There(row) => There(connection[k])
    BY <1>4, RowsAreThere DEF WritePause, Unpause, RemoveConnection, SetConnection, Connected
  <2>2. CASE k = <<s, d>> BY <1>0, <2>1, <2>2
  <2>3. CASE k # <<s, d>> BY <1>0, <2>1, <2>3
  <2> QED BY <2>1, <2>2, <2>3
<1>5. CASE WritePause(c)
  <2>1. call[c] \in PauseWrite BY <1>5, Shapes DEF WritePause, At, ManagementTyped
  <2>2. call[c].connection \in Source \X Destination BY <2>1 DEF PauseWrite
  <2> QED BY <1>4, <1>5, <2>2 DEF There
<1>6. ASSUME NEW t \in Source, RemoveSource(c, t)
      PROVE  There(connection[s, d]) /\ s # t /\ source'[s] = source[s] /\ destination' = destination
  BY <1>0, <1>6, RowsAreThere DEF RemoveSource
<1>7. ASSUME NEW e \in Destination, RemoveDestination(c, e)
      PROVE  There(connection[s, d]) /\ d # e /\ destination'[d] = destination[d] /\ source' = source
  BY <1>0, <1>7, RowsAreThere DEF RemoveDestination
<1>8. CASE DropsEndpoints
  <2>1. connection'[s, d] = IF Gone \in {source'[s], destination'[d]} THEN Gone ELSE connection[s, d]
    BY <1>0, <1>8 DEF DropsEndpoints, EndpointsGone
  <2> QED BY <2>1, RowsAreThere
<1>9. CASE UNCHANGED endpoints BY <1>9 DEF endpoints, There
<1> QED BY <1>1, <1>2, <1>3, <1>4, <1>5, <1>6, <1>7, <1>8, <1>9, WhoWrites DEF Writers, WritesEndpoints, There

LEMMA JoinsOneProjectStep ==
  ASSUME ManagementTyped, EndsMeet, JoinsOneProject, NEW c \in Request, StepOf(c)
  PROVE  JoinsOneProject'
<1>1. ASSUME NEW s \in Source, NEW d \in Destination, There(connection'[s, d])
      PROVE  \E p \in Project : In(source'[s], p) /\ In(destination'[d], p)
  <2>1. CASE /\ There(connection[s, d])
             /\ There(source[s]) => source'[s] # Gone
             /\ There(destination[d]) => destination'[d] # Gone
    <3>1. PICK p \in Project : In(source[s], p) /\ In(destination[d], p)
      BY <2>1 DEF JoinsOneProject, Sources, Destinations
    <3> QED BY <2>1, <3>1, RowsStay DEF In
  <2>2. CASE /\ call[c].pc = "connect" /\ call[c].source = s /\ call[c].destination = d
             /\ There(source[s]) /\ There(destination[d]) /\ UNCHANGED <<source, destination>>
    BY <2>2, RowsAreThere DEF EndsMeet, Joinable
  <2> QED BY <1>1, <2>1, <2>2, ConnectionsMove
<1> QED BY <1>1 DEF JoinsOneProject, Sources, Destinations, In, There

-----------------------------------------------------------------------------
(* A project created with a key has one, so a request that is to make one is    *)
(* about a project from before; what was used is the key that is stored.        *)
OldOnesLackKeys == \A c \in Request : call[c].pc = "setSecret" => call[c].project \in legacy
CreatedHaveKeys == \A p \in Project : home[p] # None /\ p \notin legacy => secret[p] # 0
UsedWereMade ==
  \A p \in Project, v \in Nat : <<p, v>> \in used => p \in legacy \/ home[p] # None \/ p \in gone
UsedIsStored ==
  \A p \in Project \ (legacy \cup rotated), v \in Nat : <<p, v>> \in used => secret[p] = v
KeysAreKept == OldOnesLackKeys /\ CreatedHaveKeys /\ UsedWereMade /\ UsedIsStored

LEMMA OldOnesLackKeysStep ==
  ASSUME ManagementTyped, ProjectIsKnown, OldOnesLackKeys, CreatedHaveKeys, NEW c \in Request, StepOf(c)
  PROVE  OldOnesLackKeys'
<1>0. /\ call \in [Request -> Calls] /\ home \in [Project -> Org \cup {None}] BY DEF ManagementTyped, AccessTyped
<1>1. legacy' = legacy
  BY WhoWrites DEF Writers, keys, WritesKeys, GetSigningSecret, SetSecret, RotateSigningSecret, InsertProject,
                   LoadSecret, Use, MakeSecret
<1> SUFFICES ASSUME NEW d \in Request, call'[d].pc = "setSecret" PROVE call'[d].project \in legacy
  BY <1>1 DEF OldOnesLackKeys
<1>2. CASE call'[d] = call[d] BY <1>2 DEF OldOnesLackKeys
<1>3. CASE d = c /\ Arrives(c)
  <2>1. CASE GetSigningSecret(c)
    <3>1. call[c].pc = "getSigningSecret" BY <2>1 DEF GetSigningSecret, At
    <3>2. call[c] \in Admitted BY <1>0, <3>1, Shapes DEF WritingRoutes
    <3>3. ~ End(c) BY <1>0, <1>3, GoingOn DEF NoCall
    <3>4. Goto(c, "setSecret") /\ home[call[c].project] = call[c].org /\ secret[call[c].project] = 0
      BY <2>1, <3>3 DEF GetSigningSecret, InHome
    <3>5. call'[c].project = call[c].project BY <1>0, <3>2, <3>4, GoingOn
    <3>6. call[c].project \in Project /\ call[c].org \in Org BY <3>1, Carried, RoutesSplit DEF WritingRoutes
    <3> QED BY <1>3, <3>4, <3>5, <3>6, AccessAssumption DEF CreatedHaveKeys
  <2>2. ASSUME NEW p \in Project, LoadSecret(c, p) PROVE call'[c].project \in legacy
    <3>1. call[c].pc = "idle" BY <2>2 DEF LoadSecret, At
    <3>2. home[p] # None /\ secret[p] = 0 /\ call'[c].project = p BY <1>0, <1>3, <2>2, <3>1 DEF LoadSecret
    <3> QED BY <3>2 DEF CreatedHaveKeys
  <2> QED BY <1>3, <2>1, <2>2 DEF Arrives, ArrivesBy
<1> QED BY <1>2, <1>3, WhoMoves

(* What a step does to the keys of one project: it makes the first, shows the    *)
(* one there is, makes one for a project from before, or rotates.               *)
LEMMA KeysMove ==
  ASSUME ManagementTyped, ProjectIsKnown, OldOnesLackKeys, NEW c \in Request, StepOf(c), NEW p \in Project
  PROVE  /\ legacy' = legacy /\ rotated \subseteq rotated'
         /\ \/ /\ secret'[p] = secret[p]
               /\ \A v \in Nat : <<p, v>> \in used' =>
                    <<p, v>> \in used \/ (v = secret[p] /\ home[p] # None)
            \/ /\ secret'[p] # 0 /\ home[p] = None /\ p \notin gone /\ used' = used
            \/ /\ secret'[p] # 0 /\ home[p] # None /\ p \in legacy \cup rotated'
<1>0. /\ call \in [Request -> Calls] /\ home \in [Project -> Org \cup {None}]
      /\ secret \in [Project -> Nat] /\ secrets \in Nat /\ None \notin Org
  BY AccessAssumption DEF ManagementTyped, AccessTyped, ProjectsTyped
<1>1. ASSUME NEW q \in Project, Use(q), home[q] # None
      PROVE  /\ legacy' = legacy /\ rotated' = rotated /\ secret' = secret
             /\ \A v \in Nat : <<p, v>> \in used' => <<p, v>> \in used \/ (v = secret[p] /\ home[p] # None)
  BY <1>1 DEF Use
<1>2. ASSUME NEW q \in Project, MakeSecret(q)
      PROVE  /\ legacy' = legacy /\ secret'[q] # 0
             /\ p # q => secret'[p] = secret[p] /\ \A v \in Nat : <<p, v>> \in used' => <<p, v>> \in used
  BY <1>0, <1>2 DEF MakeSecret
<1>3. CASE UNCHANGED keys BY <1>3 DEF keys
<1>4. CASE GetSigningSecret(c)
  <2>1. call[c].project \in Project /\ call[c].org \in Org
    BY <1>4, Carried, RoutesSplit DEF GetSigningSecret, At, WritingRoutes
  <2> QED BY <1>0, <1>1, <1>3, <1>4, <2>1 DEF GetSigningSecret, InHome
<1>5. CASE SetSecret(c)
  <2>1. call[c].project \in legacy /\ call[c].project \in Project /\ call[c].org \in Org
    BY <1>5, Carried DEF SetSecret, At, OldOnesLackKeys
  <2>2. CASE InHome(c) /\ MakeSecret(call[c].project) /\ UNCHANGED rotated
    BY <1>0, <1>2, <2>1, <2>2 DEF InHome
  <2> QED BY <1>3, <1>5, <2>2 DEF SetSecret
<1>6. CASE RotateSigningSecret(c)
  <2>1. call[c].project \in Project /\ call[c].org \in Org
    BY <1>6, Carried, RoutesSplit DEF RotateSigningSecret, At, WritingRoutes
  <2>2. CASE InHome(c) /\ MakeSecret(call[c].project) /\ rotated' = rotated \cup {call[c].project}
    BY <1>0, <1>2, <2>1, <2>2 DEF InHome
  <2> QED BY <1>3, <1>6, <2>2 DEF RotateSigningSecret
<1>7. ASSUME NEW q \in Project, InsertProject(c, q)
      PROVE  /\ legacy' = legacy /\ rotated' = rotated /\ used' = used
             /\ IF p = q THEN secret'[p] # 0 /\ home[p] = None /\ p \notin gone ELSE secret'[p] = secret[p]
  BY <1>0, <1>7 DEF InsertProject, FirstSecret
<1>8. ASSUME NEW q \in Project, LoadSecret(c, q), ~ UNCHANGED keys PROVE Use(q) /\ home[q] # None
  BY <1>8 DEF LoadSecret
<1> QED BY <1>1, <1>3, <1>4, <1>5, <1>6, <1>7, <1>8, WhoWrites DEF Writers, WritesKeys

LEMMA KeysAreKeptStep ==
  ASSUME ManagementTyped, ProjectIsKnown, KeysAreKept, NEW c \in Request, StepOf(c)
  PROVE  KeysAreKept'
<1> USE DEF KeysAreKept
<1>0. /\ home \in [Project -> Org \cup {None}] /\ None \notin Org /\ secret \in [Project -> Nat]
  BY AccessAssumption DEF ManagementTyped, AccessTyped, ProjectsTyped
<1>1. OldOnesLackKeys' BY OldOnesLackKeysStep
<1>2. ASSUME NEW p \in Project, home'[p] # None, p \notin legacy' PROVE secret'[p] # 0
  <2>1. CASE home[p] # None BY <1>2, <2>1, KeysMove DEF CreatedHaveKeys
  <2>2. CASE home[p] = None
    <3>1. InsertProject(c, p) BY <1>2, <2>2, HomeMoves
    <3> QED BY <1>0, <3>1 DEF InsertProject, FirstSecret, ManagementTyped, ProjectsTyped
  <2> QED BY <2>1, <2>2
<1>3. ASSUME NEW p \in Project, NEW v \in Nat, <<p, v>> \in used'
      PROVE  p \in legacy' \/ home'[p] # None \/ p \in gone'
  <2>1. p \in legacy \/ home[p] # None \/ p \in gone BY <1>3, KeysMove DEF UsedWereMade
  <2> QED BY <2>1, KeysMove, HomeMoves
<1>4. ASSUME NEW p \in Project, p \notin legacy' \cup rotated', NEW v \in Nat, <<p, v>> \in used'
      PROVE  secret'[p] = v
  <2>1. p \notin legacy \cup rotated BY <1>4, KeysMove
  <2> QED BY <1>4, <2>1, KeysMove DEF UsedWereMade, UsedIsStored
<1> QED BY <1>1, <1>2, <1>3, <1>4 DEF CreatedHaveKeys, UsedWereMade, UsedIsStored

-----------------------------------------------------------------------------
(* Who is in charge of a free organization: its owner, of every request to its   *)
(* members.                                                                    *)
MemberSteps == {"changeRole", "removeMember", "invite", "cancelInvitation", "updateRole", "deleteMember", "checkSeats"}
OwnersAct ==
  \A c \in Request : call[c].pc \in MemberSteps /\ plan[call[c].org] = "free" => call[c].actor \in Owners(call[c].org)
SeatsAreCounted == \A c \in Request : call[c].pc = "checkSeats" => call[c].seats >= 1
FreeIsInCharge == OwnersAct /\ SeatsAreCounted

LEMMA OwnersAreMembers ==
  ASSUME ManagementTyped, OneOwner, NEW o \in Org
  PROVE  /\ Cardinality(Members(o)) \in Nat /\ Cardinality(Members(o)) >= 1
         /\ Cardinality(Members(o)) <= 1 => Members(o) \subseteq Owners(o)
<1>1. IsFiniteSet(Members(o)) /\ Cardinality(Members(o)) \in Nat BY MembersAreFinite
<1>2. Owners(o) \subseteq Members(o) BY AccessAssumption DEF Owners, Members, Roles
<1>3. Owners(o) # {} BY FS_EmptySet DEF OneOwner
<1>4. PICK w : w \in Owners(o) BY <1>3
<1>5. Cardinality(Members(o)) # 0 BY <1>1, <1>2, <1>4, FS_EmptySet
<1>6. ASSUME Cardinality(Members(o)) <= 1 PROVE Members(o) \subseteq Owners(o)
  <2>1. Cardinality(Members(o)) = 1 BY <1>1, <1>5, <1>6
  <2>2. PICK x : Members(o) = {x} BY <1>1, <2>1, FS_Singleton
  <2> QED BY <1>2, <1>4, <2>2
<1> QED BY <1>1, <1>5, <1>6

(* AuthGuard admits nobody but the owner to a free organization with more than   *)
(* one member, and one with one member has no other.                            *)
LEMMA OnlyOwnersEnter ==
  ASSUME ManagementTyped, OneOwner, NEW o \in Org, NEW u \in User, NEW op, MayEnter(o, u, op), plan[o] = "free"
  PROVE  u \in Owners(o)
<1>1. CASE member[o][u] = "owner" BY <1>1 DEF Owners
<1>2. CASE ~ exceedsMemberLimit("free", Cardinality(Members(o)))
  <2>1. Cardinality(Members(o)) <= 1 BY <1>2, OwnersAreMembers DEF exceedsMemberLimit
  <2>2. u \in Members(o) BY DEF MayEnter, Members
  <2> QED BY <2>1, <2>2, OwnersAreMembers
<1> QED BY <1>1, <1>2 DEF MayEnter

LEMMA OwnersActStep ==
  ASSUME ManagementTyped, OneOwner, NoOwnerIsTarget, FreeIsInCharge, NEW c \in Request, StepOf(c)
  PROVE  OwnersAct' /\ SeatsAreCounted'
<1>0. call \in [Request -> Calls] /\ plan' = plan BY WhoWrites DEF ManagementTyped, Writers
<1>1. ASSUME NEW d \in Request, call'[d].pc \in MemberSteps, plan[call'[d].org] = "free"
      PROVE  call'[d].org \in Org /\ call'[d].actor \in Owners(call'[d].org)
  <2>1. CASE call'[d] = call[d]
    <3>1. call[d].actor \in Owners(call[d].org)
      BY <1>1, <2>1 DEF FreeIsInCharge, OwnersAct
    <3>2. call[d].org \in Org BY <1>1, <2>1, Carried DEF MemberSteps, WritingRoutes
    <3> QED BY <2>1, <3>1, <3>2
  <2>2. CASE d = c /\ Arrives(c)
    <3>1. CASE call'[c].pc \in OrgOps \cap WritingRoutes
      <4>1. PICK op \in WritingRoutes : Enter(c, op) BY <2>2, <3>1 DEF Arrives, ArrivesBy
      <4>2. PICK o \in Org, u \in User : \E p : Admit(c, o, u, op, p) BY <4>1 DEF Enter
      <4>3. MayEnter(o, u, op) /\ call'[c].org = o /\ call'[c].actor = u
        BY <1>0, <3>1, <4>2 DEF Admit, WritingRoutes
      <4> QED BY <1>1, <2>2, <4>3, OnlyOwnersEnter
    <3>2. CASE call'[c].pc \in {"updateRole", "deleteMember", "checkSeats"}
      <4>1. PICK u \in User : ChangeRole(c, u) \/ Remove(c, u) \/ CountMembers(c, u)
        BY <2>2, <3>2 DEF Arrives, ArrivesBy
      <4>2. /\ call[c].pc \in MemberSteps /\ call'[c].org = call[c].org /\ call'[c].actor = call[c].actor
        BY <1>0, <4>1 DEF ChangeRole, Remove, CountMembers, At, MemberSteps
      <4>3. call[c].org \in Org BY <4>2, Carried DEF MemberSteps, WritingRoutes
      <4> QED BY <1>1, <2>2, <4>2, <4>3 DEF FreeIsInCharge, OwnersAct
    <3> QED BY <1>1, <2>2, <3>1, <3>2, RoutesSplit DEF MemberSteps
  <2> QED BY <1>1, <2>1, <2>2, WhoMoves
<1>2. ASSUME NEW d \in Request, call'[d].pc = "checkSeats" PROVE call'[d].seats >= 1
  <2>1. CASE call'[d] = call[d] BY <1>2, <2>1 DEF FreeIsInCharge, SeatsAreCounted
  <2>2. CASE d = c /\ Arrives(c)
    <3>1. PICK u \in User : CountMembers(c, u) BY <1>2, <2>2 DEF Arrives, ArrivesBy
    <3>2. call[c].pc = "invite" /\ call'[c].seats = Cardinality(Members(call[c].org))
      BY <1>0, <3>1 DEF CountMembers, At
    <3>3. call[c].org \in Org BY <3>2, Carried DEF WritingRoutes
    <3> QED BY <2>2, <3>2, <3>3, OwnersAreMembers
  <2> QED BY <2>1, <2>2, WhoMoves
<1>3. ASSUME NEW d \in Request, call'[d].pc \in MemberSteps, plan'[call'[d].org] = "free"
      PROVE  call'[d].actor \in {u \in User : member'[call'[d].org][u] = "owner"}
  BY <1>0, <1>1, <1>3, OwnersStay DEF Owners
<1>4. OwnersAct' BY <1>3 DEF OwnersAct, Owners
<1> QED BY <1>2, <1>4 DEF SeatsAreCounted

-----------------------------------------------------------------------------
(* What is written into an organization's members and invitations, and by whom.  *)
LEMMA TenantMoves ==
  ASSUME ManagementTyped, NEW c \in Request, StepOf(c), NEW o \in Org, Tenant(o)' # Tenant(o)
  PROVE  /\ Ends(c) /\ call[c].org = o
         /\ call[c].pc \in {"updateRole", "deleteMember", "checkSeats", "cancelInvitation", "acceptInvitation"}
<1>0. /\ call \in [Request -> Calls] /\ member \in [Org -> [User -> Roles \cup {None}]]
      /\ invitation \in [Org -> [User -> InvitationRow \cup {None}]]
  BY DEF ManagementTyped, AccessTyped, MembersTyped
<1>1. WritesMember(c) \/ WritesInvitation(c) BY WhoWrites DEF Writers, Tenant, invitations
<1>2. /\ End(c) /\ \A q \in Org \ {call[c].org} : member'[q] = member[q] /\ invitation'[q] = invitation[q]
      /\ call[c].pc \in {"updateRole", "deleteMember", "checkSeats", "cancelInvitation", "acceptInvitation"}
  <2>1. CASE UpdateRole(c) BY <1>0, <2>1 DEF UpdateRole, At, invitations
  <2>2. CASE DeleteMember(c) BY <1>0, <2>2 DEF DeleteMember, At, invitations
  <2>3. CASE AcceptInvitation(c) BY <1>0, <2>3 DEF AcceptInvitation, At
  <2>4. CASE Invite(c) BY <1>0, <2>4 DEF Invite, At, invitations
  <2>5. ASSUME NEW q \in Org, NEW u \in User, CancelInvitation(c, q, u)
        PROVE  /\ End(c) /\ call[c].pc = "cancelInvitation" /\ q = call[c].org /\ member' = member
               /\ \A r \in Org \ {q} : invitation'[r] = invitation[r]
    BY <1>0, <2>5 DEF CancelInvitation, At, DeletesFrom, access
  <2> QED BY <1>1, <2>1, <2>2, <2>3, <2>4, <2>5 DEF WritesMember, WritesInvitation
<1>3. call[c].org = o BY <1>2 DEF Tenant
<1>4. call[c] # NoCall BY <1>2 DEF NoCall
<1>5. call'[c] = NoCall BY <1>0, <1>2, GoingOn
<1> QED BY <1>2, <1>3, <1>4, <1>5 DEF Ends

(* To a free organization nobody is invited anew: its owner takes its seat.      *)
LEMMA NobodyIsInvitedAnew ==
  ASSUME ManagementTyped, FreeIsInCharge, NEW c \in Request, StepOf(c),
         NEW o \in Org, plan[o] = "free", NEW u \in User, invitation[o][u] = None
  PROVE  invitation'[o][u] = None
<1>0. invitation \in [Org -> [User -> InvitationRow \cup {None}]] BY DEF ManagementTyped, MembersTyped
<1>1. CASE UNCHANGED invitations BY <1>1 DEF invitations
<1>2. CASE Invite(c)
  <2> DEFINE l == call[c]
             taken == l.seats + Cardinality(Pending(l.org, l.target))
  <2>1. l.pc = "checkSeats" BY <1>2 DEF Invite, At
  <2>2. l.org \in Org /\ l.seats \in Nat /\ l.seats >= 1
    BY <2>1, Carried DEF FreeIsInCharge, SeatsAreCounted
  <2>3. Pending(l.org, l.target) \in SUBSET User BY DEF Pending
  <2>4. Cardinality(Pending(l.org, l.target)) \in Nat BY <2>3, AccessAssumption, FS_Subset, FS_CardinalityType
  <2>5. CASE plan[l.org] = "free"
    <3>1. ~ MayInvite(l, taken) BY <2>2, <2>4, <2>5 DEF MayInvite, exceedsMemberLimit
    <3> QED BY <1>2, <3>1 DEF Invite, invitations
  <2>6. CASE plan[l.org] # "free" BY <1>0, <1>2, <2>2, <2>6 DEF Invite, invitations
  <2> QED BY <2>5, <2>6
<1>3. CASE AcceptInvitation(c) BY <1>0, <1>3 DEF AcceptInvitation
<1>4. CASE \E q \in Org, w \in User : CancelInvitation(c, q, w) BY <1>0, <1>4 DEF CancelInvitation
<1> QED BY <1>1, <1>2, <1>3, <1>4, WhoWrites DEF Writers, WritesInvitation

-----------------------------------------------------------------------------
(* The inductive invariant.                                                    *)
CountsAreKept == LockIsHeld /\ ProjectIsKnown /\ ProjectsAreCounted /\ RowsHaveAHome /\ EndpointsAreCounted
ManagementInv ==
  /\ ManagementTyped
  /\ NoOwnerIsTarget /\ OneOwner /\ FreeIsInCharge
  /\ CountsAreKept /\ ProjectsWithinPlan /\ EndpointsWithinPlan
  /\ BothOrNeither /\ EndsMeet /\ JoinsOneProject
  /\ KeysAreKept

LEMMA ManagementStart == ManagementInit => ManagementInv
<1> SUFFICES ASSUME ManagementInit PROVE ManagementInv OBVIOUS
<1> USE DEF ManagementInit, AccessInit, MembersInit, ProjectsInit, EndpointsInit
<1>1. \A c \in Request : call[c].pc = "idle" BY DEF NoCall
<1>2. ManagementTyped
  <2>1. AccessTyped BY DEF AccessTyped
  <2>2. MembersTyped
    <3>1. \A r \in Given : NewInvitation(0, r) \in InvitationRow BY DEF NewInvitation, InvitationRow
    <3> QED BY <3>1 DEF MembersTyped
  <2>3. ProjectsTyped BY DEF ProjectsTyped
  <2>4. EndpointsTyped
    <3>1. \A p \in Existing, v \in BOOLEAN : [project |-> p, key |-> v, config |-> v] \in SourceRow
      BY DEF Existing, SourceRow
    <3>2. \A p \in Existing : [project |-> p] \in DestinationRow BY DEF Existing, DestinationRow
    <3>3. source \in [Source -> SourceRow \cup {None, Gone}] BY <3>1
    <3>4. destination \in [Destination -> DestinationRow \cup {None, Gone}] BY <3>2
    <3> QED BY <3>3, <3>4 DEF EndpointsTyped
  <2>5. call \in [Request -> Calls] BY DEF Calls
  <2>6. ProjectIsNamed BY <1>1, RoutesSplit DEF ProjectIsNamed, Named
  <2> QED BY <2>1, <2>2, <2>3, <2>4, <2>5, <2>6 DEF ManagementTyped
<1>3. NoOwnerIsTarget /\ OneOwner BY <1>1 DEF NoOwnerIsTarget, OneOwner
<1>4. FreeIsInCharge
  BY <1>1 DEF FreeIsInCharge, OwnersAct, SeatsAreCounted, MemberSteps
<1>5. \A s \in Source, d \in Destination : ~ There(connection[s, d]) BY RowsAreThere
<1>6. /\ \A s \in Source, p \in Project : In(source[s], p) => p \in Existing
      /\ \A d \in Destination, p \in Project : In(destination[d], p) => p \in Existing
      /\ BothOrNeither
  BY RowsAreThere DEF In, BothOrNeither
<1>7. RowsHaveAHome BY <1>6 DEF RowsHaveAHome, Sources, Destinations, Existing
<1>8. CountsAreKept
  BY <1>1, <1>7, RoutesSplit DEF CountsAreKept, LockIsHeld, ProjectIsKnown, ProjectsAreCounted, EndpointsAreCounted
<1>9. ProjectsWithinPlan BY DEF ProjectsWithinPlan
<1>10. EndpointsWithinPlan
  <2> SUFFICES ASSUME NEW p \in Project, home[p] # None
               PROVE  {Cardinality(Sources(p)), Cardinality(Destinations(p))} \subseteq 0 .. ENDPOINT_LIMIT(home[p])
    BY DEF EndpointsWithinPlan
  <2>1. Cardinality(Sources(p)) <= FreeEndpoints /\ Cardinality(Destinations(p)) <= FreeEndpoints
    BY DEF Existing
  <2>2. IsFiniteSet(Source \cup Destination) BY EndpointsAssumption, FS_Union
  <2>3. Sources(p) \in SUBSET (Source \cup Destination) /\ Destinations(p) \in SUBSET (Source \cup Destination)
    BY DEF Sources, Destinations
  <2>4. /\ Cardinality(Sources(p)) <= Cardinality(Source \cup Destination)
        /\ Cardinality(Destinations(p)) <= Cardinality(Source \cup Destination)
        /\ Cardinality(Source \cup Destination) \in Nat
    BY <2>2, <2>3, FS_Subset, FS_CardinalityType
  <2> HIDE DEF ManagementInit, AccessInit, MembersInit, ProjectsInit, EndpointsInit
  <2> QED BY <2>1, <2>4, EndpointsAreFinite, EndpointsAssumption DEF ENDPOINT_LIMIT
<1>11. EndsMeet /\ JoinsOneProject BY <1>1, <1>5 DEF EndsMeet, JoinsOneProject
<1>12. KeysAreKept
  BY <1>1 DEF KeysAreKept, OldOnesLackKeys, CreatedHaveKeys, UsedWereMade, UsedIsStored
<1> QED BY <1>2, <1>3, <1>4, <1>6, <1>8, <1>9, <1>10, <1>11, <1>12 DEF ManagementInv

LEMMA RequestKeepsInv ==
  ASSUME ManagementInv, NEW c \in Request, StepOf(c), ManagementTyped'
  PROVE  ManagementInv'
<1> USE DEF ManagementInv
<1>1. NoOwnerIsTarget' /\ OneOwner' BY NoOwnerIsTargetStep, OneOwnerStep
<1>2. FreeIsInCharge' BY OwnersActStep DEF FreeIsInCharge
<1>3. LockIsHeld' /\ ProjectIsKnown' BY LockIsHeldStep, ProjectIsKnownStep DEF CountsAreKept
<1>4. ProjectsAreCounted' /\ ProjectsWithinPlan' BY ProjectsWithinPlanStep DEF CountsAreKept
<1>5. RowsHaveAHome' /\ EndpointsAreCounted' /\ EndpointsWithinPlan'
  BY RowsHaveAHomeStep, EndpointsAreCountedStep, EndpointsWithinPlanStep DEF CountsAreKept
<1>6. BothOrNeither' BY BothOrNeitherStep
<1>7. EndsMeet' /\ JoinsOneProject' BY EndsMeetStep, JoinsOneProjectStep
<1>8. KeysAreKept' BY KeysAreKeptStep DEF CountsAreKept
<1> QED BY <1>1, <1>2, <1>3, <1>4, <1>5, <1>6, <1>7, <1>8 DEF CountsAreKept

(* The expiry of an invitation touches nothing else.                           *)
LEMMA RestKeepsInv ==
  ASSUME ManagementInv, UNCHANGED <<access, call, projects, endpoints>>, ManagementTyped'
  PROVE  ManagementInv'
<1> USE DEF access, projects, keys, endpoints
<1>1. NoOwnerIsTarget' /\ OneOwner' BY DEF ManagementInv, NoOwnerIsTarget, OneOwner, Owners
<1>2. FreeIsInCharge' BY DEF ManagementInv, FreeIsInCharge, OwnersAct, SeatsAreCounted, Owners
<1>3. LockIsHeld' /\ ProjectIsKnown' BY DEF ManagementInv, CountsAreKept, LockIsHeld, ProjectIsKnown
<1>4. ProjectsAreCounted' /\ ProjectsWithinPlan'
  BY DEF ManagementInv, CountsAreKept, ProjectsAreCounted, ProjectsWithinPlan, ProjectsOf, PROJECT_LIMIT
<1>5. \A p : Sources(p)' = Sources(p) /\ Destinations(p)' = Destinations(p)
  BY DEF Sources, Destinations, In, There
<1>6. RowsHaveAHome' /\ EndpointsWithinPlan'
  BY <1>5 DEF ManagementInv, CountsAreKept, RowsHaveAHome, EndpointsWithinPlan, ENDPOINT_LIMIT
<1>7. EndpointsAreCounted'
  <2>1. \A op, p : Count(op, p)' = Count(op, p) BY <1>5 DEF Count
  <2>2. ASSUME NEW d \in Request, call[d].pc = "insertEndpoint", home[call[d].project] # None
        PROVE  Count(call[d].op, call[d].project) <= call[d].count
    BY <2>2 DEF ManagementInv, CountsAreKept, EndpointsAreCounted
  <2>3. ASSUME NEW d \in Request, call'[d].pc = "insertEndpoint", home'[call'[d].project] # None
        PROVE  Count(call[d].op, call[d].project)' <= call'[d].count
    BY <1>5, <2>2, <2>3 DEF Count
  <2> QED BY <2>3 DEF EndpointsAreCounted
<1>8. BothOrNeither' BY DEF ManagementInv, BothOrNeither, There
<1>9. EndsMeet' BY DEF ManagementInv, EndsMeet, Joinable, In, There
<1>10. JoinsOneProject'
  <2>1. ASSUME NEW s \in Source, NEW d \in Destination, There(connection'[s, d])
        PROVE  \E p \in Project : s \in Sources(p)' /\ d \in Destinations(p)'
    BY <1>5, <2>1 DEF ManagementInv, JoinsOneProject
  <2> QED BY <2>1 DEF JoinsOneProject, There
<1>11. KeysAreKept'
  BY DEF ManagementInv, KeysAreKept, OldOnesLackKeys, CreatedHaveKeys, UsedWereMade, UsedIsStored
<1> QED BY <1>1, <1>2, <1>3, <1>4, <1>6, <1>7, <1>8, <1>9, <1>10, <1>11 DEF ManagementInv, CountsAreKept

LEMMA ManagementStep == ManagementInv /\ [ManagementNext(WritingRoutes)]_managementVars => ManagementInv'
<1> SUFFICES ASSUME ManagementInv, [ManagementNext(WritingRoutes)]_managementVars PROVE ManagementInv'
  OBVIOUS
<1>1. CASE ManagementNext(WritingRoutes)
  <2>1. ManagementTyped' BY <1>1, StepTyping DEF ManagementInv
  <2>2. CASE \E c \in Request : StepOf(c) BY <2>1, <2>2, RequestKeepsInv
  <2>3. ASSUME NEW o \in Org, NEW u \in User, ExpireInvitation(o, u), UNCHANGED <<projects, endpoints>>
        PROVE  ManagementInv'
    <3>1. UNCHANGED <<access, call, projects, endpoints>> BY <2>3 DEF ExpireInvitation
    <3> QED BY <2>1, <3>1, RestKeepsInv
  <2> QED BY <1>1, <2>2, <2>3, WhoSteps
<1>2. CASE UNCHANGED managementVars
  <2>1. UNCHANGED <<access, call, invitations, projects, endpoints>> BY <1>2 DEF managementVars
  <2>2. ManagementTyped'
    BY <2>1 DEF ManagementInv, ManagementTyped, AccessTyped, MembersTyped, ProjectsTyped, EndpointsTyped,
                ProjectIsNamed, Named, access, invitations, projects, keys, endpoints
  <2> QED BY <2>1, <2>2, RestKeepsInv
<1> QED BY <1>1, <1>2

-----------------------------------------------------------------------------
(* Whatever requests overlap, every organization keeps exactly one owner:       *)
(* MemberService.changeRole and remove look at the target once, and nobody      *)
(* becomes an owner meanwhile.                                                 *)
THEOREM OwnersAreKept == ManagementSpec => []OneOwner
<1>1. ManagementInv => OneOwner BY DEF ManagementInv
<1> QED BY <1>1, ManagementStart, ManagementStep, PTL DEF ManagementSpec

(* However many projects are created at once, none exceeds the plan:            *)
(* ProjectService.create counts and inserts under one lock.                     *)
THEOREM ProjectsStayWithinPlan == ManagementSpec => []ProjectsWithinPlan
<1>1. ManagementInv => ProjectsWithinPlan BY DEF ManagementInv
<1> QED BY <1>1, ManagementStart, ManagementStep, PTL DEF ManagementSpec

(* The same of the sources and destinations of a project, whose organization    *)
(* may delete it, or make others, at the same time.                            *)
THEOREM EndpointsStayWithinPlan == ManagementSpec => []EndpointsWithinPlan
<1>1. ManagementInv => EndpointsWithinPlan BY DEF ManagementInv
<1> QED BY <1>1, ManagementStart, ManagementStep, PTL DEF ManagementSpec

(* Patches of a source that cross each other never leave it with a key and no    *)
(* config, or the other way round.                                             *)
THEOREM SourcesAreWhole == ManagementSpec => []BothOrNeither
<1>1. ManagementInv => BothOrNeither BY DEF ManagementInv
<1> QED BY <1>1, ManagementStart, ManagementStep, PTL DEF ManagementSpec

(* A connection joins two rows of one project that are there: between the look   *)
(* at the ends and the insertion they may go, never move.                       *)
THEOREM ConnectionsJoin == ManagementSpec => []JoinsOneProject
<1>1. ManagementInv => JoinsOneProject BY DEF ManagementInv
<1> QED BY <1>1, ManagementStart, ManagementStep, PTL DEF ManagementSpec

(* The key a project was created with is the one its customer was shown and its *)
(* deliveries are signed with, until it is rotated.                            *)
THEOREM KeysStay == ManagementSpec => []CreatedSecretIsKept
<1>1. ManagementInv => CreatedSecretIsKept
  BY ProjectsAssumption DEF ManagementInv, KeysAreKept, UsedIsStored, CreatedSecretIsKept
<1> QED BY <1>1, ManagementStart, ManagementStep, PTL DEF ManagementSpec

-----------------------------------------------------------------------------
(* The effect of a step on the members of organizations.                       *)
LEMMA TenantSteps ==
  ASSUME ManagementInv, [ManagementNext(WritingRoutes)]_managementVars, NEW o \in Org, Tenant(o)' # Tenant(o)
  PROVE  \/ \E c \in Request : StepOf(c)
         \/ /\ call' = call /\ member' = member
            /\ \E q \in Org, u \in User : /\ invitation[q][u] # None
                                       /\ invitation' = [invitation EXCEPT ![q][u].expired = TRUE]
<1>1. ManagementNext(WritingRoutes) BY DEF managementVars, access, invitations, Tenant
<1> QED BY <1>1, WhoSteps DEF ExpireInvitation, access

(* A request writes into the members and invitations of no organization but its *)
(* own: every statement of MemberService and InvitationService names it.        *)
THEOREM TenantsAreIsolated == ManagementSpec => TenantIsolation
<1>1. ManagementInv /\ [ManagementNext(WritingRoutes)]_managementVars =>
        [\A o \in Org : Tenant(o)' # Tenant(o) =>
           \/ \E c \in Request : Ends(c) /\ call[c].org = o
           \/ call' = call]_membersVars
  BY TenantSteps, TenantMoves DEF ManagementInv
<1> QED BY <1>1, ManagementStart, ManagementStep, PTL DEF ManagementSpec, TenantIsolation

(* What becomes of one membership in a step.                                   *)
LEMMA MembershipMoves ==
  ASSUME ManagementInv, [ManagementNext(WritingRoutes)]_managementVars, NEW o \in Org, NEW u \in User,
         member'[o][u] # member[o][u]
  PROVE  \/ /\ member[o][u] = None /\ invitation[o][u] # None /\ invitation'[o][u] = None
         \/ member[o][u] # None /\ member'[o][u] = None
         \/ /\ member[o][u] # None /\ \E c \in Request : Ends(c) /\ At(c, "updateRole")
<1>0. /\ member \in [Org -> [User -> Roles \cup {None}]] /\ call \in [Request -> Calls]
      /\ invitation \in [Org -> [User -> InvitationRow \cup {None}]]
  BY DEF ManagementInv, ManagementTyped, AccessTyped, MembersTyped
<1>1. Tenant(o)' # Tenant(o) BY DEF Tenant
<1>2. PICK c \in Request : StepOf(c) BY <1>1, TenantSteps
<1>3. Ends(c) BY <1>1, <1>2, TenantMoves DEF ManagementInv
<1>4. WritesMember(c) BY <1>2, WhoWrites DEF Writers
<1>5. CASE UpdateRole(c) BY <1>0, <1>3, <1>5 DEF UpdateRole
<1>6. CASE DeleteMember(c) BY <1>0, <1>6 DEF DeleteMember
<1>7. CASE AcceptInvitation(c)
  <2> DEFINE l == call[c]
  <2>1. l.org \in Org /\ l.actor \in User BY <1>7, Carried DEF AcceptInvitation, At, ManagementInv
  <2>2. StillThere(l) BY <1>7 DEF AcceptInvitation
  <2>3. /\ invitation' = [invitation EXCEPT ![l.org][l.actor] = None]
        /\ member' = [member EXCEPT ![l.org][l.actor] = Joins(member[l.org][l.actor], l.read.role)]
    BY <1>7, <2>2 DEF AcceptInvitation
  <2>4. l.org = o /\ l.actor = u BY <1>0, <2>1, <2>3
  <2>5. member[o][u] = None BY <1>0, <2>1, <2>3, <2>4 DEF Joins
  <2> QED BY <1>0, <2>2, <2>3, <2>4, <2>5 DEF StillThere
<1> QED BY <1>4, <1>5, <1>6, <1>7 DEF WritesMember

(* A free organization gets nobody beyond those in it or invited to it, and only *)
(* its owner, or the accepting of an invitation from before, changes who they   *)
(* are: AuthGuard.canActivate and the seat check of InvitationService.create.   *)
THEOREM FreeSeatsStay == ManagementSpec => FreeSeatsNeverGrow
<1>1. ASSUME ManagementInv, [ManagementNext(WritingRoutes)]_managementVars,
             NEW o \in Org, plan[o] = "free", Tenant(o)' # Tenant(o)
      PROVE  /\ Seated(o)' \subseteq Seated(o)
             /\ \/ \E c \in Request : /\ Ends(c) /\ call[c].org = o
                                    /\ (call[c].actor \in Owners(o) \/ At(c, "acceptInvitation"))
                \/ call' = call
  <2>1. ASSUME NEW u \in User, member'[o][u] # None PROVE u \in Seated(o)
    <3>1. CASE member'[o][u] = member[o][u] BY <2>1, <3>1 DEF Seated
    <3>2. CASE member'[o][u] # member[o][u] BY <1>1, <2>1, <3>2, MembershipMoves DEF Seated
    <3> QED BY <3>1, <3>2
  <2>2. CASE \E c \in Request : StepOf(c)
    <3>1. PICK c \in Request : StepOf(c) BY <2>2
    <3>2. /\ Ends(c) /\ call[c].org = o
          /\ call[c].pc \in {"updateRole", "deleteMember", "checkSeats", "cancelInvitation", "acceptInvitation"}
      BY <1>1, <3>1, TenantMoves DEF ManagementInv
    <3>3. call[c].actor \in Owners(o) \/ At(c, "acceptInvitation")
      BY <1>1, <3>2 DEF ManagementInv, FreeIsInCharge, OwnersAct, MemberSteps, At
    <3>4. ASSUME NEW u \in User, invitation'[o][u] # None PROVE u \in Seated(o)
      BY <1>1, <3>1, <3>4, NobodyIsInvitedAnew DEF ManagementInv, Seated
    <3>5. Seated(o)' \subseteq Seated(o) BY <2>1, <3>4 DEF Seated
    <3> QED BY <3>2, <3>3, <3>5
  <2>3. ASSUME call' = call, NEW q \in Org, NEW w \in User, invitation[q][w] # None,
               invitation' = [invitation EXCEPT ![q][w].expired = TRUE]
        PROVE  Seated(o)' \subseteq Seated(o) /\ call' = call
    <3>1. invitation \in [Org -> [User -> InvitationRow \cup {None}]]
      BY <1>1 DEF ManagementInv, ManagementTyped, MembersTyped
    <3>2. ASSUME NEW u \in User, invitation'[o][u] # None PROVE u \in Seated(o)
      BY <2>3, <3>1, <3>2 DEF Seated
    <3> QED BY <2>1, <2>3, <3>2 DEF Seated
  <2> QED BY <1>1, <2>2, <2>3, TenantSteps
<1>2. ManagementInv /\ [ManagementNext(WritingRoutes)]_managementVars =>
        [\A o \in Org : plan[o] = "free" /\ Tenant(o)' # Tenant(o) =>
           /\ Seated(o)' \subseteq Seated(o)
           /\ \/ \E c \in Request : /\ Ends(c) /\ call[c].org = o
                                  /\ (call[c].actor \in Owners(o) \/ At(c, "acceptInvitation"))
              \/ call' = call]_membersVars
  BY <1>1
<1> QED BY <1>2, ManagementStart, ManagementStep, PTL DEF ManagementSpec, FreeSeatsNeverGrow

(* Who joins an organization uses up an invitation that is there, by the         *)
(* delete of InvitationService.accept.                                         *)
THEOREM JoiningTakesAnInvitation == ManagementSpec => JoinConsumesInvitation
<1>1. ManagementInv /\ [ManagementNext(WritingRoutes)]_managementVars =>
        [\A o \in Org, u \in User : member[o][u] = None /\ member'[o][u] # None =>
           invitation[o][u] # None /\ invitation'[o][u] = None]_membersVars
  BY MembershipMoves
<1> QED BY <1>1, ManagementStart, ManagementStep, PTL DEF ManagementSpec, JoinConsumesInvitation

(* The role of a member is changed by changeRole, never by an old invitation.    *)
THEOREM RolesAreChangedOnPurpose == ManagementSpec => OnlyChangeRoleChangesRoles
<1>1. ManagementInv /\ [ManagementNext(WritingRoutes)]_managementVars =>
        [\A o \in Org, u \in User : member[o][u] # member'[o][u] /\ None \notin {member[o][u], member'[o][u]} =>
           \E c \in Request : Ends(c) /\ At(c, "updateRole")]_membersVars
  BY MembershipMoves
<1> QED BY <1>1, ManagementStart, ManagementStep, PTL DEF ManagementSpec, OnlyChangeRoleChangesRoles

=============================================================================
