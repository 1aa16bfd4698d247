----------------------------- MODULE Management -----------------------------
(* The management API: requests to members, invitations, projects, sources,    *)
(* destinations and connections of several organizations at once.  They meet   *)
(* in the rows of an organization and in the lock of its row.                  *)
EXTENDS Members, Projects, Endpoints

managementVars == <<access, call, invitations, projects, endpoints>>

ManagementInit == home \in [Project -> Org \cup {None}] /\ AccessInit /\ MembersInit /\ ProjectsInit /\ EndpointsInit

(* A route of a project names one in its path, of whatever organization.        *)
OrgOps == DOMAIN MemberRoutes \cup DOMAIN InvitationRoutes \cup {"createProject"}

Enter(c, op) ==
  /\ \E o \in Org, u \in User :
       IF op \in OrgOps THEN Admit(c, o, u, op, None) ELSE \E p \in Project : Admit(c, o, u, op, p)
  /\ UNCHANGED <<invitations, projects, endpoints>>

MembersNext ==
  /\ \/ \E c \in Request : MembersStep(c) \/ \E o \in Org, u \in User : FindByTokenHash(c, o, u)
     \/ \E o \in Org, u \in User : ExpireInvitation(o, u)
  /\ UNCHANGED <<projects, endpoints>>

(* A project that is deleted takes its endpoints with it.                       *)
ProjectsNext ==
  /\ \E c \in Request : ProjectsStep(c)
  /\ EndpointsGone({p \in Project : home[p] # None /\ home'[p] = None})
  /\ UNCHANGED invitations

EndpointsNext == (\E c \in Request : EndpointsStep(c)) /\ UNCHANGED <<invitations, projects>>

(* ops: the routes that are called.                                             *)
ManagementNext(ops) ==
  \/ \E c \in Request :
       \/ \E op \in ops : Enter(c, op)
       \/ ProjectInOrg(c) /\ UNCHANGED <<invitations, projects, endpoints>>
  \/ MembersNext \/ ProjectsNext \/ EndpointsNext

(* The routes that write.                                                       *)
WritingRoutes ==
  {"changeRole", "removeMember", "invite", "cancelInvitation",
   "createProject", "removeProject", "getSigningSecret", "rotateSigningSecret",
   "createSource", "updateSource", "removeSource", "createDestination", "removeDestination",
   "createConnection", "pause", "unpause", "removeConnection"}

ManagementSpec == ManagementInit /\ [][ManagementNext(WritingRoutes)]_managementVars

=============================================================================
