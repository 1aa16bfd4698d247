------------------------------- MODULE Roles --------------------------------
(* The roles of a member and the role every route of the management API asks   *)
(* for, by controller.                                                         *)
EXTENDS Integers

Roles == {"member", "admin", "owner"}
RANK == [member |-> 0, admin |-> 1, owner |-> 2]
satisfiesRole(actual, required) == RANK[actual] >= RANK[required]

OrgRoutes == [getOrg |-> "member", updateOrg |-> "admin"]

UsageRoutes == [getUsage |-> "member"]

MemberRoutes == [listMembers |-> "member", changeRole |-> "admin", removeMember |-> "member"]

InvitationRoutes == [listInvitations |-> "admin", invite |-> "admin", cancelInvitation |-> "admin"]

ProjectRoutes ==
  [listProjects |-> "member", getProject |-> "member", createProject |-> "admin", updateProject |-> "admin",
   removeProject |-> "admin", getSigningSecret |-> "admin", rotateSigningSecret |-> "admin"]

SourceRoutes ==
  [op \in {"listSources", "createSource", "getSource", "updateSource", "rotateSlug", "removeSource"} |-> "member"]

DestinationRoutes ==
  [op \in {"listDestinations", "createDestination", "getDestination", "updateDestination", "removeDestination"} |-> "member"]

ConnectionRoutes ==
  [op \in {"listConnections", "createConnection", "getConnection", "updateConnection", "pause", "unpause",
           "removeConnection"} |-> "member"]

EventRoutes == [op \in {"listEvents", "getEvent", "getEventBody", "replay"} |-> "member"]

RejectedRoutes == [listRejected |-> "member"]

DeliveryRoutes ==
  [op \in {"listDeliveries", "bulkRetry", "getDelivery", "retry", "cancel"} |-> "member"]

(* The role a route asks for, whichever controller it is of.                    *)
Routes ==
  {OrgRoutes, UsageRoutes, MemberRoutes, InvitationRoutes, ProjectRoutes, SourceRoutes, DestinationRoutes,
   ConnectionRoutes, EventRoutes, RejectedRoutes, DeliveryRoutes}

Required(op) == LET r == CHOOSE r \in Routes : op \in DOMAIN r IN r[op]

=============================================================================
