------------------------------ MODULE Screens -------------------------------
(* The screens of the console.  Of a page: what it reads while it is shown,     *)
(* the list whose rows open its sheet, whether it goes on showing the rows it   *)
(* had while it reads others, and what can be done on it.  Of a sheet: whether  *)
(* it waits for its row in the page's list or reads it itself, by the id in     *)
(* the address, and what can be done to the row.  Every operation comes with    *)
(* the queries its onSuccess has read again, in this order.  Layout, names and  *)
(* inputs, filters and the further pages of a list are left out; the form of a  *)
(* destination is in Forms.                                                      *)
EXTENDS Roles, Sequences, Functions

CONSTANT None

PlainPage == [reads |-> {}, rows |-> None, keepsRows |-> FALSE, acts |-> <<>>]
NoSheet == [byId |-> FALSE, reads |-> {}, acts |-> <<>>]

EventsPage == [reads |-> {"sources", "events"}, rows |-> "events", keepsRows |-> TRUE, acts |-> <<>>]
RejectedTable == [reads |-> {"sources", "rejected"}, rows |-> None, keepsRows |-> TRUE, acts |-> <<>>]
EventSheet == [byId |-> TRUE, reads |-> {"event", "event-body"}, acts |-> [replay |-> <<"events">>]]

BulkRetryDialog == [bulkRetry |-> <<"deliveries">>]
DeliveriesPage ==
  [reads |-> {"destinations", "deliveries"}, rows |-> "deliveries", keepsRows |-> TRUE, acts |-> BulkRetryDialog]

DeliverySheet ==
  [byId |-> TRUE, reads |-> {"delivery"},
   acts |-> [retry |-> <<"delivery", "deliveries">>, cancel |-> <<"delivery", "deliveries">>]]

CreateDialog == [createConnection |-> <<"connections">>]
ConnectionsPage ==
  [reads |-> {"sources", "destinations", "connections"}, rows |-> "connections", keepsRows |-> FALSE,
   acts |-> CreateDialog]
ConnectionSheet ==
  [NoSheet EXCEPT !.acts = [op \in {"updateConnection", "pause", "unpause", "removeConnection"} |-> <<"connections">>]]

SourcesPage ==
  [reads |-> {"sources"}, rows |-> "sources", keepsRows |-> FALSE, acts |-> [createSource |-> <<"sources">>]]
SourceSheet == [NoSheet EXCEPT !.acts = [op \in {"updateSource", "rotateSlug", "removeSource"} |-> <<"sources">>]]

DestinationsPage ==
  [reads |-> {"destinations"}, rows |-> "destinations", keepsRows |-> FALSE,
   acts |-> [createDestination |-> <<"destinations">>]]
DestinationSheet ==
  [NoSheet EXCEPT !.acts = [op \in {"updateDestination", "removeDestination"} |-> <<"destinations">>]]

(* The settings offer more to those who were admin or owner when the list of     *)
(* organizations was read.                                                      *)
isAdmin(role) == role # "member"

OrgSettings(role) ==
  LET acts == [updateOrg |-> <<"projects">>, changeRole |-> <<"members">>, removeMember |-> <<"members">>,
               invite |-> <<"invitations">>, cancelInvitation |-> <<"invitations">>, leave |-> <<>>]
      mine == (IF isAdmin(role) THEN DOMAIN acts \ {"leave"} ELSE {}) \cup IF role = "owner" THEN {} ELSE {"leave"}
  IN [PlainPage EXCEPT !.reads = {"me", "members"} \cup IF isAdmin(role) THEN {"invitations"} ELSE {},
                       !.acts = Restrict(acts, mine)]

ProjectSettingsOfAll(role) ==
  [PlainPage EXCEPT
     !.acts = [updateProject |-> <<"projects">>, getSigningSecret |-> <<>>, rotateSigningSecret |-> <<>>,
               removeProject |-> <<"projects">>]]
ProjectSettings(role) ==
  [PlainPage EXCEPT
     !.acts = IF isAdmin(role)
                THEN [updateProject |-> <<"projects">>, getSigningSecret |-> <<>>, rotateSigningSecret |-> <<>>,
                      removeProject |-> <<"projects">>]
                ELSE <<>>]

UsagePage == [PlainPage EXCEPT !.reads = {"usage"}]
MePage == [PlainPage EXCEPT !.reads = {"me"}]

(* Besides its page AppShell offers to make a project.                           *)
AppShell == [createProject |-> <<"projects">>]

InvitationAcceptPage == [acceptInvitation |-> <<"projects">>]

(* The routes.                                                                   *)
Inner == {"events", "rejected", "deliveries", "connections", "sources", "destinations", "settings", "usage", "org", "me"}
Outer == {"login", "invitation"}

Screen(page, role) ==
  CASE page = "events" -> EventsPage
    [] page = "rejected" -> RejectedTable
    [] page = "deliveries" -> DeliveriesPage
    [] page = "connections" -> ConnectionsPage
    [] page = "sources" -> SourcesPage
    [] page = "destinations" -> DestinationsPage
    [] page = "settings" -> ProjectSettings(role)
    [] page = "usage" -> UsagePage
    [] page = "org" -> OrgSettings(role)
    [] page = "me" -> MePage
    [] OTHER -> PlainPage

SheetOf(page) ==
  CASE page = "events" -> EventSheet
    [] page = "deliveries" -> DeliverySheet
    [] page = "connections" -> ConnectionSheet
    [] page = "sources" -> SourceSheet
    [] page = "destinations" -> DestinationSheet
    [] OTHER -> NoSheet

ProjectQueries == {"sources", "destinations", "connections", "events", "rejected", "deliveries"}
RowQueries == {"event", "event-body", "delivery"}
RowOps == UNION {DOMAIN SheetOf(page).acts : page \in Inner}

(* What an operation changes in the answers to the queries.                      *)
Touched(op) ==
  CASE op \in DOMAIN SourceRoutes -> {"sources"} \cup IF op = "removeSource" THEN {"connections"} ELSE {}
    [] op = "removeDestination" -> {"destinations", "connections", "deliveries"}
    [] op \in {"createDestination", "updateDestination"} -> {"destinations"}
    [] op \in DOMAIN ConnectionRoutes -> {"connections"} \cup IF op = "unpause" THEN {"deliveries"} ELSE {}
    [] op = "replay" -> {"events", "deliveries"}
    [] op \in DOMAIN DeliveryRoutes -> {"delivery", "deliveries"}
    [] op = "updateOrg" -> {"projects"}
    [] op \in {"createProject", "updateProject", "removeProject"} -> {"projects", "usage"}
    [] op \in {"changeRole", "removeMember"} -> {"members"}
    [] op \in {"invite", "cancelInvitation"} -> {"invitations"}
    [] op \in {"leave", "acceptInvitation"} -> {"projects", "members"}
    [] OTHER -> {}
=============================================================================
