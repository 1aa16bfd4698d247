--------------------------- MODULE ConsoleProofs ---------------------------
(* Proofs about the console, for any number of projects and of operations at    *)
(* once, whatever pages are visited and whatever goes wrong.                    *)
EXTENDS Console, TLAPS

-----------------------------------------------------------------------------
(* What the screens offer and read: the tables of Screens, page by page.        *)

LEMMA SheetOps ==
  ASSUME NEW page \in Inner, NEW op \in DOMAIN SheetOf(page).acts
  PROVE  \/ page = "events" /\ op = "replay" /\ SheetOf(page).acts[op] = <<"events">>
         \/ page = "deliveries" /\ op \in {"retry", "cancel"} /\ SheetOf(page).acts[op] = <<"delivery", "deliveries">>
         \/ /\ page = "connections" /\ SheetOf(page).acts[op] = <<"connections">>
            /\ op \in {"updateConnection", "pause", "unpause", "removeConnection"}
         \/ /\ page = "sources" /\ SheetOf(page).acts[op] = <<"sources">>
            /\ op \in {"updateSource", "rotateSlug", "removeSource"}
         \/ /\ page = "destinations" /\ SheetOf(page).acts[op] = <<"destinations">>
            /\ op \in {"updateDestination", "removeDestination"}
<1>1. CASE page = "events" BY <1>1 DEF SheetOf, EventSheet
<1>2. CASE page = "deliveries" BY <1>2 DEF SheetOf, DeliverySheet
<1>3. CASE page = "connections" BY <1>3 DEF SheetOf, ConnectionSheet, NoSheet
<1>4. CASE page = "sources" BY <1>4 DEF SheetOf, SourceSheet, NoSheet
<1>5. CASE page = "destinations" BY <1>5 DEF SheetOf, DestinationSheet, NoSheet
<1>6. CASE page \notin {"events", "deliveries", "connections", "sources", "destinations"}
  BY <1>6 DEF SheetOf, NoSheet
<1> QED BY <1>1, <1>2, <1>3, <1>4, <1>5, <1>6

(* What can be done on a page, and for whom.                                    *)
AdminOps ==
  {"createProject", "updateOrg", "changeRole", "removeMember", "invite", "cancelInvitation", "updateProject", "getSigningSecret",
   "rotateSigningSecret", "removeProject"}

LEMMA PageOps ==
  ASSUME NEW page \in Inner, NEW role, NEW op \in DOMAIN Screen(page, role).acts
  PROVE  \/ page = "deliveries" /\ op = "bulkRetry" /\ Screen(page, role).acts[op] = <<"deliveries">>
         \/ page = "connections" /\ op = "createConnection" /\ Screen(page, role).acts[op] = <<"connections">>
         \/ page = "sources" /\ op = "createSource" /\ Screen(page, role).acts[op] = <<"sources">>
         \/ page = "destinations" /\ op = "createDestination" /\ Screen(page, role).acts[op] = <<"destinations">>
         \/ /\ page = "settings" /\ isAdmin(role)
            /\ \/ op \in {"updateProject", "removeProject"} /\ Screen(page, role).acts[op] = <<"projects">>
               \/ op \in {"getSigningSecret", "rotateSigningSecret"} /\ Screen(page, role).acts[op] = <<>>
         \/ /\ page = "org" /\ isAdmin(role)
            /\ \/ op = "updateOrg" /\ Screen(page, role).acts[op] = <<"projects">>
               \/ op \in {"changeRole", "removeMember"} /\ Screen(page, role).acts[op] = <<"members">>
               \/ op \in {"invite", "cancelInvitation"} /\ Screen(page, role).acts[op] = <<"invitations">>
         \/ page = "org" /\ op = "leave" /\ Screen(page, role).acts[op] = <<>>
<1>1. CASE page = "deliveries" BY <1>1 DEF Screen, DeliveriesPage, BulkRetryDialog
<1>2. CASE page = "connections" BY <1>2 DEF Screen, ConnectionsPage, CreateDialog
<1>3. CASE page = "sources" BY <1>3 DEF Screen, SourcesPage
<1>4. CASE page = "destinations" BY <1>4 DEF Screen, DestinationsPage
<1>5. CASE page = "settings" BY <1>5 DEF Screen, ProjectSettings, PlainPage
<1>6. CASE page = "org"
  <2> DEFINE acts == [updateOrg |-> <<"projects">>, changeRole |-> <<"members">>, removeMember |-> <<"members">>,
                      invite |-> <<"invitations">>, cancelInvitation |-> <<"invitations">>, leave |-> <<>>]
             mine == (IF isAdmin(role) THEN DOMAIN acts \ {"leave"} ELSE {}) \cup IF role = "owner" THEN {} ELSE {"leave"}
  <2>1. Screen(page, role).acts = Restrict(acts, mine) BY <1>6 DEF Screen, OrgSettings, PlainPage
  <2>2. op \in mine /\ Screen(page, role).acts[op] = acts[op] BY <2>1 DEF Restrict
  <2>3. op = "leave" \/ (isAdmin(role) /\ op \in DOMAIN acts \ {"leave"}) BY <2>2
  <2> QED BY <1>6, <2>2, <2>3
<1>7. CASE page \in {"events", "rejected", "usage", "me"}
  BY <1>7 DEF Screen, EventsPage, RejectedTable, UsagePage, MePage, PlainPage
<1> QED BY <1>1, <1>2, <1>3, <1>4, <1>5, <1>6, <1>7 DEF Inner

(* The queries a page or its sheet can read, for whatever role.                 *)
ReadBy(page) ==
  CASE page = "events" -> {"projects", "sources", "events", "event", "event-body"}
    [] page = "rejected" -> {"projects", "sources", "rejected"}
    [] page = "deliveries" -> {"projects", "destinations", "deliveries", "delivery"}
    [] page = "connections" -> {"projects", "sources", "destinations", "connections"}
    [] page = "sources" -> {"projects", "sources"}
    [] page = "destinations" -> {"projects", "destinations"}
    [] page = "usage" -> {"projects", "usage"}
    [] page = "org" -> {"projects", "me", "members", "invitations"}
    [] page = "me" -> {"projects", "me"}
    [] OTHER -> {"projects"}

LEMMA PageReads ==
  ASSUME NEW page \in Inner, NEW role
  PROVE  Screen(page, role).reads \cup SheetOf(page).reads \subseteq ReadBy(page)
<1>1. CASE page = "events" BY <1>1 DEF Screen, SheetOf, ReadBy, EventsPage, EventSheet
<1>2. CASE page = "deliveries" BY <1>2 DEF Screen, SheetOf, ReadBy, DeliveriesPage, DeliverySheet
<1>3. CASE page = "connections" BY <1>3 DEF Screen, SheetOf, ReadBy, ConnectionsPage, ConnectionSheet, NoSheet
<1>4. CASE page = "sources" BY <1>4 DEF Screen, SheetOf, ReadBy, SourcesPage, SourceSheet, NoSheet
<1>5. CASE page = "destinations" BY <1>5 DEF Screen, SheetOf, ReadBy, DestinationsPage, DestinationSheet, NoSheet
<1>6. CASE page = "org" BY <1>6 DEF Screen, SheetOf, ReadBy, OrgSettings, PlainPage, NoSheet
<1>7. CASE page = "settings" BY <1>7 DEF Screen, SheetOf, ReadBy, ProjectSettings, PlainPage, NoSheet
<1>8. CASE page \in {"rejected", "usage", "me"}
  BY <1>8 DEF Screen, SheetOf, ReadBy, RejectedTable, UsagePage, MePage, PlainPage, NoSheet
<1> QED BY <1>1, <1>2, <1>3, <1>4, <1>5, <1>6, <1>7, <1>8 DEF Inner

(* What is done to a row is offered by the sheet of one kind of row.            *)
LEMMA RowOpsAre ==
  RowOps \subseteq {"replay", "retry", "cancel", "updateConnection", "pause", "unpause", "removeConnection", "updateSource",
                    "rotateSlug", "removeSource", "updateDestination", "removeDestination"}
BY SheetOps DEF RowOps

LEMMA SheetActsAreRowOps ==
  {"replay", "retry", "cancel", "rotateSlug", "removeSource", "removeDestination", "removeConnection"} \subseteq RowOps
<1> DEFINE acts(page) == DOMAIN SheetOf(page).acts
<1>1. "replay" \in acts("events") BY DEF SheetOf, EventSheet
<1>2. "retry" \in acts("deliveries") /\ "cancel" \in acts("deliveries") BY DEF SheetOf, DeliverySheet
<1>3. "rotateSlug" \in acts("sources") /\ "removeSource" \in acts("sources") BY DEF SheetOf, SourceSheet, NoSheet
<1>4. "removeDestination" \in acts("destinations") BY DEF SheetOf, DestinationSheet, NoSheet
<1>5. "removeConnection" \in acts("connections") BY DEF SheetOf, ConnectionSheet, NoSheet
<1>6. {"events", "deliveries", "sources", "destinations", "connections"} \subseteq Inner BY DEF Inner
<1>7. \A page \in Inner : acts(page) \subseteq RowOps BY DEF RowOps
<1> HIDE DEF acts
<1> QED BY <1>1, <1>2, <1>3, <1>4, <1>5, <1>6, <1>7

(* What a member is offered asks for a member, and nothing offered asks for more *)
(* than an admin.                                                                *)
MemberOps ==
  {"replay", "retry", "cancel", "bulkRetry", "createConnection", "updateConnection", "pause", "unpause", "removeConnection",
   "createSource", "updateSource", "rotateSlug", "removeSource", "createDestination", "updateDestination",
   "removeDestination", "leave"}

LEMMA RoutesAsk ==
  ASSUME NEW r \in Routes
  PROVE  /\ \A op \in DOMAIN r : r[op] \in {"member", "admin"}
         /\ \A op \in DOMAIN r : RouteOf(op) = op /\ op \in MemberOps \cup {"removeMember"} => r[op] = "member"
<1>1. CASE r \in {OrgRoutes, UsageRoutes} BY <1>1 DEF OrgRoutes, UsageRoutes, MemberOps
<1>2. CASE r = MemberRoutes BY <1>2 DEF MemberRoutes, MemberOps
<1>3. CASE r = InvitationRoutes BY <1>3 DEF InvitationRoutes, MemberOps
<1>4. CASE r = ProjectRoutes BY <1>4 DEF ProjectRoutes, MemberOps
<1>5. CASE r \in {SourceRoutes, DestinationRoutes} BY <1>5 DEF SourceRoutes, DestinationRoutes
<1>6. CASE r \in {ConnectionRoutes, EventRoutes} BY <1>6 DEF ConnectionRoutes, EventRoutes
<1>7. CASE r \in {RejectedRoutes, DeliveryRoutes} BY <1>7 DEF RejectedRoutes, DeliveryRoutes
<1> QED BY <1>1, <1>2, <1>3, <1>4, <1>5, <1>6, <1>7 DEF Routes

LEMMA EveryOpHasRoute ==
  ASSUME NEW op \in (MemberOps \cup AdminOps) \ {"leave"}
  PROVE  \E r \in Routes : op \in DOMAIN r
<1>1. CASE op \in {"replay"} BY <1>1 DEF Routes, EventRoutes
<1>2. CASE op \in {"retry", "cancel", "bulkRetry"} BY <1>2 DEF Routes, DeliveryRoutes
<1>3. CASE op \in {"createConnection", "updateConnection", "pause", "unpause", "removeConnection"}
  BY <1>3 DEF Routes, ConnectionRoutes
<1>4. CASE op \in {"createSource", "updateSource", "rotateSlug", "removeSource"} BY <1>4 DEF Routes, SourceRoutes
<1>5. CASE op \in {"createDestination", "updateDestination", "removeDestination"} BY <1>5 DEF Routes, DestinationRoutes
<1>6. CASE op \in {"updateOrg"} BY <1>6 DEF Routes, OrgRoutes
<1>7. CASE op \in {"changeRole", "removeMember"} BY <1>7 DEF Routes, MemberRoutes
<1>8. CASE op \in {"invite", "cancelInvitation"} BY <1>8 DEF Routes, InvitationRoutes
<1>9. CASE op \in {"createProject", "updateProject", "removeProject", "getSigningSecret", "rotateSigningSecret"}
  BY <1>9 DEF Routes, ProjectRoutes
<1> QED BY <1>1, <1>2, <1>3, <1>4, <1>5, <1>6, <1>7, <1>8, <1>9 DEF MemberOps, AdminOps

LEMMA MembersMay ==
  ASSUME NEW op \in MemberOps
  PROVE  Required(RouteOf(op)) = "member"
<1>1. RouteOf(op) \in (MemberOps \cup {"removeMember"}) \ {"leave"} BY DEF RouteOf, MemberOps
<1>2. RouteOf(RouteOf(op)) = RouteOf(op) BY DEF RouteOf
<1>3. \E r \in Routes : RouteOf(op) \in DOMAIN r BY <1>1, EveryOpHasRoute DEF AdminOps
<1>4. \A r \in Routes : RouteOf(op) \in DOMAIN r => r[RouteOf(op)] = "member" BY <1>1, <1>2, RoutesAsk
<1> HIDE DEF RouteOf, Routes
<1> QED BY <1>3, <1>4 DEF Required

LEMMA AdminsMay ==
  ASSUME NEW op \in AdminOps
  PROVE  Required(RouteOf(op)) \in {"member", "admin"}
<1>1. RouteOf(op) = op /\ op # "leave" BY DEF RouteOf, AdminOps
<1>2. \E r \in Routes : op \in DOMAIN r BY <1>1, EveryOpHasRoute
<1>3. \A r \in Routes : op \in DOMAIN r => r[op] \in {"member", "admin"} BY RoutesAsk
<1> QED BY <1>1, <1>2, <1>3 DEF Required

(* What an operation touches of what its page reads is read again afterwards,    *)
(* but for the usage and for the delivery a bulk retry sends.                    *)
Contains(s, q) == \E i \in DOMAIN s : s[i] = q

Reaches(op, page, reloads) ==
  page \in Inner /\ op # "leave" =>
    \A q \in Touched(op) \cap ReadBy(page) :
      q = "usage" \/ (op = "bulkRetry" /\ q = "delivery") \/ Contains(reloads, q)

LEMMA SourceOps ==
  ASSUME NEW op \in {"createSource", "updateSource", "rotateSlug", "removeSource"}
  PROVE  Touched(op) \subseteq {"sources", "connections"}
<1>1. op \in DOMAIN SourceRoutes BY DEF SourceRoutes
<1>2. op \notin DOMAIN ConnectionRoutes \cup DOMAIN DeliveryRoutes BY DEF ConnectionRoutes, DeliveryRoutes
<1>3. Touched(op) = {"sources"} \cup IF op = "removeSource" THEN {"connections"} ELSE {} BY <1>1, <1>2 DEF Touched
<1> QED BY <1>3

LEMMA ConnectionOps ==
  ASSUME NEW op \in {"createConnection", "updateConnection", "pause", "unpause", "removeConnection"}
  PROVE  Touched(op) \subseteq {"connections", "deliveries"}
<1>1. op \in DOMAIN ConnectionRoutes BY DEF ConnectionRoutes
<1>2. op \notin DOMAIN SourceRoutes \cup DOMAIN DeliveryRoutes BY DEF SourceRoutes, DeliveryRoutes
<1>3. Touched(op) = {"connections"} \cup IF op = "unpause" THEN {"deliveries"} ELSE {} BY <1>1, <1>2 DEF Touched
<1> QED BY <1>3

LEMMA DestinationOps ==
  ASSUME NEW op \in {"createDestination", "updateDestination", "removeDestination"}
  PROVE  Touched(op) \subseteq {"destinations", "connections", "deliveries"}
<1>1. op \notin DOMAIN SourceRoutes \cup DOMAIN ConnectionRoutes \cup DOMAIN DeliveryRoutes
  BY DEF SourceRoutes, ConnectionRoutes, DeliveryRoutes
<1> QED BY <1>1 DEF Touched

LEMMA DeliveryOps ==
  ASSUME NEW op \in {"replay", "retry", "cancel", "bulkRetry"}
  PROVE  Touched(op) = IF op = "replay" THEN {"events", "deliveries"} ELSE {"delivery", "deliveries"}
BY DEF Touched, SourceRoutes, ConnectionRoutes, DeliveryRoutes

LEMMA OrgOps ==
  ASSUME NEW op \in AdminOps
  PROVE  Touched(op) \subseteq CASE op = "updateOrg" -> {"projects"}
                                 [] op \in {"createProject", "updateProject", "removeProject"} -> {"projects", "usage"}
                                 [] op \in {"changeRole", "removeMember"} -> {"members"}
                                 [] op \in {"invite", "cancelInvitation"} -> {"invitations"}
                                 [] OTHER -> {}
BY DEF Touched, SourceRoutes, ConnectionRoutes, DeliveryRoutes, AdminOps

Queries ==
  {"projects", "sources", "destinations", "connections", "events", "rejected", "deliveries", "event", "event-body", "delivery",
   "usage", "me", "members", "invitations"}

LEMMA Known ==
  /\ "projects" \in Queries /\ "sources" \in Queries /\ "destinations" \in Queries /\ "connections" \in Queries
  /\ "events" \in Queries /\ "deliveries" \in Queries /\ "delivery" \in Queries
BY DEF Queries

LEMMA ShortLists ==
  ASSUME NEW S
  PROVE  /\ <<>> \in Seq(S)
         /\ \A q \in S : <<q>> \in Seq(S) /\ Contains(<<q>>, q)
         /\ \A p, q \in S : <<p, q>> \in Seq(S) /\ Contains(<<p, q>>, p) /\ Contains(<<p, q>>, q)
<1>1. <<>> \in Seq(S) OBVIOUS
<1>2. ASSUME NEW q \in S PROVE <<q>> \in Seq(S) /\ Contains(<<q>>, q)
  <2>1. 1 \in DOMAIN <<q>> /\ <<q>>[1] = q OBVIOUS
  <2>2. <<q>> \in Seq(S) OBVIOUS
  <2> QED BY <2>1, <2>2 DEF Contains
<1>3. ASSUME NEW p \in S, NEW q \in S
      PROVE  <<p, q>> \in Seq(S) /\ Contains(<<p, q>>, p) /\ Contains(<<p, q>>, q)
  <2>1. 1 \in DOMAIN <<p, q>> /\ <<p, q>>[1] = p OBVIOUS
  <2>2. 2 \in DOMAIN <<p, q>> /\ <<p, q>>[2] = q OBVIOUS
  <2>3. <<p, q>> \in Seq(S) OBVIOUS
  <2> QED BY <2>1, <2>2, <2>3 DEF Contains
<1> QED BY <1>1, <1>2, <1>3

LEMMA ReachesOne ==
  ASSUME NEW op, NEW page, NEW q \in Queries, Touched(op) \cap ReadBy(page) \subseteq {q, "usage"}
  PROVE  Reaches(op, page, <<q>>)
BY ShortLists DEF Reaches

(* What is done in the settings to the project shown there, and asked to confirm. *)
OfProject == {"rotateSigningSecret", "removeProject"}

LEMMA SheetReaches ==
  ASSUME NEW page \in Inner, NEW op \in DOMAIN SheetOf(page).acts
  PROVE  /\ op \in MemberOps \ {"leave"} /\ SheetOf(page).acts[op] \in Seq(Queries)
         /\ Reaches(op, page, SheetOf(page).acts[op])
<1> DEFINE reloads == SheetOf(page).acts[op]
<1> SUFFICES op \in MemberOps \ {"leave"} /\ reloads \in Seq(Queries) /\ Reaches(op, page, reloads) OBVIOUS
<1>a. op \in MemberOps \ {"leave"} BY SheetOps DEF MemberOps
<1>1. CASE page = "events" /\ op = "replay" /\ reloads = <<"events">>
  <2>1. Touched(op) = {"events", "deliveries"} BY <1>1, DeliveryOps
  <2>2. Touched(op) \cap ReadBy(page) \subseteq {"events", "usage"} BY <1>1, <2>1 DEF ReadBy
  <2> QED BY <1>a, <1>1, <2>2, ReachesOne, ShortLists, Known
<1>2. CASE page = "deliveries" /\ op \in {"retry", "cancel"} /\ reloads = <<"delivery", "deliveries">>
  <2>1. Contains(reloads, "delivery") /\ Contains(reloads, "deliveries") /\ reloads \in Seq(Queries) BY <1>2, ShortLists, Known
  <2>2. Touched(op) = {"delivery", "deliveries"} BY <1>2, DeliveryOps
  <2> QED BY <1>a, <2>1, <2>2 DEF Reaches
<1>3. CASE /\ page = "connections" /\ reloads = <<"connections">>
           /\ op \in {"updateConnection", "pause", "unpause", "removeConnection"}
  <2>1. Touched(op) \subseteq {"connections", "deliveries"} BY <1>3, ConnectionOps
  <2>2. Touched(op) \cap ReadBy(page) \subseteq {"connections", "usage"} BY <1>3, <2>1 DEF ReadBy
  <2> QED BY <1>a, <1>3, <2>2, ReachesOne, ShortLists, Known
<1>4. CASE page = "sources" /\ reloads = <<"sources">> /\ op \in {"updateSource", "rotateSlug", "removeSource"}
  <2>1. Touched(op) \subseteq {"sources", "connections"} BY <1>4, SourceOps
  <2>2. Touched(op) \cap ReadBy(page) \subseteq {"sources", "usage"} BY <1>4, <2>1 DEF ReadBy
  <2> QED BY <1>a, <1>4, <2>2, ReachesOne, ShortLists, Known
<1>5. CASE page = "destinations" /\ reloads = <<"destinations">> /\ op \in {"updateDestination", "removeDestination"}
  <2>1. Touched(op) \subseteq {"destinations", "connections", "deliveries"} BY <1>5, DestinationOps
  <2>2. Touched(op) \cap ReadBy(page) \subseteq {"destinations", "usage"} BY <1>5, <2>1 DEF ReadBy
  <2> QED BY <1>a, <1>5, <2>2, ReachesOne, ShortLists, Known
<1> QED BY <1>1, <1>2, <1>3, <1>4, <1>5, SheetOps

LEMMA PageReaches ==
  ASSUME NEW page \in Inner, NEW role, NEW op \in DOMAIN Screen(page, role).acts
  PROVE  /\ Screen(page, role).acts[op] \in Seq(Queries) /\ Reaches(op, page, Screen(page, role).acts[op])
         /\ op \in MemberOps \/ (op \in AdminOps /\ isAdmin(role))
         /\ op \notin RowOps /\ (op = "leave" => page = "org") /\ (op \in OfProject => page = "settings")
<1> DEFINE reloads == Screen(page, role).acts[op]
<1> SUFFICES /\ reloads \in Seq(Queries) /\ Reaches(op, page, reloads)
             /\ op \in MemberOps \/ (op \in AdminOps /\ isAdmin(role))
             /\ op \notin RowOps /\ (op = "leave" => page = "org") /\ (op \in OfProject => page = "settings")
  OBVIOUS
<1>a. op \in MemberOps \/ (op \in AdminOps /\ isAdmin(role)) BY PageOps DEF MemberOps, AdminOps
<1>b. op \notin RowOps /\ (op = "leave" => page = "org") /\ (op \in OfProject => page = "settings")
  <2>1. op \in {"bulkRetry", "createConnection", "createSource", "createDestination", "leave"} \cup AdminOps
    BY PageOps DEF AdminOps
  <2>2. op = "leave" => page = "org" BY PageOps
  <2>3. op \in OfProject => page = "settings" BY PageOps DEF OfProject
  <2> QED BY <2>1, <2>2, <2>3, RowOpsAre DEF AdminOps
<1> DEFINE One(q) == reloads = <<q>> /\ Touched(op) \cap ReadBy(page) \subseteq {q, "usage"}
           Goal == reloads \in Seq(Queries) /\ Reaches(op, page, reloads)
<1> SUFFICES Goal BY <1>a, <1>b
<1>c. \A q \in Queries : One(q) => Goal BY ReachesOne, ShortLists, Known
<1> HIDE DEF Goal
<1>1. CASE page = "deliveries" /\ op = "bulkRetry" /\ reloads = <<"deliveries">>
  <2>1. Touched(op) = {"delivery", "deliveries"} BY <1>1, DeliveryOps
  <2> QED BY <1>1, <2>1, ShortLists, Known DEF Goal, Reaches
<1>2. CASE page = "connections" /\ op = "createConnection" /\ reloads = <<"connections">>
  <2>1. Touched(op) \subseteq {"connections", "deliveries"} BY <1>2, ConnectionOps
  <2>2. One("connections") /\ "connections" \in Queries BY <1>2, <2>1 DEF ReadBy, Queries
  <2> QED BY <2>2, <1>c
<1>3. CASE page = "sources" /\ op = "createSource" /\ reloads = <<"sources">>
  <2>1. Touched(op) \subseteq {"sources", "connections"} BY <1>3, SourceOps
  <2>2. One("sources") /\ "sources" \in Queries BY <1>3, <2>1 DEF ReadBy, Queries
  <2> QED BY <2>2, <1>c
<1>4. CASE page = "destinations" /\ op = "createDestination" /\ reloads = <<"destinations">>
  <2>1. Touched(op) \subseteq {"destinations", "connections", "deliveries"} BY <1>4, DestinationOps
  <2>2. One("destinations") /\ "destinations" \in Queries BY <1>4, <2>1 DEF ReadBy, Queries
  <2> QED BY <2>2, <1>c
<1>5. CASE /\ op \in {"updateProject", "removeProject", "updateOrg"} /\ reloads = <<"projects">>
  <2>1. Touched(op) \subseteq {"projects", "usage"} BY <1>5, OrgOps DEF AdminOps
  <2>2. One("projects") /\ "projects" \in Queries BY <1>5, <2>1 DEF Queries
  <2> QED BY <2>2, <1>c
<1>6. CASE op \in {"getSigningSecret", "rotateSigningSecret"} /\ reloads = <<>>
  <2>1. Touched(op) = {} BY <1>6, OrgOps DEF AdminOps
  <2> QED BY <1>6, <2>1, ShortLists DEF Goal, Reaches
<1>7. CASE op \in {"changeRole", "removeMember"} /\ reloads = <<"members">>
  <2>1. Touched(op) \subseteq {"members"} BY <1>7, OrgOps DEF AdminOps
  <2>2. One("members") /\ "members" \in Queries BY <1>7, <2>1 DEF Queries
  <2> QED BY <2>2, <1>c
<1>8. CASE op \in {"invite", "cancelInvitation"} /\ reloads = <<"invitations">>
  <2>1. Touched(op) \subseteq {"invitations"} BY <1>8, OrgOps DEF AdminOps
  <2>2. One("invitations") /\ "invitations" \in Queries BY <1>8, <2>1 DEF Queries
  <2> QED BY <2>2, <1>c
<1>9. CASE op = "leave" /\ reloads = <<>> BY <1>9, ShortLists DEF Goal, Reaches
<1> HIDE DEF reloads, One
<1>10. \/ page = "deliveries" /\ op = "bulkRetry" /\ reloads = <<"deliveries">>
       \/ page = "connections" /\ op = "createConnection" /\ reloads = <<"connections">>
       \/ page = "sources" /\ op = "createSource" /\ reloads = <<"sources">>
       \/ page = "destinations" /\ op = "createDestination" /\ reloads = <<"destinations">>
       \/ op \in {"updateProject", "removeProject", "updateOrg"} /\ reloads = <<"projects">>
       \/ op \in {"getSigningSecret", "rotateSigningSecret"} /\ reloads = <<>>
       \/ op \in {"changeRole", "removeMember"} /\ reloads = <<"members">>
       \/ op \in {"invite", "cancelInvitation"} /\ reloads = <<"invitations">>
       \/ op = "leave" /\ reloads = <<>>
  BY PageOps DEF reloads
<1> QED BY <1>1, <1>2, <1>3, <1>4, <1>5, <1>6, <1>7, <1>8, <1>9, <1>10

(* So much for what is on the screen now.                                        *)
LEMMA Offered ==
  ASSUME NEW op \in DOMAIN ActsNow
  PROVE  /\ ActsNow[op] \in Seq(Queries) /\ Reaches(op, ui.page, ActsNow[op])
         /\ \/ op \in MemberOps
            \/ op \in AdminOps /\ isAdmin(RoleIn(cache))
            \/ op \in {"createProject", "acceptInvitation"}
         /\ op \in RowOps => ui.page \in Inner /\ sheet /\ op \in DOMAIN SheetOf(ui.page).acts
         /\ op = "leave" => ui.page = "org"
         /\ op \in OfProject => ui.page = "settings"
<1> DEFINE reloads == ActsNow[op]
           Goal == /\ reloads \in Seq(Queries) /\ Reaches(op, ui.page, reloads)
                   /\ \/ op \in MemberOps
                      \/ op \in AdminOps /\ isAdmin(RoleIn(cache))
                      \/ op \in {"createProject", "acceptInvitation"}
                   /\ op \in RowOps => ui.page \in Inner /\ sheet /\ op \in DOMAIN SheetOf(ui.page).acts
                   /\ op = "leave" => ui.page = "org"
                   /\ op \in OfProject => ui.page = "settings"
<1> SUFFICES Goal OBVIOUS
<1>1. CASE ui.page = "invitation"
  <2>1. op = "acceptInvitation" /\ reloads = <<"projects">> BY <1>1 DEF ActsNow, InvitationAcceptPage
  <2>2. op \notin RowOps \cup OfProject BY <2>1, RowOpsAre DEF OfProject
  <2>3. Reaches(op, ui.page, reloads) BY <1>1 DEF Reaches, Inner
  <2>4. reloads \in Seq(Queries) BY <2>1, ShortLists, Known
  <2> QED BY <2>1, <2>2, <2>3, <2>4
<1>2. CASE ui.page \in Inner /\ sheet
  <2>1. op \in DOMAIN SheetOf(ui.page).acts /\ reloads = SheetOf(ui.page).acts[op] BY <1>2 DEF ActsNow, Inner
  <2>2. op \notin OfProject BY <2>1, <1>2, SheetReaches DEF MemberOps, OfProject
  <2> QED BY <1>2, <2>1, <2>2, SheetReaches DEF MemberOps
<1>3. CASE ui.page \in Inner /\ ~ sheet
  <2> DEFINE acts == ScreenOf(ui, cache).acts
  <2>1. ActsNow = [o \in DOMAIN AppShell \cup DOMAIN acts |-> IF o \in DOMAIN AppShell THEN AppShell[o] ELSE acts[o]]
    BY <1>3 DEF ActsNow, Inner
  <2>2. CASE op = "createProject"
    <3>1. reloads = <<"projects">> BY <2>1, <2>2 DEF AppShell
    <3>2. Touched(op) \subseteq {"projects", "usage"} BY <2>2, OrgOps DEF AdminOps
    <3>3. Reaches(op, ui.page, reloads) BY <3>1, <3>2, ReachesOne, Known
    <3>4. op \notin RowOps \cup OfProject BY <2>2, RowOpsAre DEF OfProject
    <3>5. reloads \in Seq(Queries) BY <3>1, ShortLists, Known
    <3> QED BY <2>2, <3>3, <3>4, <3>5
  <2>3. CASE op # "createProject"
    <3>1. op \in DOMAIN acts /\ reloads = acts[op] BY <2>1, <2>3 DEF AppShell
    <3> QED BY <1>3, <3>1, PageReaches DEF ScreenOf
  <2> QED BY <2>2, <2>3
<1>4. CASE ui.page \notin Inner \cup {"invitation"} BY <1>4 DEF ActsNow
<1> QED BY <1>1, <1>2, <1>3, <1>4

-----------------------------------------------------------------------------
(* What holds all along.  What is read for a project is of that project, ...     *)
DataHolds(k, d) ==
  /\ k[1] \in ProjectQueries \cup RowQueries => d.of = k[2]
  /\ k[1] \in RowQueries => k[3] = k[2]
  /\ d.role \in Roles \cup {None} /\ d.seen \in Nat
  /\ k = <<"projects">> /\ d.role = None => d.list = {}

CacheHolds(ch) == \A k \in DOMAIN ch : DataHolds(k, ch[k])

FlightHolds(fl) ==
  \A k \in DOMAIN fl :
    /\ fl[k].answered \in BOOLEAN
    /\ k[1] \in ProjectQueries \cup RowQueries => fl[k].of = k[2]
    /\ fl[k].answered => DataHolds(k, fl[k].data)

ServerHolds ==
  /\ server = [existing |-> server.existing, role |-> server.role, clock |-> server.clock]
  /\ server.role \in Roles \cup {None} /\ server.clock \in Nat
  /\ \A k \in DOMAIN last : last[k] \in Nat /\ last[k] <= server.clock

(* ... what is there or on its way is no older than change v, unless it is being  *)
(* read again or could not be, ...                                               *)
UpTo(k, v, ch, fl, fd) ==
  /\ k \in DOMAIN fl /\ fl[k].answered => v <= fl[k].data.seen
  /\ k \in DOMAIN ch /\ k \notin DOMAIN fl \cup fd => v <= ch[k].seen

Shows(o, la, ch, fl, fd) == \A k \in DOMAIN o : o[k] \in Nat /\ o[k] <= At(la, k) /\ UpTo(k, o[k], ch, fl, fd)

(* ... an operation is what was offered when its button was clicked, by a console   *)
(* that still went by the same role unless a dialog was open in between, ...       *)
Allowed(op, as) ==
  \/ op \in MemberOps /\ as \in Roles \ {None}
  \/ op \in AdminOps /\ as \in Roles \ {None} /\ isAdmin(as)
  \/ op \in {"createProject", "acceptInvitation"}

Offers(r) ==
  /\ r.op \in RowOps => r.row = r.asked
  /\ r.op \in RowOps \cup OfProject => r.project = r.asked \/ r.op \in {"replay", "cancel"}
  /\ Allowed(r.op, r.as)
  /\ r.op \in MemberOps => r.knows \in Roles \ {None}
  /\ r.op \notin Confirmed => r.knows = r.as
  /\ r.op = "leave" => r.page = "org"

(* ... a dialog stays with the sheet, the project or the organization it is about,  *)
DialogHolds(a, u, ch) ==
  /\ a.op \in Confirmed /\ a.reloads \in Seq(Queries) /\ Reaches(a.op, u.page, a.reloads) /\ Allowed(a.op, a.as)
  /\ a.op \in RowOps => /\ u.page \in Inner /\ SheetIn(u, ch) /\ a.op \in DOMAIN SheetOf(u.page).acts
                        /\ u.opened = a.project
  /\ a.op \in OfProject => u.page = "settings" /\ Current(u, ch) = a.project
  /\ a.op = "leave" => u.page = "org" /\ RoleIn(ch) # None

Whole(r) ==
  r = [pc |-> r.pc, op |-> r.op, page |-> r.page, project |-> r.project, asked |-> r.asked, as |-> r.as,
       knows |-> r.knows, row |-> r.row, reloads |-> r.reloads, here |-> r.here, stands |-> r.stands, under |-> r.under,
       owes |-> r.owes, waits |-> r.waits, wrote |-> r.wrote, made |-> r.made]

CallFixed(r) ==
  /\ Whole(r)
  /\ r.pc \in {"sent", "forbidden", "done", "reloading"}
  /\ r.here \in BOOLEAN /\ r.wrote \in Nat /\ r.reloads \in Seq(Queries)
  /\ Offers(r)
  /\ r.pc \in {"done", "reloading"} => r.wrote > 0 /\ (r.op \in RowOps => r.row = r.project)
  /\ r.pc # "reloading" => r.owes = {} /\ Reaches(r.op, r.page, r.reloads)

(* ... and what it owes the screen is still to be read again, or is up to it.     *)
KeysOf(r) ==
  {<<q, r.project>> : q \in Touched(r.op) \cap ProjectQueries}
    \cup {<<q, r.project, r.project>> : q \in Touched(r.op) \cap RowQueries}
    \cup {<<q>> : q \in Touched(r.op) \ (ProjectQueries \cup RowQueries)}

CallOwes(r, ch, fl, fd, la) ==
  \A k \in r.owes :
    /\ k \in DOMAIN ch /\ r.wrote <= At(la, k)
    /\ k[1] \in RowQueries => k = <<k[1], r.under, r.row>>
    /\ Contains(r.reloads, k[1]) \/ UpTo(k, r.wrote, ch, fl, fd)

CallKept(r, page, la) ==
  /\ CallFixed(r)
  /\ r.here => r.page = page
  /\ r.pc = "done" => \A k \in KeysOf(r) : r.wrote <= At(la, k)

CallHolds(r, page, ch, fl, fd, la) == CallKept(r, page, la) /\ CallOwes(r, ch, fl, fd, la)

CallsHold(cl, page, ch, fl, fd, la) == \A c \in Call : cl[c] = NoCall \/ CallHolds(cl[c], page, ch, fl, fd, la)

HasFields(u) == {"page", "opened", "selected"} \subseteq DOMAIN u

ConsoleInv ==
  /\ HasFields(ui)
  /\ dialog = None \/ DialogHolds(dialog, ui, cache)
  /\ ServerHolds
  /\ CacheHolds(cache)
  /\ FlightHolds(flying)
  /\ Mounted(ui, cache) \subseteq DOMAIN cache \cup DOMAIN flying \cup failed
  /\ Shows(own, last, cache, flying, failed)
  /\ call = [c \in Call |-> call[c]]
  /\ CallsHold(call, ui.page, cache, flying, failed, last)
  /\ \A c \in Call : call[c] # NoCall => call[c].owes \subseteq Mounted(ui, cache)

-----------------------------------------------------------------------------
(* A screen reads what its page reads, under the keys of the current project.     *)
LEMMA MountedIsRead ==
  ASSUME NEW u, NEW ch, NEW k \in Mounted(u, ch)
  PROVE  /\ u.page \in Inner /\ k[1] \in ReadBy(u.page)
         /\ k[1] \in ProjectQueries \cup RowQueries => k[2] = Current(u, ch)
<1> DEFINE s == ScreenOf(u, ch)
           here == {"projects"} \cup s.reads \cup IF SheetIn(u, ch) THEN SheetOf(u.page).reads ELSE {}
<1>1. u.page \in Inner BY DEF Mounted
<1>2. PICK q \in here : k = Key(q, u, ch) BY DEF Mounted
<1>3. "projects" \in ReadBy(u.page) BY <1>1 DEF ReadBy, Inner
<1>4. here \subseteq ReadBy(u.page) BY <1>1, <1>3, PageReads DEF ScreenOf
<1> HIDE DEF here
<1>5. CASE q \in ProjectQueries
  <2>1. k = <<q, Current(u, ch)>> BY <1>2, <1>5 DEF Key
  <2> QED BY <1>1, <1>4, <2>1
<1>6. CASE q \in RowQueries /\ q \notin ProjectQueries
  <2>1. k = <<q, Current(u, ch), u.opened>> BY <1>2, <1>6 DEF Key
  <2> QED BY <1>1, <1>4, <2>1
<1>7. CASE q \notin ProjectQueries \cup RowQueries
  <2>1. k = <<q>> BY <1>2, <1>7 DEF Key
  <2>2. k[1] = q BY <2>1
  <2> QED BY <1>1, <1>4, <1>7, <2>2
<1> QED BY <1>5, <1>6, <1>7

(* What is on the screen depends on the page, the row in the address and the       *)
(* project, and keeping the rows of the project before changes none of them.       *)
LEMMA SameScreen ==
  ASSUME NEW u, NEW w, u.page = w.page, u.opened = w.opened, u.selected = w.selected, NEW ch
  PROVE  Current(u, ch) = Current(w, ch) /\ SheetIn(u, ch) = SheetIn(w, ch) /\ Mounted(u, ch) = Mounted(w, ch)
<1>1. Current(u, ch) = Current(w, ch) BY DEF Current
<1>2. ScreenOf(u, ch) = ScreenOf(w, ch) BY DEF ScreenOf
<1>3. \A q : Key(q, u, ch) = Key(q, w, ch) BY <1>1 DEF Key
<1>4. SheetIn(u, ch) = SheetIn(w, ch)
  <2>1. InList(u, ch) = InList(w, ch) BY <1>2, <1>3 DEF InList
  <2> QED BY <1>1, <2>1 DEF SheetIn
<1>5. Mounted(u, ch) = Mounted(w, ch) BY <1>1, <1>2, <1>3, <1>4 DEF Mounted
<1> QED BY <1>1, <1>4, <1>5

LEMMA KeepKeeps ==
  ASSUME NEW u, HasFields(u), NEW ch
  PROVE  /\ HasFields(Keep(u, ch)) /\ Keep(u, ch).page = u.page /\ Keep(u, ch).opened = u.opened
         /\ Current(Keep(u, ch), ch) = Current(u, ch) /\ SheetIn(Keep(u, ch), ch) = SheetIn(u, ch)
         /\ Mounted(Keep(u, ch), ch) = Mounted(u, ch)
<1> DEFINE w == Keep(u, ch)
<1>1. \A v : /\ HasFields([u EXCEPT !.before = v]) /\ [u EXCEPT !.before = v].page = u.page
             /\ [u EXCEPT !.before = v].opened = u.opened /\ [u EXCEPT !.before = v].selected = u.selected
  BY DEF HasFields
<1>2. HasFields(w) /\ w.page = u.page /\ w.opened = u.opened /\ w.selected = u.selected BY <1>1 DEF Keep
<1> QED BY <1>2, SameScreen

(* Going to a page, and to a project of it.                                         *)
LEMMA GoToFits ==
  ASSUME HasFields(ui), NEW page
  PROVE  HasFields(goTo(page)) /\ goTo(page).page = page /\ (page = ui.page => goTo(page).opened = None)
<1>1. CASE page = ui.page BY <1>1 DEF goTo, HasFields
<1>2. CASE page # ui.page BY <1>2 DEF goTo, HasFields
<1> QED BY <1>1, <1>2

LEMMA SelectFits ==
  ASSUME HasFields(ui), NEW p, NEW here
  PROVE  HasFields(select(p, here)) /\ select(p, here).opened = ui.opened
BY DEF select, HasFields

(* A dialog that is still there is about what it was about.                         *)
LEMMA DialogStays ==
  ASSUME NEW a, NEW u, NEW ch, NEW dh, NEW w, DialogHolds(a, u, ch), a.op # "createProject",
         w.page = u.page, SheetIn(w, dh) => w.opened = u.opened, a.op \in RowOps => SheetIn(w, dh),
         w.page = "settings" => Current(w, dh) = a.project, w.page = "org" => RoleIn(dh) # None
  PROVE  DialogHolds(a, w, dh)
BY DEF DialogHolds

(* When the screen changes, what comes into sight is fetched and nothing that was *)
(* up to a change falls behind it.                                                *)
LEMMA DrawKeeps ==
  ASSUME ConsoleInv, NEW u, NEW ch, NEW fl, NEW cl, NEW asked, Draw(u, ch, fl, cl, asked), HasFields(u),
         asked = None \/ (asked = dialog /\ (u.page = ui.page => u.opened \in {ui.opened, None})),
         CacheHolds(ch), FlightHolds(fl), DOMAIN cache \subseteq DOMAIN ch, DOMAIN flying \subseteq DOMAIN fl \cup DOMAIN ch,
         Shows(own', last, ch, fl, failed), UNCHANGED serverVars,
         \A c \in Call : \/ cl[c] = NoCall
                        \/ /\ CallKept(cl[c], ui.page, last)
                           /\ u.page = ui.page => CallOwes(cl[c], ch, fl, failed, last)
  PROVE  ConsoleInv'
<1> DEFINE moved == u.page # ui.page
           before == IF moved THEN {} ELSE Mounted(ui, cache)
           new == (Mounted(u, ch) \ before) \ DOMAIN fl
           stands(c) == cl[c].stands /\ Stands(cl[c], u, ch)
           follows(c) == stands(c) /\ cl[c].pc # "reloading"
           w == Keep(u, ch)
<1>1. ui' = w /\ cache' = ch /\ UNCHANGED <<server, last>> BY DEF Draw, serverVars
<1>2. /\ flying' = [k \in DOMAIN fl \cup new |-> IF k \in new THEN Fetch(u, ch) ELSE fl[k]]
      /\ failed' = failed \ DOMAIN flying'
  BY DEF Draw
<1>3. call' = [c \in Call |-> IF cl[c].pc = "idle" THEN cl[c]
                              ELSE [cl[c] EXCEPT !.here = @ /\ ~ moved, !.stands = stands(c),
                                                 !.under = IF follows(c) THEN Current(u, ch) ELSE @,
                                                 !.owes = IF moved THEN {} ELSE @ \cap Mounted(u, ch)]]
  BY DEF Draw
<1>a. /\ HasFields(w) /\ w.page = u.page /\ w.opened = u.opened /\ Current(w, ch) = Current(u, ch)
      /\ SheetIn(w, ch) = SheetIn(u, ch) /\ Mounted(w, ch) = Mounted(u, ch)
  BY KeepKeeps
<1> HIDE DEF w
<1>b. dialog' = None \/ DialogHolds(dialog', ui', cache')
  <2> SUFFICES ASSUME dialog' # None PROVE DialogHolds(dialog', w, ch) BY <1>1
  <2>1. asked # None /\ Stands(asked, u, ch) /\ dialog' = asked BY DEF Draw
  <2>2. asked = dialog /\ DialogHolds(asked, ui, cache) /\ u.page = ui.page /\ u.opened \in {ui.opened, None}
    BY <2>1 DEF Stands, ConsoleInv
  <2>3. asked.op # "createProject" BY <2>2 DEF DialogHolds, Confirmed
  <2>4. SheetIn(w, ch) => w.opened = ui.opened BY <1>a, <2>2 DEF SheetIn
  <2>5. /\ asked.op \in RowOps => SheetIn(w, ch)
        /\ w.page = "settings" => Current(w, ch) = asked.project
        /\ w.page = "org" => RoleIn(ch) # None
    BY <1>a, <2>1, <2>3 DEF Stands
  <2> QED BY <1>a, <2>1, <2>2, <2>3, <2>4, <2>5, DialogStays
<1>4. ServerHolds' BY <1>1 DEF ConsoleInv, ServerHolds
<1>5. FlightHolds(flying')
  <2> SUFFICES ASSUME NEW k \in DOMAIN flying'
               PROVE  /\ flying'[k].answered \in BOOLEAN
                      /\ k[1] \in ProjectQueries \cup RowQueries => flying'[k].of = k[2]
                      /\ flying'[k].answered => DataHolds(k, flying'[k].data)
    BY DEF FlightHolds
  <2>1. CASE k \in new
    <3>1. flying'[k] = [answered |-> FALSE, of |-> Current(u, ch)] BY <1>2, <2>1 DEF Fetch
    <3> QED BY <2>1, <3>1, MountedIsRead
  <2>2. CASE k \notin new BY <1>2, <2>2 DEF FlightHolds
  <2> QED BY <2>1, <2>2
<1>6. \A k, v : UpTo(k, v, ch, fl, failed) => UpTo(k, v, cache', flying', failed')
  <2> SUFFICES ASSUME NEW k, NEW v, UpTo(k, v, ch, fl, failed) PROVE UpTo(k, v, cache', flying', failed') OBVIOUS
  <2>1. k \in DOMAIN flying' /\ flying'[k].answered => v <= flying'[k].data.seen BY <1>2 DEF UpTo, Fetch
  <2>2. k \in DOMAIN cache' /\ k \notin DOMAIN flying' \cup failed' => v <= cache'[k].seen BY <1>1, <1>2 DEF UpTo
  <2> QED BY <2>1, <2>2 DEF UpTo
<1>7. Mounted(u, ch) \subseteq DOMAIN ch \cup DOMAIN flying' \cup failed'
  <2> SUFFICES ASSUME NEW k \in Mounted(u, ch), k \notin DOMAIN flying' PROVE k \in DOMAIN ch \cup failed' OBVIOUS
  <2>1. k \in Mounted(ui, cache) /\ k \notin DOMAIN fl BY <1>2
  <2> QED BY <1>2, <2>1 DEF ConsoleInv
<1>8. Shows(own', last', cache', flying', failed') BY <1>1, <1>6 DEF Shows
<1>9. ASSUME NEW c \in Call, cl[c] # NoCall
      PROVE  /\ CallHolds(call'[c], u.page, cache', flying', failed', last')
             /\ call'[c].owes \subseteq Mounted(u, ch)
  <2> DEFINE r == cl[c]
             d == call'[c]
             rest == IF moved THEN {} ELSE r.owes \cap Mounted(u, ch)
             stand == stands(c)
             under == IF follows(c) THEN Current(u, ch) ELSE r.under
  <2>1. CallKept(r, ui.page, last) /\ (u.page = ui.page => CallOwes(r, ch, fl, failed, last)) BY <1>9
  <2>2. CallFixed(r) /\ r.pc # "idle" BY <2>1 DEF CallKept, CallFixed
  <2>3. d = [r EXCEPT !.here = r.here /\ ~ moved, !.stands = stand, !.under = under, !.owes = rest] BY <1>3, <2>2
  <2>b. r.pc = "reloading" => under = r.under OBVIOUS
  <2> HIDE DEF stand, under, moved, rest
  <2>4. d = [pc |-> r.pc, op |-> r.op, page |-> r.page, project |-> r.project, asked |-> r.asked, as |-> r.as,
             knows |-> r.knows, row |-> r.row, reloads |-> r.reloads, here |-> r.here /\ ~ moved, stands |-> stand,
             under |-> under, owes |-> rest, waits |-> r.waits, wrote |-> r.wrote, made |-> r.made]
    BY <2>2, <2>3 DEF CallFixed, Whole
  <2> HIDE DEF d
  <2>5. /\ d.pc = r.pc /\ d.op = r.op /\ d.page = r.page /\ d.project = r.project /\ d.asked = r.asked /\ d.as = r.as
        /\ d.knows = r.knows /\ d.row = r.row /\ d.reloads = r.reloads /\ d.here = (r.here /\ ~ moved)
        /\ d.under = under /\ d.owes = rest /\ d.wrote = r.wrote
    BY <2>4
  <2>6. CallFixed(d)
    <3>1. Offers(d) BY <2>2, <2>5 DEF CallFixed, Offers
    <3>2. rest \subseteq r.owes BY DEF rest
    <3>3. Whole(d) BY <2>4 DEF Whole
    <3> QED BY <2>2, <2>5, <3>1, <3>2, <3>3 DEF CallFixed
  <2>7. d.here => d.page = u.page BY <2>1, <2>5 DEF CallHolds, CallKept, moved
  <2>8. d.pc = "done" => \A k \in KeysOf(d) : d.wrote <= At(last', k)
    <3>1. KeysOf(d) = KeysOf(r) BY <2>5 DEF KeysOf
    <3> QED BY <1>1, <2>1, <2>5, <3>1 DEF CallHolds, CallKept
  <2>9. CallOwes(d, cache', flying', failed', last')
    <3>1. rest \subseteq r.owes BY DEF rest
    <3>2. rest # {} => CallOwes(r, ch, fl, failed, last) BY <2>1 DEF rest, moved
    <3>3. rest # {} => d.under = r.under BY <2>2, <2>5, <2>b, <3>1 DEF CallFixed
    <3> QED BY <1>1, <1>6, <2>5, <3>1, <3>2, <3>3 DEF CallOwes
  <2>10. d.owes \subseteq Mounted(u, ch) BY <2>5 DEF rest
  <2> QED BY <2>6, <2>7, <2>8, <2>9, <2>10 DEF CallHolds, CallKept, d
<1>10. ASSUME NEW c \in Call, cl[c] = NoCall PROVE call'[c] = NoCall BY <1>3, <1>10 DEF NoCall
<1>11. call' = [c \in Call |-> call'[c]] BY <1>3
<1>12. CallsHold(call', u.page, cache', flying', failed', last') BY <1>9, <1>10 DEF CallsHold
<1>13. \A c \in Call : call'[c] # NoCall => call'[c].owes \subseteq Mounted(u, ch) BY <1>9, <1>10
<1> HIDE DEF new, before, moved, stands, follows
<1> QED BY <1>1, <1>4, <1>5, <1>7, <1>8, <1>11, <1>12, <1>13, <1>a, <1>b DEF ConsoleInv

LEMMA StayKeeps ==
  ASSUME ConsoleInv, NEW u, HasFields(u), Stay(u), UNCHANGED <<serverVars, own>>,
         dialog = None \/ (u.page = ui.page => u.opened \in {ui.opened, None})
  PROVE  ConsoleInv'
<1>1. UNCHANGED serverVars /\ own' = own OBVIOUS
<1>2. \A c \in Call : call[c] = NoCall \/ CallHolds(call[c], ui.page, cache, flying, failed, last)
  BY DEF ConsoleInv, CallsHold
<1>3. Draw(u, cache, flying, call, dialog) BY DEF Stay, Show
<1> QED BY <1>1, <1>2, <1>3, DrawKeeps DEF ConsoleInv, CallHolds

(* A document loaded anew has nothing yet and reads everything.                   *)
LEMMA LoadKeeps ==
  ASSUME ConsoleInv, NEW u, HasFields(u), Load(u), UNCHANGED <<serverVars, own>>
  PROVE  ConsoleInv'
<1>1. /\ ui' = u /\ dialog' = None /\ cache' = <<>> /\ failed' = {} /\ UNCHANGED <<server, last, own>>
      /\ flying' = [k \in Mounted(u, <<>>) |-> Fetch(u, <<>>)] /\ call' = [c \in Call |-> NoCall]
  BY DEF Load, serverVars
<1>2. DOMAIN cache' = {} BY <1>1
<1>3. ServerHolds' BY <1>1 DEF ConsoleInv, ServerHolds
<1>4. CacheHolds(cache') BY <1>2 DEF CacheHolds
<1>5. FlightHolds(flying') BY <1>1, MountedIsRead DEF FlightHolds, Fetch
<1>6. Shows(own', last', cache', flying', failed')
  <2>1. \A k, v : UpTo(k, v, cache', flying', failed') BY <1>1, <1>2 DEF UpTo, Fetch
  <2> QED BY <1>1, <2>1 DEF Shows, ConsoleInv
<1>7. Mounted(u, <<>>) \subseteq DOMAIN flying' BY <1>1
<1>8. Mounted(ui', cache') \subseteq DOMAIN cache' \cup DOMAIN flying' \cup failed' BY <1>1, <1>7
<1>9. CallsHold(call', ui'.page, cache', flying', failed', last') BY <1>1 DEF CallsHold
<1>10. \A c \in Call : call'[c] = NoCall BY <1>1
<1>11. call' = [c \in Call |-> call'[c]] BY <1>1
<1>12. HasFields(ui') /\ dialog' = None BY <1>1
<1> QED BY <1>3, <1>4, <1>5, <1>6, <1>8, <1>9, <1>10, <1>11, <1>12 DEF ConsoleInv

LEMMA DroppedFits == \A stored : HasFields(Dropped(stored))
BY DEF Dropped, HasFields

-----------------------------------------------------------------------------
(* The steps.  Calls stay good as long as nothing they wait for falls behind.     *)
LEMMA CallsFollow ==
  ASSUME NEW cl, NEW page, NEW ch, NEW fl, NEW fd, NEW la, CallsHold(cl, page, ch, fl, fd, la),
         NEW dh, NEW gl, NEW gd, NEW ma, DOMAIN ch \subseteq DOMAIN dh,
         \A k, v : v \in Nat /\ v <= At(la, k) => v <= At(ma, k) /\ (UpTo(k, v, ch, fl, fd) => UpTo(k, v, dh, gl, gd))
  PROVE  CallsHold(cl, page, dh, gl, gd, ma)
<1> SUFFICES ASSUME NEW c \in Call, CallHolds(cl[c], page, ch, fl, fd, la) PROVE CallHolds(cl[c], page, dh, gl, gd, ma)
  BY DEF CallsHold
<1> DEFINE r == cl[c]
<1>1. CallFixed(r) /\ (r.here => r.page = page) /\ r.wrote \in Nat BY DEF CallHolds, CallKept, CallFixed
<1>2. r.pc = "done" => \A k \in KeysOf(r) : r.wrote <= At(ma, k) BY <1>1 DEF CallHolds, CallKept
<1>3. CallOwes(r, dh, gl, gd, ma) BY <1>1 DEF CallHolds, CallKept, CallOwes
<1> QED BY <1>1, <1>2, <1>3 DEF CallHolds, CallKept

LEMMA ShowsFollow ==
  ASSUME NEW o, NEW ch, NEW fl, NEW fd, NEW la, Shows(o, la, ch, fl, fd), NEW dh, NEW gl, NEW gd, NEW ma,
         \A k, v : v \in Nat /\ v <= At(la, k) => v <= At(ma, k) /\ (UpTo(k, v, ch, fl, fd) => UpTo(k, v, dh, gl, gd))
  PROVE  Shows(o, ma, dh, gl, gd)
BY DEF Shows

(* The server answers with the latest change.                                     *)
LEMMA ReadHolds ==
  ASSUME ConsoleInv, NEW k, NEW p, Found(k, p), k[1] \in ProjectQueries \cup RowQueries => p = k[2]
  PROVE  DataHolds(k, Read(k, p)) /\ Read(k, p).seen = At(last, k)
<1>1. /\ Read(k, p).seen = At(last, k) /\ Read(k, p).of = p /\ Read(k, p).role = server.role
      /\ Read(k, p).role = None => Read(k, p).list = {}
  BY DEF Read
<1>2. At(last, k) \in Nat BY DEF At, ConsoleInv, ServerHolds
<1>3. server.role \in Roles \cup {None} BY DEF ConsoleInv, ServerHolds
<1>4. k[1] \in RowQueries => k[3] = k[2] BY DEF Found
<1> QED BY <1>1, <1>2, <1>3, <1>4 DEF DataHolds

LEMMA ServerReadsKeeps ==
  ASSUME ConsoleInv, NEW k \in DOMAIN flying, ServerReads(k)
  PROVE  ConsoleInv'
<1> DEFINE d == Read(k, flying[k].of)
<1>1. /\ flying' = [flying EXCEPT ![k] = [answered |-> TRUE, of |-> flying[k].of, data |-> d]]
      /\ UNCHANGED <<ui, dialog, cache, failed, call, server, last, own>> /\ Found(k, flying[k].of)
  BY DEF ServerReads, serverVars
<1>2. DataHolds(k, d) /\ d.seen = At(last, k) BY <1>1, ReadHolds DEF ConsoleInv, FlightHolds
<1> HIDE DEF d
<1>3. FlightHolds(flying') BY <1>1, <1>2 DEF FlightHolds, ConsoleInv
<1>4. \A q, v : v \in Nat /\ v <= At(last, q) =>
                  v <= At(last', q) /\ (UpTo(q, v, cache, flying, failed) => UpTo(q, v, cache', flying', failed'))
  BY <1>1, <1>2 DEF UpTo
<1>5. Shows(own', last', cache', flying', failed') BY <1>1, <1>4, ShowsFollow DEF ConsoleInv
<1>6. CallsHold(call', ui'.page, cache', flying', failed', last') BY <1>1, <1>4, CallsFollow DEF ConsoleInv
<1>7. DOMAIN flying' = DOMAIN flying BY <1>1
<1>8. ServerHolds' BY <1>1 DEF ConsoleInv, ServerHolds
<1> QED BY <1>1, <1>3, <1>5, <1>6, <1>7, <1>8 DEF ConsoleInv

LEMMA DeliverKeeps ==
  ASSUME ConsoleInv, NEW k \in DOMAIN flying, Deliver(k)
  PROVE  ConsoleInv'
<1> DEFINE ch == With(cache, k, flying[k].data)
           fl == Restrict(flying, DOMAIN flying \ {k})
<1>1. Draw(ui, ch, fl, call, dialog) /\ flying[k].answered /\ UNCHANGED <<serverVars, own>> BY DEF Deliver, Show
<1>2. /\ DOMAIN ch = DOMAIN cache \cup {k}
      /\ \A q \in DOMAIN ch : ch[q] = IF q = k THEN flying[k].data ELSE cache[q]
  BY DEF With
<1>3. DOMAIN fl = DOMAIN flying \ {k} /\ \A q \in DOMAIN fl : fl[q] = flying[q] BY DEF Restrict
<1>4. DataHolds(k, flying[k].data) BY <1>1 DEF ConsoleInv, FlightHolds
<1> HIDE DEF ch, fl
<1>5. CacheHolds(ch) BY <1>2, <1>4 DEF CacheHolds, ConsoleInv
<1>6. FlightHolds(fl) BY <1>3 DEF FlightHolds, ConsoleInv
<1>7. \A q, v : v \in Nat /\ v <= At(last, q) =>
                  v <= At(last, q) /\ (UpTo(q, v, cache, flying, failed) => UpTo(q, v, ch, fl, failed))
  BY <1>1, <1>2, <1>3 DEF UpTo
<1>8. Shows(own', last, ch, fl, failed) BY <1>1, <1>7, ShowsFollow DEF ConsoleInv
<1>9. CallsHold(call, ui.page, ch, fl, failed, last) BY <1>2, <1>7, CallsFollow DEF ConsoleInv
<1>10. HasFields(ui) BY DEF ConsoleInv
<1>11. \A c \in Call : call[c] = NoCall \/ CallHolds(call[c], ui.page, ch, fl, failed, last) BY <1>9 DEF CallsHold
<1> QED BY <1>1, <1>2, <1>3, <1>5, <1>6, <1>8, <1>10, <1>11, DrawKeeps DEF CallHolds

LEMMA FetchFailsKeeps ==
  ASSUME ConsoleInv, NEW k \in DOMAIN flying, FetchFails(k)
  PROVE  ConsoleInv'
<1>1. /\ failed' = failed \cup {k} /\ UNCHANGED <<ui, dialog, cache, call, server, last, own>>
      /\ flying' = Restrict(flying, DOMAIN flying \ {k})
  BY DEF FetchFails, serverVars
<1>2. DOMAIN flying' = DOMAIN flying \ {k} /\ \A q \in DOMAIN flying' : flying'[q] = flying[q] BY <1>1 DEF Restrict
<1>3. FlightHolds(flying') BY <1>2 DEF FlightHolds, ConsoleInv
<1>4. \A q, v : v \in Nat /\ v <= At(last, q) =>
                  v <= At(last', q) /\ (UpTo(q, v, cache, flying, failed) => UpTo(q, v, cache', flying', failed'))
  BY <1>1, <1>2 DEF UpTo
<1>5. Shows(own', last', cache', flying', failed') BY <1>1, <1>4, ShowsFollow DEF ConsoleInv
<1>6. CallsHold(call', ui'.page, cache', flying', failed', last') BY <1>1, <1>4, CallsFollow DEF ConsoleInv
<1>7. ServerHolds' BY <1>1 DEF ConsoleInv, ServerHolds
<1>8. Mounted(ui', cache') \subseteq DOMAIN cache' \cup DOMAIN flying' \cup failed' BY <1>1, <1>2 DEF ConsoleInv
<1> QED BY <1>1, <1>3, <1>5, <1>6, <1>7, <1>8 DEF ConsoleInv

(* A step that changes a call and at most what the server has.                    *)
LEMMA CallChanges ==
  ASSUME ConsoleInv, NEW c \in Call, NEW d, call' = [e \in Call |-> IF e = c THEN d ELSE call[e]],
         d = NoCall \/ (CallHolds(d, ui.page, cache, flying, failed, last') /\ d.owes \subseteq Mounted(ui, cache)),
         UNCHANGED <<ui, cache, flying, failed, own>>, dialog' = dialog \/ dialog' = None, ServerHolds',
         \A k : At(last, k) <= At(last', k),
         \A k : At(last', k) \in Nat
  PROVE  ConsoleInv'
<1>1. \A k : At(last, k) \in Nat BY DEF At, ConsoleInv, ServerHolds
<1>2. \A k, v : v \in Nat /\ v <= At(last, k) =>
                  v <= At(last', k) /\ (UpTo(k, v, cache, flying, failed) => UpTo(k, v, cache, flying, failed))
  BY <1>1
<1>3. Shows(own, last', cache, flying, failed) BY <1>2, ShowsFollow DEF ConsoleInv
<1>4. CallsHold(call, ui.page, cache, flying, failed, last') BY <1>2, CallsFollow DEF ConsoleInv
<1>5. CallsHold(call', ui.page, cache, flying, failed, last') BY <1>4 DEF CallsHold
<1>6. \A e \in Call : call'[e] # NoCall => call'[e].owes \subseteq Mounted(ui, cache) BY DEF ConsoleInv
<1>7. call' = [e \in Call |-> call'[e]] OBVIOUS
<1> QED BY <1>3, <1>5, <1>6, <1>7 DEF ConsoleInv

LEMMA LastIsNat == ConsoleInv => \A k : At(last, k) \in Nat
BY DEF At, ConsoleInv, ServerHolds

LEMMA ToastKeeps ==
  ASSUME ConsoleInv, NEW c \in Call, Toast(c), UNCHANGED <<session, serverVars, own>>
  PROVE  ConsoleInv'
<1>1. call' = [call EXCEPT ![c] = NoCall] /\ UNCHANGED <<ui, dialog, cache, flying, failed, own, server, last>>
  BY DEF Toast, serverVars, shown
<1>2. call' = [e \in Call |-> IF e = c THEN NoCall ELSE call[e]] BY <1>1 DEF ConsoleInv
<1>3. ServerHolds' BY <1>1 DEF ConsoleInv, ServerHolds
<1>4. \A k : At(last, k) <= At(last', k) /\ At(last', k) \in Nat BY <1>1, LastIsNat
<1> QED BY <1>1, <1>2, <1>3, <1>4, CallChanges

(* The sheet of a row that is found in its list shows a row of the current project. *)
LEMMA SheetOfList ==
  ASSUME ConsoleInv, ui.page \in Inner, sheet, NEW op \in DOMAIN SheetOf(ui.page).acts, op \notin {"replay", "retry", "cancel"}
  PROVE  ui.opened = current
<1>1. ui.page \in {"connections", "sources", "destinations"} BY SheetOps
<1> DEFINE q == ScreenOf(ui, cache).rows
<1>2. ~ SheetOf(ui.page).byId BY <1>1 DEF SheetOf, ConnectionSheet, SourceSheet, DestinationSheet, NoSheet
<1>3. q \in ProjectQueries
  BY <1>1 DEF ScreenOf, Screen, ConnectionsPage, SourcesPage, DestinationsPage, ProjectQueries
<1>4. Key(q, ui, cache) \in DOMAIN cache /\ cache[Key(q, ui, cache)].of = ui.opened BY <1>2 DEF sheet, SheetIn, InList
<1>5. Key(q, ui, cache) = <<q, current>> BY <1>3 DEF Key, current
<1> QED BY <1>3, <1>4, <1>5 DEF ConsoleInv, CacheHolds, DataHolds

(* What is done to a row is done from its sheet, which shows a row of the current *)
(* project: one found in its list, or one that was read by its id.                *)
LEMMA RowIsOfProject ==
  ASSUME ConsoleInv, NEW op \in DOMAIN ActsNow, op \in RowOps, Enabled(op)
  PROVE  ui.opened = current
<1>1. ui.page \in Inner /\ sheet /\ op \in DOMAIN SheetOf(ui.page).acts BY Offered
<1>2. CASE ui.page = "events"
  <2>1. op = "replay" BY <1>1, <1>2, SheetOps
  <2>2. Key("event", ui, cache) \in DOMAIN cache BY <2>1 DEF Enabled
  <2>3. Key("event", ui, cache) = <<"event", current, ui.opened>> BY DEF Key, current, ProjectQueries, RowQueries
  <2>4. "event" \in RowQueries BY DEF RowQueries
  <2> QED BY <2>2, <2>3, <2>4 DEF ConsoleInv, CacheHolds, DataHolds
<1>3. CASE ui.page = "deliveries"
  <2>1. op \in {"retry", "cancel"} BY <1>1, <1>3, SheetOps
  <2>2. Key("delivery", ui, cache) \in DOMAIN cache BY <2>1 DEF Enabled
  <2>3. Key("delivery", ui, cache) = <<"delivery", current, ui.opened>> BY DEF Key, current, ProjectQueries, RowQueries
  <2>4. "delivery" \in RowQueries BY DEF RowQueries
  <2> QED BY <2>2, <2>3, <2>4 DEF ConsoleInv, CacheHolds, DataHolds
<1>4. CASE ui.page \in {"connections", "sources", "destinations"} BY <1>1, <1>4, SheetOps, SheetOfList
<1> QED BY <1>1, <1>2, <1>3, <1>4, SheetOps

(* Whoever has a project has a role.                                              *)
LEMMA RoleOfCurrent ==
  ASSUME ConsoleInv
  PROVE  RoleIn(cache) \in Roles \cup {None} /\ (current # None => RoleIn(cache) # None)
<1>1. <<"projects">> \in DOMAIN cache => cache[<<"projects">>].role \in Roles \cup {None}
  BY DEF ConsoleInv, CacheHolds, DataHolds
<1>2. RoleIn(cache) \in Roles \cup {None} BY <1>1 DEF RoleIn
<1>a. <<"projects">> \in DOMAIN cache /\ cache[<<"projects">>].role = None => cache[<<"projects">>].list = {}
  BY DEF ConsoleInv, CacheHolds, DataHolds
<1>3. RoleIn(cache) = None => Listed(cache) = {} BY <1>a DEF RoleIn, Listed
<1>4. Listed(cache) = {} => current = None BY DEF current, Current
<1> QED BY <1>2, <1>3, <1>4

LEMMA SendKeeps ==
  ASSUME ConsoleInv, NEW c \in Call, NEW offer, Send(c, offer), UNCHANGED <<session, serverVars, own>>,
         offer.reloads \in Seq(Queries), Reaches(offer.op, ui.page, offer.reloads), Allowed(offer.op, offer.as),
         offer.op = "leave" => ui.page = "org",
         offer.op \in RowOps => ui.opened = offer.project,
         offer.op \in RowOps \cup OfProject => current = offer.project \/ offer.op \in {"replay", "cancel"},
         offer.op \in MemberOps => RoleIn(cache) \in Roles \ {None},
         offer.op \notin Confirmed => RoleIn(cache) = offer.as
  PROVE  ConsoleInv'
<1> DEFINE row == IF offer.op \in RowOps THEN ui.opened
                  ELSE IF offer.op \in {"createConnection", "bulkRetry"} THEN ui.chosen ELSE None
           d == [pc |-> "sent", op |-> offer.op, page |-> ui.page, project |-> current, asked |-> offer.project,
                 as |-> offer.as, knows |-> RoleIn(cache), row |-> row, reloads |-> offer.reloads, here |-> TRUE,
                 stands |-> TRUE, under |-> current, owes |-> {}, waits |-> {}, wrote |-> 0, made |-> None]
<1>1. /\ call' = [call EXCEPT ![c] = d] /\ UNCHANGED <<ui, cache, flying, failed, own, server, last>> /\ dialog' = None
  BY DEF Send, serverVars
<1>2. call' = [e \in Call |-> IF e = c THEN d ELSE call[e]] BY <1>1 DEF ConsoleInv
<1>3. ServerHolds' BY <1>1 DEF ConsoleInv, ServerHolds
<1>4. (\A k : At(last, k) <= At(last', k)) /\ (\A k : At(last', k) \in Nat) BY <1>1, LastIsNat
<1>5. offer.op \in RowOps => row = offer.project OBVIOUS
<1> HIDE DEF row
<1>6. /\ d.pc = "sent" /\ d.op = offer.op /\ d.page = ui.page /\ d.project = current /\ d.asked = offer.project
      /\ d.as = offer.as /\ d.knows = RoleIn(cache) /\ d.row = row /\ d.reloads = offer.reloads /\ d.here = TRUE
      /\ d.owes = {} /\ d.wrote = 0
  OBVIOUS
<1>7. Whole(d) BY DEF Whole
<1> HIDE DEF d
<1>8. Offers(d) BY <1>5, <1>6 DEF Offers
<1>9. CallFixed(d)
  <2>1. d.pc \in {"sent", "forbidden", "done", "reloading"} BY <1>6
  <2>n. d.wrote \in Nat BY <1>6
  <2>h. d.here \in BOOLEAN BY <1>6
  <2>2. d.owes = {} /\ Reaches(d.op, d.page, d.reloads) /\ d.reloads \in Seq(Queries) BY <1>6
  <2>3. d.pc \notin {"done", "reloading"} BY <1>6
  <2> QED BY <1>7, <1>8, <2>1, <2>n, <2>h, <2>2, <2>3 DEF CallFixed
<1>10. CallHolds(d, ui.page, cache, flying, failed, last') /\ d.owes \subseteq Mounted(ui, cache)
  BY <1>6, <1>9 DEF CallHolds, CallKept, CallOwes
<1>11. UNCHANGED <<ui, cache, flying, failed, own>> /\ dialog' = None BY <1>1
<1> QED BY <1>2, <1>3, <1>4, <1>10, <1>11, CallChanges, Zenon

(* What is offered now is good to be sent, and to be confirmed in a dialog.        *)
LEMMA OfferIsGood ==
  ASSUME ConsoleInv, NEW op, Enabled(op)
  PROVE  /\ Offer(op).op = op /\ Offer(op).project = current /\ Offer(op).as = RoleIn(cache)
         /\ Offer(op).reloads \in Seq(Queries) /\ Reaches(op, ui.page, Offer(op).reloads)
         /\ Allowed(op, RoleIn(cache)) /\ (op \in MemberOps => RoleIn(cache) \in Roles \ {None})
         /\ op \in RowOps => /\ ui.opened = current
                             /\ ui.page \in Inner /\ sheet /\ op \in DOMAIN SheetOf(ui.page).acts
         /\ op = "leave" => ui.page = "org" /\ RoleIn(cache) # None
         /\ op \in OfProject => ui.page = "settings"
<1>1. op \in DOMAIN ActsNow BY DEF Enabled
<1>2. op # "acceptInvitation" => RoleIn(cache) \in Roles \ {None} BY RoleOfCurrent DEF Enabled
<1>3. "acceptInvitation" \notin MemberOps \cup AdminOps BY DEF MemberOps, AdminOps
<1>4. Offer(op).op = op /\ Offer(op).project = current /\ Offer(op).as = RoleIn(cache) /\ Offer(op).reloads = ActsNow[op]
  BY DEF Offer
<1>5. Allowed(op, RoleIn(cache)) BY <1>1, <1>2, <1>3, Offered DEF Allowed
<1>6. op \in RowOps => ui.opened = current BY <1>1, RowIsOfProject
<1> QED BY <1>1, <1>2, <1>3, <1>4, <1>5, <1>6, Offered

LEMMA SubmitKeeps ==
  ASSUME ConsoleInv, NEW c \in Call, NEW op, Submit(c, op), UNCHANGED <<session, serverVars, own>>
  PROVE  ConsoleInv'
<1>1. Enabled(op) /\ Send(c, Offer(op)) /\ op \notin Confirmed BY DEF Submit
<1> HIDE DEF Offer
<1> QED BY <1>1, OfferIsGood, SendKeeps

(* In a dialog nothing is looked at again, but it went if its sheet or project did. *)
LEMMA ConfirmKeeps ==
  ASSUME ConsoleInv, NEW c \in Call, Confirm(c), UNCHANGED <<session, serverVars, own>>
  PROVE  ConsoleInv'
<1> DEFINE op == dialog.op
<1>1. Send(c, dialog) /\ DialogHolds(dialog, ui, cache) BY DEF Confirm, ConsoleInv
<1>2. op \in RowOps => /\ ui.opened = dialog.project /\ ui.page \in Inner /\ sheet /\ op \in DOMAIN SheetOf(ui.page).acts
                      /\ current # None
  BY <1>1 DEF DialogHolds, sheet, SheetIn, current
<1>3. op \in RowOps => current = dialog.project \/ op \in {"replay", "cancel"}
  <2>1. op # "retry" BY <1>1 DEF DialogHolds, Confirmed
  <2> QED BY <1>2, <2>1, SheetOfList
<1>4. op \in OfProject => current = dialog.project BY <1>1 DEF DialogHolds, current
<1>5. op \in MemberOps => RoleIn(cache) \in Roles \ {None}
  <2>1. op \in MemberOps => op \in RowOps \/ op = "leave"
    <3>1. op \in Confirmed BY <1>1 DEF DialogHolds
    <3>2. {"replay", "cancel", "rotateSlug", "removeSource", "removeDestination", "removeConnection"} \subseteq RowOps
      BY SheetActsAreRowOps
    <3> QED BY <3>1, <3>2 DEF Confirmed, MemberOps
  <2>2. op = "leave" => RoleIn(cache) # None BY <1>1 DEF DialogHolds
  <2> QED BY <1>2, <2>1, <2>2, RoleOfCurrent
<1>6. /\ op \in Confirmed /\ dialog.reloads \in Seq(Queries) /\ Reaches(op, ui.page, dialog.reloads)
      /\ Allowed(op, dialog.as) /\ (op = "leave" => ui.page = "org")
  BY <1>1 DEF DialogHolds
<1> HIDE DEF op
<1> QED BY <1>1, <1>2, <1>3, <1>4, <1>5, <1>6, SendKeeps DEF op

LEMMA ForbidKeeps ==
  ASSUME ConsoleInv, NEW c \in Call, Forbid(c), UNCHANGED <<session, serverVars, own>>
  PROVE  ConsoleInv'
<1> DEFINE r == call[c]
           d == [call[c] EXCEPT !.pc = "forbidden"]
<1>1. call' = [call EXCEPT ![c] = d] /\ UNCHANGED <<ui, dialog, cache, flying, failed, own, server, last>> /\ r.pc = "sent"
  BY DEF Forbid, serverVars, shown
<1>2. call' = [e \in Call |-> IF e = c THEN d ELSE call[e]] BY <1>1 DEF ConsoleInv
<1>3. ServerHolds' BY <1>1 DEF ConsoleInv, ServerHolds
<1>4. \A k : At(last, k) <= At(last', k) /\ At(last', k) \in Nat BY <1>1, LastIsNat
<1>5. CallFixed(r) /\ (r.here => r.page = ui.page) BY <1>1 DEF ConsoleInv, CallsHold, CallHolds, CallKept, NoCall
<1>6. d = [pc |-> "forbidden", op |-> r.op, page |-> r.page, project |-> r.project, asked |-> r.asked, as |-> r.as,
           knows |-> r.knows, row |-> r.row, reloads |-> r.reloads, here |-> r.here, stands |-> r.stands, under |-> r.under,
           owes |-> r.owes, waits |-> r.waits, wrote |-> r.wrote, made |-> r.made]
  BY <1>5 DEF CallFixed, Whole
<1> HIDE DEF d, r
<1>7. CallFixed(d)
  <2>1. Offers(d) BY <1>5, <1>6 DEF CallFixed, Offers
  <2>2. Whole(d) BY <1>6 DEF Whole
  <2> QED BY <1>1, <1>5, <1>6, <2>1, <2>2 DEF CallFixed
<1>8. d.owes = {} /\ CallHolds(d, ui.page, cache, flying, failed, last')
  BY <1>1, <1>5, <1>6, <1>7 DEF CallHolds, CallKept, CallOwes, CallFixed
<1> QED BY <1>1, <1>2, <1>3, <1>4, <1>8, CallChanges

(* What the server does is the latest change to all that the operation touches.   *)
LEMMA TakesKeeps ==
  ASSUME ConsoleInv, NEW c \in Call, NEW existing, NEW role \in Roles \cup {None}, NEW made, Takes(c, existing, role, made),
         call[c].op \in RowOps => call[c].row = call[c].project, UNCHANGED <<session, own>>
  PROVE  ConsoleInv'
<1> DEFINE r == call[c]
           now == server.clock + 1
           d == [pc |-> "done", op |-> r.op, page |-> r.page, project |-> r.project, asked |-> r.asked, as |-> r.as,
                 knows |-> r.knows, row |-> r.row,
                 reloads |-> r.reloads, here |-> r.here, stands |-> r.stands, under |-> r.under,
                 owes |-> r.owes, waits |-> r.waits, wrote |-> now, made |-> made]
<1>1. /\ server' = [existing |-> existing, role |-> role, clock |-> now] /\ last' = Changed(KeysTouched(c))
      /\ call' = [call EXCEPT ![c].pc = "done", ![c].wrote = now, ![c].made = made]
      /\ UNCHANGED <<ui, dialog, cache, flying, failed, own>> /\ r.pc = "sent"
  BY DEF Takes, shown
<1>2. CallFixed(r) /\ (r.here => r.page = ui.page) BY <1>1 DEF ConsoleInv, CallsHold, CallHolds, CallKept, NoCall
<1>3. call'[c] = d
  <2>1. call'[c] = [r EXCEPT !.pc = "done", !.wrote = now, !.made = made] BY <1>1 DEF ConsoleInv
  <2> QED BY <1>2, <2>1 DEF CallFixed, Whole
<1>4. call' = [e \in Call |-> IF e = c THEN d ELSE call[e]]
  <2>1. call' = [e \in Call |-> call'[e]] BY <1>1 DEF ConsoleInv
  <2>2. \A e \in Call : e # c => call'[e] = call[e] BY <1>1 DEF ConsoleInv
  <2> HIDE DEF d
  <2> QED BY <1>3, <2>1, <2>2
<1>5. server.clock \in Nat /\ now \in Nat /\ now > 0 BY DEF ConsoleInv, ServerHolds
<1>6. KeysTouched(c) = KeysOf(r) BY DEF KeysTouched, KeysOf
<1>7. last' = [k \in DOMAIN last \cup KeysOf(r) |-> IF k \in KeysOf(r) THEN now ELSE last[k]] BY <1>1, <1>6 DEF Changed
<1> HIDE DEF now
<1>8. /\ \A k \in DOMAIN last' : last'[k] \in Nat /\ last'[k] <= now
      /\ \A k : At(last, k) <= At(last', k) /\ At(last', k) \in Nat
      /\ \A k \in KeysOf(r) : now <= At(last', k)
  BY <1>5, <1>7 DEF At, ConsoleInv, ServerHolds, now
<1>9. ServerHolds' BY <1>1, <1>5, <1>8 DEF ServerHolds
<1>10. /\ d.pc = "done" /\ d.op = r.op /\ d.page = r.page /\ d.project = r.project /\ d.asked = r.asked /\ d.as = r.as
       /\ d.knows = r.knows /\ d.row = r.row /\ d.under = r.under
       /\ d.reloads = r.reloads /\ d.here = r.here /\ d.owes = r.owes /\ d.wrote = now
  OBVIOUS
<1>w. Whole(d) BY DEF Whole
<1>p. r.op \in RowOps => r.row = r.project OBVIOUS
<1> HIDE DEF d, r
<1>11. d.owes = {} /\ CallFixed(d)
  <2>1. Offers(d) BY <1>2, <1>10 DEF CallFixed, Offers
  <2> QED BY <1>1, <1>2, <1>5, <1>10, <1>p, <1>w, <2>1 DEF CallFixed
<1>12. KeysOf(d) = KeysOf(r) BY <1>10 DEF KeysOf
<1>13. CallHolds(d, ui.page, cache, flying, failed, last') BY <1>2, <1>8, <1>10, <1>11, <1>12 DEF CallHolds, CallKept, CallOwes
<1>14. d.owes \subseteq Mounted(ui, cache) BY <1>11
<1>15. UNCHANGED <<ui, cache, flying, failed, own>> /\ dialog' = dialog BY <1>1
<1>16. (\A k : At(last, k) <= At(last', k)) /\ (\A k : At(last', k) \in Nat) BY <1>8
<1> QED BY <1>4, <1>9, <1>13, <1>14, <1>15, <1>16, CallChanges, Zenon

LEMMA ExecuteKeeps ==
  ASSUME ConsoleInv, NEW c \in Call, Execute(c), UNCHANGED <<session, own>>
  PROVE  ConsoleInv'
<1>1. server.role \in Roles \cup {None} BY DEF ConsoleInv, ServerHolds
<1>2. (IF server.role = None THEN "member" ELSE server.role) \in Roles \cup {None} BY <1>1 DEF Roles
<1>3. PICK existing, role, made : role \in Roles \cup {None} /\ Takes(c, existing, role, made)
  BY <1>1, <1>2 DEF Execute
<1>4. call[c].op \in RowOps => call[c].row = call[c].project BY RowOpsAre DEF Execute
<1> QED BY <1>3, <1>4, TakesKeeps

LEMMA ChangeRoleKeeps ==
  ASSUME ConsoleInv, ChangeRole
  PROVE  ConsoleInv'
<1> DEFINE now == server.clock + 1
           keys == {<<"projects">>, <<"members">>}
<1>1. /\ server' = [server EXCEPT !.role = IF @ = "member" THEN "admin" ELSE "member", !.clock = now]
      /\ last' = [k \in DOMAIN last \cup keys |-> IF k \in keys THEN now ELSE last[k]]
      /\ UNCHANGED <<ui, dialog, cache, flying, failed, call, own>>
  BY DEF ChangeRole, Changed, shown
<1>2. server.clock \in Nat /\ now \in Nat BY DEF ConsoleInv, ServerHolds
<1>3. server' = [existing |-> server.existing, role |-> IF server.role = "member" THEN "admin" ELSE "member", clock |-> now]
  BY <1>1 DEF ConsoleInv, ServerHolds
<1> HIDE DEF keys
<1>4. /\ \A k \in DOMAIN last' : last'[k] \in Nat /\ last'[k] <= now
      /\ \A k : At(last, k) \in Nat /\ At(last, k) <= At(last', k) /\ At(last', k) \in Nat
  BY <1>1, <1>2 DEF At, ConsoleInv, ServerHolds
<1> HIDE DEF now
<1>5. ServerHolds' BY <1>2, <1>3, <1>4 DEF ServerHolds, Roles
<1>6. \A k, v : v \in Nat /\ v <= At(last, k) =>
                  v <= At(last', k) /\ (UpTo(k, v, cache, flying, failed) => UpTo(k, v, cache', flying', failed'))
  BY <1>1, <1>4
<1>7. Shows(own', last', cache', flying', failed') BY <1>1, <1>6, ShowsFollow DEF ConsoleInv
<1>8. CallsHold(call', ui'.page, cache', flying', failed', last') BY <1>1, <1>6, CallsFollow DEF ConsoleInv
<1> QED BY <1>1, <1>5, <1>7, <1>8 DEF ConsoleInv

-----------------------------------------------------------------------------
(* onSuccess.  Of rows an operation touches only deliveries.                      *)
LEMMA OnlyDeliveriesAreRows ==
  ASSUME NEW op \in MemberOps \cup AdminOps \cup {"acceptInvitation"}, NEW q \in Touched(op) \cap RowQueries
  PROVE  q = "delivery" /\ op \in {"retry", "cancel", "bulkRetry"}
<1>1. CASE op \in {"replay", "retry", "cancel", "bulkRetry"} BY <1>1, DeliveryOps DEF RowQueries
<1>2. CASE op \in {"createConnection", "updateConnection", "pause", "unpause", "removeConnection"}
  BY <1>2, ConnectionOps DEF RowQueries
<1>3. CASE op \in {"createSource", "updateSource", "rotateSlug", "removeSource"} BY <1>3, SourceOps DEF RowQueries
<1>4. CASE op \in {"createDestination", "updateDestination", "removeDestination"} BY <1>4, DestinationOps DEF RowQueries
<1>5. CASE op \in AdminOps
  <2>1. Touched(op) \subseteq {"projects", "usage", "members", "invitations"} BY <1>5, OrgOps DEF AdminOps
  <2> QED BY <2>1 DEF RowQueries
<1>6. CASE op \in {"leave", "acceptInvitation"}
  <2>1. op \notin DOMAIN SourceRoutes \cup DOMAIN ConnectionRoutes \cup DOMAIN DeliveryRoutes
    BY <1>6 DEF SourceRoutes, ConnectionRoutes, DeliveryRoutes
  <2>2. Touched(op) = {"projects", "members"} BY <1>6, <2>1 DEF Touched
  <2> QED BY <2>2 DEF RowQueries
<1>7. op \in {"replay", "retry", "cancel", "bulkRetry"} \cup AdminOps \cup {"leave", "acceptInvitation"}
       \/ op \in {"createConnection", "updateConnection", "pause", "unpause", "removeConnection"}
       \/ op \in {"createSource", "updateSource", "rotateSlug", "removeSource"}
       \/ op \in {"createDestination", "updateDestination", "removeDestination"}
  BY DEF MemberOps
<1> QED BY <1>1, <1>2, <1>3, <1>4, <1>5, <1>6, <1>7

LEMMA TouchedKeys ==
  ASSUME NEW r, NEW k \in KeysOf(r)
  PROVE  /\ k[1] \in Touched(r.op)
         /\ k[1] \in RowQueries => k = <<k[1], r.project, r.project>>
         /\ k[1] \notin ProjectQueries \cup RowQueries => k = <<k[1]>>
<1>1. CASE \E q \in Touched(r.op) \cap ProjectQueries : k = <<q, r.project>>
  <2>1. PICK q \in Touched(r.op) \cap ProjectQueries : k = <<q, r.project>> BY <1>1
  <2>2. k[1] = q BY <2>1
  <2>3. q \notin RowQueries BY <2>1 DEF ProjectQueries, RowQueries
  <2> QED BY <2>1, <2>2, <2>3
<1>2. CASE \E q \in Touched(r.op) \cap RowQueries : k = <<q, r.project, r.project>>
  <2>1. PICK q \in Touched(r.op) \cap RowQueries : k = <<q, r.project, r.project>> BY <1>2
  <2>2. k[1] = q BY <2>1
  <2> QED BY <2>1, <2>2
<1>3. CASE \E q \in Touched(r.op) \ (ProjectQueries \cup RowQueries) : k = <<q>>
  <2>1. PICK q \in Touched(r.op) \ (ProjectQueries \cup RowQueries) : k = <<q>> BY <1>3
  <2>2. k[1] = q BY <2>1
  <2> QED BY <2>1, <2>2
<1> QED BY <1>1, <1>2, <1>3 DEF KeysOf

(* What a call that is answered owes is among what is to be read again.           *)
LEMMA OwedIsReached ==
  ASSUME ConsoleInv, NEW c \in Call, call[c].pc = "done", call[c].op # "leave",
         NEW k \in Promised(c)
  PROVE  /\ call[c].wrote <= At(last, k) /\ Contains(call[c].reloads, k[1])
         /\ k[1] \in RowQueries => k = <<k[1], call[c].under, call[c].row>>
<1> DEFINE r == call[c]
<1>1. CallKept(r, ui.page, last) BY DEF ConsoleInv, CallsHold, CallHolds, NoCall
<1>0. /\ k \in Mounted(ui, cache) \cap KeysTouched(c) /\ r.here /\ k # <<"usage">>
      /\ k[1] = "delivery" => r.op # "bulkRetry" /\ r.under = r.project
  BY DEF Promised
<1>2. CallFixed(r) /\ r.page = ui.page /\ r.pc = "done" BY <1>0, <1>1 DEF CallKept
<1>3. KeysTouched(c) = KeysOf(r) BY DEF KeysTouched, KeysOf
<1>4. r.wrote <= At(last, k) BY <1>0, <1>1, <1>2, <1>3 DEF CallKept
<1> HIDE DEF r
<1>5. k[1] \in Touched(r.op) BY <1>0, <1>3, TouchedKeys
<1>6. k[1] \in ReadBy(ui.page) /\ ui.page \in Inner BY <1>0, MountedIsRead
<1>7. k[1] # "usage"
  <2>1. "usage" \notin ProjectQueries \cup RowQueries BY DEF ProjectQueries, RowQueries
  <2> QED BY <1>0, <1>3, <2>1, TouchedKeys
<1>8. Reaches(r.op, r.page, r.reloads) BY <1>2 DEF CallFixed, r
<1>9. Contains(r.reloads, k[1]) BY <1>0, <1>2, <1>5, <1>6, <1>7, <1>8 DEF Reaches, r
<1>10. ASSUME k[1] \in RowQueries PROVE k = <<k[1], r.under, r.row>>
  <2>1. r.op \in MemberOps \cup AdminOps \cup {"acceptInvitation"} BY <1>2 DEF CallFixed, Offers, Allowed, AdminOps
  <2>2. k[1] = "delivery" /\ r.op \in {"retry", "cancel"} BY <1>0, <1>5, <1>10, <2>1, OnlyDeliveriesAreRows
  <2>3. r.op \in RowOps BY <2>2, SheetActsAreRowOps DEF r
  <2>4. r.row = r.project /\ r.under = r.project BY <1>0, <1>2, <2>2, <2>3 DEF CallFixed, r
  <2> QED BY <1>0, <1>3, <1>10, <2>4, TouchedKeys
<1> QED BY <1>4, <1>9, <1>10 DEF r

LEMMA AnswerKeeps ==
  ASSUME ConsoleInv, NEW c \in Call, Answer(c), UNCHANGED <<serverVars, own>>
  PROVE  ConsoleInv'
<1> DEFINE r == call[c]
           owes == Promised(c)
           calls == [call EXCEPT ![c].pc = "reloading", ![c].owes = owes]
           other == Listed(cache) \ {r.project}
           d == [pc |-> "reloading", op |-> r.op, page |-> r.page, project |-> r.project, asked |-> r.asked, as |-> r.as,
                 knows |-> r.knows, row |-> r.row, reloads |-> r.reloads, here |-> r.here, stands |-> r.stands,
                 under |-> r.under, owes |-> owes, waits |-> r.waits, wrote |-> r.wrote, made |-> r.made]
           Fits(u) == HasFields(u) /\ (u.page = ui.page => u.opened \in {ui.opened, None}) /\ (r.op = "leave" => u.page = "login")
<1>1. r.pc = "done" BY DEF Answer
<1>2. CallKept(r, ui.page, last) BY <1>1 DEF ConsoleInv, CallsHold, CallHolds, NoCall
<1>3. CallFixed(r) BY <1>2 DEF CallKept
<1>4. PICK u : Show(u, cache, flying, calls) /\ Fits(u)
  <2>1. HasFields(ui) BY DEF ConsoleInv
  <2>2. CASE r.op \in Removes
    <3>1. Show(BackTo(c), cache, flying, calls) BY <2>2 DEF Answer, Removes
    <3>2. HasFields(BackTo(c)) /\ (BackTo(c).page = ui.page => BackTo(c).opened = None) BY <2>1, GoToFits DEF BackTo
    <3>3. r.op # "leave" BY <2>2 DEF Removes
    <3> QED BY <3>1, <3>2, <3>3
  <2>3. CASE r.op = "removeProject" /\ other # {}
    <3>1. Show(select(FirstOf(other), r.here), cache, flying, calls) BY <2>3 DEF Answer, Removes
    <3> QED BY <2>1, <2>3, <3>1, SelectFits
  <2>4. CASE r.op = "createConnection" /\ r.here
    <3>1. Show([ui EXCEPT !.chosen = None], cache, flying, calls) BY <2>4 DEF Answer, Removes
    <3>2. HasFields([ui EXCEPT !.chosen = None]) /\ [ui EXCEPT !.chosen = None].opened = ui.opened BY <2>1 DEF HasFields
    <3> QED BY <2>4, <3>1, <3>2
  <2>5. CASE r.op = "leave"
    <3>1. Show(goTo("login"), cache, flying, calls) BY <2>5 DEF Answer, Removes
    <3>2. /\ HasFields(goTo("login")) /\ goTo("login").page = "login"
          /\ goTo("login").page = ui.page => goTo("login").opened = None
      BY <2>1, GoToFits
    <3> QED BY <3>1, <3>2
  <2>6. CASE /\ r.op \notin Removes /\ ~ (r.op = "removeProject" /\ other # {}) /\ ~ (r.op = "createConnection" /\ r.here)
             /\ r.op # "leave"
    <3>1. Show(ui, cache, flying, calls) BY <2>6 DEF Answer
    <3> QED BY <2>1, <2>6, <3>1
  <2> QED BY <2>2, <2>3, <2>4, <2>5, <2>6
<1>5. calls[c] = d
  <2> HIDE DEF owes
  <2>1. calls[c] = [r EXCEPT !.pc = "reloading", !.owes = owes] BY DEF ConsoleInv
  <2>2. Whole(r) BY <1>3 DEF CallFixed
  <2> HIDE DEF calls, r
  <2> QED BY <2>1, <2>2 DEF Whole
<1>6. \A e \in Call : e # c => calls[e] = call[e] BY DEF ConsoleInv
<1>7. \A k \in owes : k \in Mounted(ui, cache) /\ k \in DOMAIN cache BY DEF Promised
<1>8. /\ d.pc = "reloading" /\ d.op = r.op /\ d.page = r.page /\ d.project = r.project /\ d.asked = r.asked /\ d.as = r.as
      /\ d.knows = r.knows /\ d.row = r.row /\ d.under = r.under /\ d.reloads = r.reloads /\ d.here = r.here
      /\ d.owes = owes /\ d.wrote = r.wrote
  OBVIOUS
<1>w. Whole(d) BY DEF Whole
<1> HIDE DEF d, owes, calls, other
<1>9. CallKept(d, ui.page, last)
  <2>1. Offers(d) BY <1>3, <1>8 DEF CallFixed, Offers
  <2>2. CallFixed(d) BY <1>1, <1>3, <1>8, <1>w, <2>1 DEF CallFixed
  <2> QED BY <1>2, <1>8, <2>2 DEF CallKept
<1>10. u.page = ui.page => CallOwes(d, cache, flying, failed, last)
  <2>1. CASE r.op = "leave"
    <3>1. u.page = ui.page => Mounted(ui, cache) = {} BY <1>4, <2>1 DEF Mounted, Inner
    <3> QED BY <1>7, <1>8, <3>1 DEF CallOwes
  <2>2. CASE r.op # "leave"
    <3>1. \A k \in owes : /\ r.wrote <= At(last, k) /\ Contains(r.reloads, k[1])
                          /\ k[1] \in RowQueries => k = <<k[1], r.under, r.row>>
      BY <1>1, <2>2, OwedIsReached DEF owes
    <3> QED BY <1>7, <1>8, <3>1 DEF CallOwes
  <2> QED BY <2>1, <2>2
<1>11. \A e \in Call : \/ calls[e] = NoCall
                       \/ /\ CallKept(calls[e], ui.page, last)
                          /\ u.page = ui.page => CallOwes(calls[e], cache, flying, failed, last)
  BY <1>5, <1>6, <1>9, <1>10 DEF ConsoleInv, CallsHold, CallHolds
<1>12. UNCHANGED serverVars /\ own' = own OBVIOUS
<1>13. Draw(u, cache, flying, calls, dialog) BY <1>4 DEF Show
<1> QED BY <1>4, <1>11, <1>12, <1>13, DrawKeeps DEF ConsoleInv

(* What is read again is on its way, so that it is up to the change when it comes. *)
LEMMA ContainsRest ==
  ASSUME NEW S, NEW s \in Seq(S), s # <<>>, NEW q, Contains(s, q), q # Head(s)
  PROVE  Contains(Tail(s), q)
<1>1. PICK i \in DOMAIN s : s[i] = q BY DEF Contains
<1>2. i # 1 BY <1>1
<1>3. (i - 1) \in DOMAIN Tail(s) /\ Tail(s)[i - 1] = s[i] BY <1>2
<1> QED BY <1>1, <1>3 DEF Contains

LEMMA ReloadKeeps ==
  ASSUME ConsoleInv, NEW c \in Call, Reload(c), UNCHANGED serverVars
  PROVE  ConsoleInv'
<1> DEFINE r == call[c]
           q == Head(r.reloads)
           keys == Matching(c, q)
           fl == Refetch(keys)
           calls == [call EXCEPT ![c].reloads = Tail(r.reloads), ![c].waits = keys]
           d == [pc |-> r.pc, op |-> r.op, page |-> r.page, project |-> r.project, asked |-> r.asked, as |-> r.as,
                 knows |-> r.knows, row |-> r.row, reloads |-> Tail(r.reloads), here |-> r.here, stands |-> r.stands,
                 under |-> r.under, owes |-> r.owes, waits |-> keys, wrote |-> r.wrote, made |-> r.made]
<1>1. Draw(ui, cache, fl, calls, dialog) /\ r.pc = "reloading" /\ r.reloads # <<>> /\ own' = own
  BY DEF Reload, Settled, Show
<1>2. CallKept(r, ui.page, last) /\ CallOwes(r, cache, flying, failed, last) /\ r.owes \subseteq Mounted(ui, cache)
  BY <1>1 DEF ConsoleInv, CallsHold, CallHolds, NoCall
<1>3. CallFixed(r) BY <1>2 DEF CallKept
<1>4. calls[c] = d
  <2> HIDE DEF keys
  <2>1. calls[c] = [r EXCEPT !.reloads = Tail(r.reloads), !.waits = keys] BY DEF ConsoleInv
  <2>2. Whole(r) BY <1>3 DEF CallFixed
  <2> HIDE DEF calls, r
  <2> QED BY <2>1, <2>2 DEF Whole
<1>5. \A e \in Call : e # c => calls[e] = call[e] BY DEF ConsoleInv
<1>6. keys \subseteq Mounted(ui, cache) /\ \A k \in Mounted(ui, cache) :
        k[1] = q /\ (k[1] \in RowQueries => k = <<k[1], r.under, r.row>>) => k \in keys
  BY DEF Matching
<1>7. /\ d.pc = r.pc /\ d.op = r.op /\ d.page = r.page /\ d.project = r.project /\ d.asked = r.asked /\ d.as = r.as
      /\ d.knows = r.knows /\ d.row = r.row /\ d.under = r.under /\ d.reloads = Tail(r.reloads) /\ d.here = r.here
      /\ d.owes = r.owes /\ d.wrote = r.wrote
  OBVIOUS
<1>w. Whole(d) BY DEF Whole
<1>8. /\ DOMAIN fl = DOMAIN flying \cup keys
      /\ \A k \in DOMAIN fl : fl[k] = IF k \in keys /\ (k \in DOMAIN cache \/ k \notin DOMAIN flying)
                                        THEN Fetch(ui, cache) ELSE flying[k]
  BY DEF Refetch
<1> HIDE DEF d, keys, calls, fl, q
<1>9. FlightHolds(fl)
  <2>1. \A k \in keys : k[1] \in ProjectQueries \cup RowQueries => Fetch(ui, cache).of = k[2]
    BY <1>6, MountedIsRead DEF Fetch
  <2>2. Fetch(ui, cache).answered = FALSE BY DEF Fetch
  <2> SUFFICES ASSUME NEW k \in DOMAIN fl
               PROVE  /\ fl[k].answered \in BOOLEAN
                      /\ k[1] \in ProjectQueries \cup RowQueries => fl[k].of = k[2]
                      /\ fl[k].answered => DataHolds(k, fl[k].data)
    BY DEF FlightHolds
  <2>3. CASE k \in keys /\ (k \in DOMAIN cache \/ k \notin DOMAIN flying)
    <3>1. fl[k] = Fetch(ui, cache) BY <1>8, <2>3
    <3> QED BY <2>1, <2>2, <2>3, <3>1
  <2>4. CASE ~ (k \in keys /\ (k \in DOMAIN cache \/ k \notin DOMAIN flying))
    <3>1. fl[k] = flying[k] /\ k \in DOMAIN flying BY <1>8, <2>4
    <3> QED BY <3>1 DEF ConsoleInv, FlightHolds
  <2> QED BY <2>3, <2>4
<1>10. \A k, v : v \in Nat /\ v <= At(last, k) =>
                   v <= At(last, k) /\ (UpTo(k, v, cache, flying, failed) => UpTo(k, v, cache, fl, failed))
  BY <1>8 DEF UpTo, Fetch
<1>11. Shows(own', last, cache, fl, failed) BY <1>1, <1>10, ShowsFollow DEF ConsoleInv
<1>12. CallsHold(call, ui.page, cache, fl, failed, last) BY <1>10, CallsFollow DEF ConsoleInv
<1>13. CallKept(d, ui.page, last)
  <2>1. Offers(d) BY <1>3, <1>7 DEF CallFixed, Offers
  <2>2. d.reloads \in Seq(Queries) BY <1>1, <1>3, <1>7 DEF CallFixed
  <2>3. CallFixed(d) BY <1>1, <1>3, <1>7, <1>w, <2>1, <2>2 DEF CallFixed
  <2> QED BY <1>1, <1>2, <1>7, <2>3 DEF CallKept
<1>14. CallOwes(d, cache, fl, failed, last)
  <2> SUFFICES ASSUME NEW k \in r.owes
               PROVE  /\ k \in DOMAIN cache /\ r.wrote <= At(last, k)
                      /\ k[1] \in RowQueries => k = <<k[1], r.under, r.row>>
                      /\ Contains(d.reloads, k[1]) \/ UpTo(k, r.wrote, cache, fl, failed)
    BY <1>7 DEF CallOwes
  <2>1. /\ k \in DOMAIN cache /\ r.wrote <= At(last, k) /\ k \in Mounted(ui, cache)
        /\ k[1] \in RowQueries => k = <<k[1], r.under, r.row>>
        /\ Contains(r.reloads, k[1]) \/ UpTo(k, r.wrote, cache, flying, failed)
    BY <1>2 DEF CallOwes
  <2>2. CASE k[1] = q
    <3>1. k \in keys BY <1>6, <2>1, <2>2
    <3>2. k \in DOMAIN fl /\ ~ fl[k].answered BY <1>8, <2>1, <3>1 DEF Fetch
    <3> QED BY <2>1, <3>2 DEF UpTo
  <2>3. CASE Contains(r.reloads, k[1]) /\ k[1] # q
    <3>1. r.reloads \in Seq(Queries) BY <1>3 DEF CallFixed
    <3>2. Contains(Tail(r.reloads), k[1]) BY <1>1, <2>3, <3>1, ContainsRest DEF q
    <3> QED BY <1>7, <2>1, <3>2
  <2>4. CASE UpTo(k, r.wrote, cache, flying, failed)
    <3>1. r.wrote \in Nat BY <1>3 DEF CallFixed
    <3> QED BY <1>10, <2>1, <2>4, <3>1
  <2> QED BY <2>1, <2>2, <2>3, <2>4
<1>15. \A e \in Call : \/ calls[e] = NoCall
                       \/ CallKept(calls[e], ui.page, last) /\ CallOwes(calls[e], cache, fl, failed, last)
  BY <1>4, <1>5, <1>12, <1>13, <1>14 DEF CallsHold, CallHolds
<1>16. DOMAIN flying \subseteq DOMAIN fl BY <1>8
<1>17. CacheHolds(cache) /\ HasFields(ui) BY DEF ConsoleInv
<1> QED BY <1>1, <1>9, <1>11, <1>15, <1>16, <1>17, DrawKeeps

(* What has been read again shows the change, or will when it comes.              *)
LEMMA FinishKeeps ==
  ASSUME ConsoleInv, NEW c \in Call, Finish(c), UNCHANGED serverVars
  PROVE  ConsoleInv'
<1> DEFINE r == call[c]
           calls == [call EXCEPT ![c] = NoCall]
<1>1. /\ r.pc = "reloading" /\ r.reloads = <<>>
      /\ own' = [k \in DOMAIN own \cup r.owes |-> IF k \in r.owes /\ At(own, k) < r.wrote THEN r.wrote ELSE own[k]]
  BY DEF Finish, Settled
<1>2. CallFixed(r) /\ CallOwes(r, cache, flying, failed, last)
  BY <1>1 DEF ConsoleInv, CallsHold, CallHolds, CallKept, NoCall
<1>3. PICK u, asked : /\ Draw(u, cache, flying, calls, asked) /\ HasFields(u)
                      /\ asked = None \/ (asked = dialog /\ (u.page = ui.page => u.opened \in {ui.opened, None}))
  <2>1. HasFields(ui) BY DEF ConsoleInv
  <2>2. CASE r.op = "createProject"
    <3>1. Draw(select(r.made, r.here), cache, flying, calls, dialog) BY <2>2 DEF Finish, Show
    <3> QED BY <2>1, <3>1, SelectFits
  <2>3. CASE r.op = "createSource"
    <3>1. Draw([BackTo(c) EXCEPT !.opened = r.project], cache, flying, calls, None) BY <2>3 DEF Finish
    <3>2. HasFields(BackTo(c)) BY <2>1, GoToFits DEF BackTo
    <3>3. HasFields([BackTo(c) EXCEPT !.opened = r.project]) BY <3>2 DEF HasFields
    <3> QED BY <3>1, <3>3
  <2>4. CASE r.op = "removeProject"
    <3> DEFINE page == RequireAuth("events")
    <3>1. Draw(goTo(page), cache, flying, calls, dialog) BY <2>4 DEF Finish, Show
    <3> HIDE DEF page
    <3>2. HasFields(goTo(page)) /\ (goTo(page).page = ui.page => goTo(page).opened = None) BY <2>1, GoToFits
    <3> QED BY <3>1, <3>2
  <2>5. CASE r.op \notin {"createProject", "createSource", "removeProject"}
    <3>1. Draw(ui, cache, flying, calls, dialog) BY <2>5 DEF Finish, Show
    <3> QED BY <2>1, <3>1
  <2> QED BY <2>2, <2>3, <2>4, <2>5
<1>4. \A q : ~ Contains(<<>>, q) BY DEF Contains
<1>5. Shows(own', last, cache, flying, failed)
  <2> SUFFICES ASSUME NEW k \in DOMAIN own'
               PROVE  own'[k] \in Nat /\ own'[k] <= At(last, k) /\ UpTo(k, own'[k], cache, flying, failed)
    BY DEF Shows
  <2>1. CASE k \in r.owes /\ At(own, k) < r.wrote
    <3>1. own'[k] = r.wrote /\ r.wrote \in Nat BY <1>1, <1>2, <2>1 DEF CallFixed
    <3>2. r.wrote <= At(last, k) /\ UpTo(k, r.wrote, cache, flying, failed) BY <1>1, <1>2, <1>4, <2>1 DEF CallOwes
    <3> QED BY <3>1, <3>2
  <2>2. CASE ~ (k \in r.owes /\ At(own, k) < r.wrote)
    <3>1. own'[k] = own[k] BY <1>1, <2>2
    <3>2. k \in DOMAIN own
      <4>1. r.wrote > 0 /\ r.wrote \in Nat BY <1>1, <1>2 DEF CallFixed
      <4> QED BY <1>1, <2>2, <4>1 DEF At
    <3> QED BY <3>1, <3>2 DEF ConsoleInv, Shows
  <2> QED BY <2>1, <2>2
<1>6. \A e \in Call : \/ calls[e] = NoCall
                      \/ CallKept(calls[e], ui.page, last) /\ CallOwes(calls[e], cache, flying, failed, last)
  BY DEF ConsoleInv, CallsHold, CallHolds
<1> HIDE DEF calls, r
<1> QED BY <1>3, <1>5, <1>6, DrawKeeps DEF ConsoleInv

-----------------------------------------------------------------------------
LEMMA ConsoleStarts ==
  ASSUME NEW page \in Pages, ConsoleInit(page)
  PROVE  ConsoleInv
<1>1. /\ server \in [existing : SUBSET Project, role : Roles, clock : {0}] /\ last = <<>> /\ own = <<>>
      /\ ui = [Dropped(None) EXCEPT !.page = page] /\ failed = {} /\ dialog = None /\ call = [c \in Call |-> NoCall]
      /\ cache = IF page \in Outer THEN <<>> ELSE [k \in {<<"projects">>} |-> Read(k, None)]
      /\ flying = [k \in IF page \in Inner THEN Mounted(ui, cache) \ {<<"projects">>} ELSE {} |-> Fetch(ui, cache)]
  BY DEF ConsoleInit
<1>2. DOMAIN last = {} /\ DOMAIN own = {} BY <1>1
<1>3. ServerHolds
  <2>1. server = [existing |-> server.existing, role |-> server.role, clock |-> server.clock] BY <1>1
  <2> QED BY <1>1, <1>2, <2>1 DEF ServerHolds
<1>4. HasFields(ui) /\ ui.page = page /\ dialog = None BY <1>1 DEF Dropped, HasFields
<1>5. CacheHolds(cache)
  <2>1. CASE page \in Outer
    <3>1. DOMAIN cache = {} BY <1>1, <2>1
    <3> QED BY <3>1 DEF CacheHolds
  <2>2. CASE page \notin Outer
    <3> DEFINE k == <<"projects">>
    <3>1. DOMAIN cache = {k} /\ cache[k] = Read(k, None) BY <1>1, <2>2
    <3>2. k[1] \notin ProjectQueries \cup RowQueries BY DEF ProjectQueries, RowQueries
    <3>3. /\ Read(k, None).seen = 0 /\ Read(k, None).role = server.role
          /\ Read(k, None).role = None => Read(k, None).list = {}
      BY <1>2 DEF Read, At
    <3>4. server.role \in Roles BY <1>1
    <3> HIDE DEF k
    <3>5. DataHolds(k, Read(k, None)) BY <3>2, <3>3, <3>4 DEF DataHolds
    <3> QED BY <3>1, <3>5 DEF CacheHolds
  <2> QED BY <2>1, <2>2
<1>6. FlightHolds(flying) BY <1>1, MountedIsRead DEF FlightHolds, Fetch
<1>7. Mounted(ui, cache) \subseteq DOMAIN cache \cup DOMAIN flying
  <2>1. CASE page \in Inner
    <3>1. page \notin Outer BY <2>1 DEF Inner, Outer
    <3> QED BY <1>1, <2>1, <3>1
  <2>2. CASE page \notin Inner BY <1>4, <2>2 DEF Mounted
  <2> QED BY <2>1, <2>2
<1>8. Shows(own, last, cache, flying, failed) BY <1>2 DEF Shows
<1>9. CallsHold(call, ui.page, cache, flying, failed, last) BY <1>1 DEF CallsHold
<1>10. (\A c \in Call : call[c] = NoCall) /\ call = [c \in Call |-> call[c]] BY <1>1
<1> QED BY <1>3, <1>4, <1>5, <1>6, <1>7, <1>8, <1>9, <1>10 DEF ConsoleInv

LEMMA NothingKeeps ==
  ASSUME ConsoleInv, UNCHANGED <<ui, cache, flying, failed, call, serverVars, own>>,
         dialog' = dialog \/ dialog' = None \/ DialogHolds(dialog', ui, cache)
  PROVE  ConsoleInv'
<1>1. UNCHANGED <<ui, cache, flying, failed, call, server, last, own>> BY DEF serverVars
<1>2. ServerHolds' BY <1>1 DEF ConsoleInv, ServerHolds
<1> QED BY <1>1, <1>2 DEF ConsoleInv

LEMMA AskKeeps ==
  ASSUME ConsoleInv, NEW op, Ask(op), UNCHANGED <<serverVars, own>>
  PROVE  ConsoleInv'
<1>1. Enabled(op) /\ op \in Confirmed /\ dialog' = Offer(op) /\ UNCHANGED <<ui, cache, flying, failed, call>> BY DEF Ask
<1> DEFINE a == Offer(op)
<1>2. a.op = op /\ a.project = current /\ a.as = RoleIn(cache) BY <1>1, OfferIsGood
<1>3. a.reloads \in Seq(Queries) /\ Reaches(op, ui.page, a.reloads) /\ Allowed(op, RoleIn(cache)) BY <1>1, OfferIsGood
<1>4. /\ op \in RowOps => /\ ui.opened = current /\ ui.page \in Inner /\ sheet
                          /\ op \in DOMAIN SheetOf(ui.page).acts
      /\ op = "leave" => ui.page = "org" /\ RoleIn(cache) # None
      /\ op \in OfProject => ui.page = "settings"
  BY <1>1, OfferIsGood
<1> HIDE DEF a
<1>5. DialogHolds(a, ui, cache) BY <1>1, <1>2, <1>3, <1>4 DEF DialogHolds, sheet, current
<1> QED BY <1>1, <1>5, NothingKeeps DEF a

(* Whatever the user does stays on the page, or goes to another; no dialog is open. *)
LEMMA MovesStay ==
  ASSUME ConsoleInv, NEW pages, UserMoves(pages)
  PROVE  dialog = None /\ \E u : HasFields(u) /\ Stay(u)
<1>1. HasFields(ui) /\ dialog = None BY DEF ConsoleInv, UserMoves
<1>2. ASSUME NEW page, Goto(page) PROVE \E u : HasFields(u) /\ Stay(u) BY <1>1, <1>2, GoToFits DEF Goto
<1>3. ASSUME NEW page, FollowLink(page) PROVE \E u : HasFields(u) /\ Stay(u)
  <2> DEFINE u == [goTo(page) EXCEPT !.opened = IF page = "events" THEN ui.opened ELSE None]
  <2>1. Stay(u) BY <1>3 DEF FollowLink
  <2>2. HasFields(goTo(page)) BY <1>1, GoToFits
  <2>3. HasFields(u) BY <2>2 DEF HasFields
  <2> QED BY <2>1, <2>3
<1>4. \A v : HasFields([ui EXCEPT !.opened = v]) /\ HasFields([ui EXCEPT !.chosen = v]) BY <1>1 DEF HasFields
<1>5. ASSUME CloseSheet \/ Choose PROVE \E u : HasFields(u) /\ Stay(u) BY <1>4, <1>5 DEF CloseSheet, Choose
<1>6. ASSUME NEW p, OpenRow(p) PROVE \E u : HasFields(u) /\ Stay(u) BY <1>4, <1>6 DEF OpenRow
<1>7. ASSUME NEW p, SelectProject(p) PROVE \E u : HasFields(u) /\ Stay(u) BY <1>1, <1>7, SelectFits DEF SelectProject
<1> QED BY <1>1, <1>2, <1>3, <1>5, <1>6, <1>7 DEF UserMoves

LEMMA UpsetKeeps ==
  ASSUME ConsoleInv, NEW pages, NEW kind, Upset(pages, kind)
  PROVE  ConsoleInv'
<1>1. HasFields(ui) BY DEF ConsoleInv
<1>2. CASE Logout /\ UNCHANGED <<serverVars, own>>
  <2>1. Stay(goTo("login")) /\ dialog = None BY <1>2 DEF Logout
  <2>2. HasFields(goTo("login")) BY <1>1, GoToFits
  <2> QED BY <1>2, <2>1, <2>2, StayKeeps
<1>3. CASE Login /\ UNCHANGED <<serverVars, own>>
  <2>1. CASE renderGoogleButton \/ SignInFails(TRUE) \/ SignInFails(FALSE)
    <3>1. UNCHANGED <<ui, dialog, cache, flying, failed, call>> BY <2>1 DEF renderGoogleButton, SignInFails, shown
    <3> QED BY <1>3, <3>1, NothingKeeps
  <2>2. CASE SignedIn
    <3>1. Stay(goTo("events")) BY <2>2 DEF SignedIn
    <3>2. HasFields(goTo("events")) /\ (goTo("events").page = ui.page => goTo("events").opened = None) BY <1>1, GoToFits
    <3> QED BY <1>3, <3>1, <3>2, StayKeeps
  <2>3. CASE LoginLoads BY <1>3, <2>3, LoadKeeps, DroppedFits DEF LoginLoads
  <2> QED BY <1>3, <2>1, <2>2, <2>3 DEF Login
<1>4. CASE Expire /\ UNCHANGED <<serverVars, own>> BY <1>4, NothingKeeps DEF Expire, shown
<1>5. CASE Unauthorized /\ UNCHANGED <<serverVars, own>> BY <1>5, LoadKeeps, DroppedFits DEF Unauthorized
<1>6. CASE \E page \in pages, row \in Project \cup {None} : Visit(page, row)
  <2>1. PICK page, row : Visit(page, row) BY <1>6
  <2> DEFINE u == [Dropped(ui.stored) EXCEPT !.page = RequireAuth(page), !.opened = IF token = "none" THEN None ELSE row]
  <2>2. Load(u) /\ UNCHANGED <<serverVars, own>> BY <2>1 DEF Visit
  <2>3. HasFields(u) BY DEF Dropped, HasFields
  <2> QED BY <2>2, <2>3, LoadKeeps
<1>7. CASE \E k \in DOMAIN flying : FetchFails(k) BY <1>7, FetchFailsKeeps
<1>8. CASE ChangeRole BY <1>8, ChangeRoleKeeps
<1> QED BY <1>2, <1>3, <1>4, <1>5, <1>6, <1>7, <1>8 DEF Upset

LEMMA ConsoleStepKeeps ==
  ASSUME ConsoleInv, [ConsoleNext(Pages, Operations, Upsets)]_vars
  PROVE  ConsoleInv'
<1>1. CASE \E k \in DOMAIN flying : ServerReads(k) \/ Deliver(k) BY <1>1, ServerReadsKeeps, DeliverKeeps
<1>2. CASE UserMoves(Pages) /\ UNCHANGED <<session, serverVars, own>>
  <2>1. dialog = None /\ \E u : HasFields(u) /\ Stay(u) BY <1>2, MovesStay
  <2>2. UNCHANGED <<serverVars, own>> BY <1>2
  <2> QED BY <2>1, <2>2, StayKeeps
<1>3. CASE \E c \in Call : Answer(c) /\ UNCHANGED <<serverVars, own>> BY <1>3, AnswerKeeps
<1>4. CASE UserActs(Operations) /\ UNCHANGED <<session, serverVars, own>>
  <2>1. UNCHANGED <<serverVars, own>> BY <1>4
  <2>2. ASSUME NEW op, Ask(op) PROVE ConsoleInv' BY <2>1, <2>2, AskKeeps
  <2>3. CASE Dismiss BY <2>1, <2>3, NothingKeeps DEF Dismiss
  <2> QED BY <1>4, <2>2, <2>3, SubmitKeeps, ConfirmKeeps DEF UserActs
<1>5. CASE \E c \in Call : (Forbid(c) \/ Toast(c)) /\ UNCHANGED <<session, serverVars, own>>
  BY <1>5, ForbidKeeps, ToastKeeps
<1>6. CASE \E c \in Call : Execute(c) /\ UNCHANGED <<session, own>> BY <1>6, ExecuteKeeps
<1>7. CASE \E c \in Call : (Reload(c) \/ Finish(c)) /\ UNCHANGED serverVars BY <1>7, ReloadKeeps, FinishKeeps
<1>8. CASE \E kind \in Upsets : Upset(Pages, kind) BY <1>8, UpsetKeeps
<1>9. CASE UNCHANGED vars BY <1>9, NothingKeeps DEF vars, serverVars
<1> QED BY <1>1, <1>2, <1>3, <1>4, <1>5, <1>6, <1>7, <1>8, <1>9 DEF ConsoleNext

LEMMA ConsoleInvHolds == BrowserSpec => []ConsoleInv
<1>1. (\E page \in Pages : ConsoleInit(page)) => ConsoleInv BY ConsoleStarts
<1>2. ConsoleInv /\ [ConsoleNext(Pages, Operations, Upsets)]_vars => ConsoleInv' BY ConsoleStepKeeps
<1> QED BY <1>1, <1>2, PTL DEF BrowserSpec

(* Once an operation is through, the lists and rows it promised to show on the      *)
(* screen it was done on show it, unless they are being read again or could not be: *)
(* those that had data when it was answered, but for the usage, for the sheet of a   *)
(* delivery after a bulk retry, and for one drawn for another project since.         *)
THEOREM ChangesAreShown == BrowserSpec => []OwnChangesShow
<1>1. ConsoleInv => OwnChangesShow
  <2> SUFFICES ASSUME ConsoleInv, NEW k \in Mounted(ui, cache) \cap DOMAIN own, k \notin DOMAIN flying \cup failed
               PROVE  At(own, k) <= IF k \in DOMAIN cache THEN cache[k].seen ELSE 0
    BY DEF OwnChangesShow
  <2>1. k \in DOMAIN cache BY DEF ConsoleInv
  <2>2. own[k] <= cache[k].seen BY <2>1 DEF ConsoleInv, Shows, UpTo
  <2> QED BY <2>1, <2>2 DEF At
<1> QED BY <1>1, ConsoleInvHolds, PTL

(* Nothing that is selected before a dialog is confirmed turns what was asked for     *)
(* on another row, nor, but for a replay and a cancel, on another project.           *)
THEOREM RowsKeepTheirProject == BrowserSpec => []ActsInItsProject
<1>1. ConsoleInv => ActsInItsProject
  <2> SUFFICES ASSUME ConsoleInv, NEW c \in Call, call[c].op \in RowOps \cup OfProject
               PROVE  /\ call[c].op \in RowOps => call[c].row = call[c].asked
                      /\ call[c].project = call[c].asked \/ call[c].op \in {"replay", "cancel"}
    BY DEF ActsInItsProject, OfProject
  <2>1. call[c] # NoCall BY ConsoleAssumption DEF NoCall, OfProject
  <2> QED BY <2>1 DEF ConsoleInv, CallsHold, CallHolds, CallKept, CallFixed, Offers
<1> QED BY <1>1, ConsoleInvHolds, PTL

(* Nothing but the server's refusal turns a call that was sent into a forbidden   *)
(* one.                                                                           *)
LEMMA DrawKeepsSent ==
  ASSUME ConsoleInv, NEW c \in Call, call[c].pc = "sent", NEW u, NEW ch, NEW fl, NEW cl, NEW asked,
         Draw(u, ch, fl, cl, asked), cl[c] = call[c]
  PROVE  call'[c].pc = "sent"
<1> DEFINE r == call[c]
<1>1. \E here, stands, under, owes :
        call'[c] = [r EXCEPT !.here = here, !.stands = stands, !.under = under, !.owes = owes]
  BY DEF Draw
<1>2. Whole(r) BY DEF ConsoleInv, CallsHold, CallHolds, CallKept, CallFixed, NoCall
<1> HIDE DEF r
<1> QED BY <1>1, <1>2 DEF r, Whole

LEMMA OnlyForbidForbids ==
  ASSUME ConsoleInv, [ConsoleNext(Pages, Operations, Upsets)]_vars, NEW c \in Call, call[c].pc = "sent",
         call'[c].pc = "forbidden"
  PROVE  Forbid(c)
<1> DEFINE Goal == Forbid(c)
<1> SUFFICES Goal OBVIOUS
<1> HIDE DEF Goal
<1>1. ASSUME UNCHANGED call PROVE Goal BY <1>1
<1>d. ASSUME NEW u, NEW ch, NEW fl, NEW cl, NEW asked, Draw(u, ch, fl, cl, asked), cl[c] = call[c] PROVE Goal
  BY <1>d, DrawKeepsSent
<1>2. ASSUME NEW u, NEW ch, NEW fl, NEW cl, Show(u, ch, fl, cl), cl[c] = call[c] PROVE Goal BY <1>2, <1>d DEF Show
<1>3. ASSUME NEW u, Stay(u) PROVE Goal BY <1>2, <1>3 DEF Stay
<1>4. ASSUME NEW u, Load(u) PROVE Goal BY <1>4 DEF Load, NoCall
<1>5. call = [e \in Call |-> call[e]] BY DEF ConsoleInv
<1>6. ASSUME NEW k, ServerReads(k) \/ Deliver(k) \/ FetchFails(k) PROVE Goal
  BY <1>1, <1>2, <1>6 DEF ServerReads, Deliver, FetchFails
<1>7. CASE UserMoves(Pages) BY <1>3, <1>7, MovesStay
<1>8. ASSUME NEW d \in Call, Answer(d) PROVE Goal
  <2>1. call[d].pc = "done" /\ d # c BY <1>8 DEF Answer
  <2>2. \A owes : [call EXCEPT ![d].pc = "reloading", ![d].owes = owes][c] = call[c] BY <1>5, <2>1
  <2>3. PICK u, owes : Show(u, cache, flying, [call EXCEPT ![d].pc = "reloading", ![d].owes = owes]) BY <1>8 DEF Answer
  <2> QED BY <1>2, <2>2, <2>3
<1>9. ASSUME NEW d \in Call, Reload(d) PROVE Goal
  <2>1. d # c BY <1>9 DEF Reload, Settled
  <2> DEFINE keys == Matching(d, Head(call[d].reloads))
             calls == [call EXCEPT ![d].reloads = Tail(@), ![d].waits = keys]
  <2>2. Show(ui, cache, Refetch(keys), calls) BY <1>9 DEF Reload
  <2>3. calls[c] = call[c] BY <1>5, <2>1
  <2> QED BY <1>2, <2>2, <2>3
<1>10. ASSUME NEW d \in Call, Finish(d) PROVE Goal
  <2>1. d # c BY <1>10 DEF Finish, Settled
  <2>2. [call EXCEPT ![d] = NoCall][c] = call[c] BY <1>5, <2>1
  <2>3. PICK u, asked : Draw(u, cache, flying, [call EXCEPT ![d] = NoCall], asked) BY <1>10 DEF Finish, Show
  <2> QED BY <1>d, <2>2, <2>3
<1>11. CASE UserActs(Operations)
  <2>1. ASSUME NEW d \in Call, NEW offer, Send(d, offer) PROVE Goal
    <3>1. call[d].pc = "idle" /\ d # c BY <2>1 DEF Send, Idle
    <3>2. call'[c] = call[c] BY <1>5, <2>1, <3>1 DEF Send
    <3> QED BY <3>2
  <2>2. ASSUME NEW op, Ask(op) PROVE Goal BY <1>1, <2>2 DEF Ask
  <2> QED BY <1>1, <1>11, <2>1, <2>2 DEF UserActs, Submit, Confirm, Dismiss
<1>12. ASSUME NEW d \in Call, Forbid(d) PROVE Goal
  <2>1. CASE d = c BY <1>12, <2>1 DEF Goal
  <2>2. CASE d # c
    <3>1. call'[c] = call[c] BY <1>5, <1>12, <2>2 DEF Forbid
    <3> QED BY <3>1
  <2> QED BY <2>1, <2>2
<1>13. ASSUME NEW d \in Call, Toast(d) PROVE Goal
  <2>1. call'[c] = IF d = c THEN NoCall ELSE call[c] BY <1>5, <1>13 DEF Toast
  <2> QED BY <2>1 DEF NoCall
<1>14. ASSUME NEW d \in Call, Execute(d) PROVE Goal
  <2>1. PICK existing, role, made : Takes(d, existing, role, made) BY <1>14 DEF Execute
  <2>2. CASE d = c
    <3>1. call'[c] = [call[c] EXCEPT !.pc = "done", !.wrote = server.clock + 1, !.made = made] BY <1>5, <2>1, <2>2 DEF Takes
    <3>2. CallFixed(call[c]) BY DEF ConsoleInv, CallsHold, CallHolds, CallKept, NoCall
    <3>3. call'[c].pc = "done" BY <3>1, <3>2 DEF CallFixed
    <3> QED BY <3>3
  <2>3. CASE d # c
    <3>1. call'[c] = call[c] BY <1>5, <2>1, <2>3 DEF Takes
    <3> QED BY <3>1
  <2> QED BY <2>2, <2>3
<1>15. ASSUME NEW kind, Upset(Pages, kind) PROVE Goal
  <2>1. CASE Logout BY <1>3, <2>1 DEF Logout
  <2>2. CASE Login BY <1>1, <1>3, <1>4, <2>2 DEF Login, renderGoogleButton, SignedIn, SignInFails, LoginLoads
  <2>3. CASE Expire \/ Unauthorized BY <1>1, <1>4, <2>3 DEF Expire, Unauthorized
  <2>4. CASE \E page \in Pages, row \in Project \cup {None} : Visit(page, row) BY <1>4, <2>4 DEF Visit
  <2>5. CASE ChangeRole BY <1>1, <2>5 DEF ChangeRole
  <2> QED BY <1>6, <1>15, <2>1, <2>2, <2>3, <2>4, <2>5 DEF Upset
<1>16. CASE UNCHANGED vars BY <1>1, <1>16 DEF vars
<1> QED BY <1>6, <1>7, <1>8, <1>9, <1>10, <1>11, <1>12, <1>13, <1>14, <1>15, <1>16 DEF ConsoleNext

(* The server turns down for their role only those whose role has changed since     *)
(* they were offered what they did, except that everybody is offered to make a        *)
(* project; and since the console sent it, but for the dialogs of the settings.       *)
THEOREM OffersAreAllowed == BrowserSpec => OnlyDemotedAreForbidden
<1> DEFINE InSettings == {"rotateSigningSecret", "removeProject", "removeMember"}
           Demoted ==
             \A c \in Call : call[c].pc = "sent" /\ call'[c].pc = "forbidden" =>
                               \/ call[c].op = "createProject"
                               \/ call[c].as # server.role /\ (call[c].knows # server.role \/ call[c].op \in InSettings)
<1>1. ConsoleInv /\ [ConsoleNext(Pages, Operations, Upsets)]_vars => Demoted
  <2> SUFFICES ASSUME ConsoleInv, [ConsoleNext(Pages, Operations, Upsets)]_vars, NEW c \in Call, call[c].pc = "sent",
                      call'[c].pc = "forbidden", call[c].op # "createProject"
               PROVE  call[c].as # server.role /\ (call[c].knows # server.role \/ call[c].op \in InSettings)
    OBVIOUS
  <2> DEFINE r == call[c]
  <2>1. ~ Admitted(c) BY OnlyForbidForbids DEF Forbid
  <2>2. Offers(r) BY DEF ConsoleInv, CallsHold, CallHolds, CallKept, CallFixed, NoCall
  <2>3. /\ r.op # "acceptInvitation"
        /\ server.role = None \/ ~ satisfiesRole(server.role, Required(RouteOf(r.op)))
    BY <2>1 DEF Admitted
  <2>4. server.role \in Roles \cup {None} BY DEF ConsoleInv, ServerHolds
  <2> HIDE DEF InSettings
  <2>5. CASE r.op \in MemberOps
    <3>1. Required(RouteOf(r.op)) = "member" BY <2>5, MembersMay
    <3>2. server.role \in Roles => satisfiesRole(server.role, "member") BY DEF satisfiesRole, RANK, Roles
    <3>3. server.role = None BY <2>3, <2>4, <3>1, <3>2
    <3>4. r.as # None BY <2>2, <2>5 DEF Offers, Allowed, MemberOps, AdminOps
    <3>5. r.knows # None BY <2>2, <2>5 DEF Offers
    <3> QED BY <3>3, <3>4, <3>5
  <2>6. CASE r.op \in AdminOps /\ r.as \in Roles \ {None} /\ isAdmin(r.as)
    <3>1. Required(RouteOf(r.op)) \in {"member", "admin"} BY <2>6, AdminsMay
    <3>2. r.as \in {"admin", "owner"} BY <2>6 DEF isAdmin, Roles
    <3>3. satisfiesRole(r.as, "member") /\ satisfiesRole(r.as, "admin") BY <3>2 DEF satisfiesRole, RANK
    <3>4. r.as # server.role BY <2>3, <2>6, <3>1, <3>3
    <3>5. r.op \notin InSettings => r.op \notin Confirmed BY <2>6 DEF InSettings, AdminOps, Confirmed
    <3>6. r.op \notin InSettings => r.knows = r.as BY <2>2, <3>5 DEF Offers
    <3> QED BY <3>4, <3>6
  <2> QED BY <2>2, <2>3, <2>5, <2>6 DEF Offers, Allowed
<1>2. Demoted => \A c \in Call :
                   call[c].pc = "sent" /\ call'[c].pc = "forbidden" =>
                     \/ call[c].op = "createProject"
                     \/ /\ call[c].as # server.role
                        /\ call[c].knows # server.role \/ call[c].op \in {"rotateSigningSecret", "removeProject", "removeMember"}
  OBVIOUS
<1> HIDE DEF Demoted, InSettings
<1> QED BY <1>1, <1>2, ConsoleInvHolds, PTL DEF BrowserSpec, OnlyDemotedAreForbidden

=============================================================================
