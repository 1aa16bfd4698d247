----------------------------- MODULE MCConsole ------------------------------
(* The console for TLC: one scene at a time, the pages somebody goes about on,    *)
(* what is done there and what can go wrong, so that what does not meet is not    *)
(* multiplied.                                                                    *)
EXTENDS Console, FiniteSets

VARIABLES scene, moves

P1 == CHOOSE p \in Project : TRUE

Scene(pages, from, projects, ops, upsets, maxMoves, atOnce) ==
  [pages |-> pages, from |-> from, projects |-> projects, ops |-> ops, upsets |-> upsets, maxMoves |-> maxMoves,
   atOnce |-> atOnce]

Scenes ==
  {Scene({"login", "me", "events"}, "login", {P1}, {}, {"signs in and out", "expiry", "visit"}, 3, 1),
   Scene({"sources"}, "sources", Project, DOMAIN SourceRoutes, {"failure"}, 3, 1),
   Scene({"destinations"}, "destinations", {P1}, DOMAIN DestinationRoutes, {}, 3, 2),
   Scene({"connections"}, "connections", {P1}, DOMAIN ConnectionRoutes, {}, 3, 1),
   Scene({"events", "rejected"}, "events", Project, {"replay"}, {}, 2, 1),
   Scene({"deliveries"}, "deliveries", Project, {"cancel"}, {}, 2, 1),
   Scene({"deliveries"}, "deliveries", {P1}, {"bulkRetry"}, {}, 3, 1),
   Scene({"deliveries", "events"}, "deliveries", {P1}, {"retry"}, {}, 2, 1),
   Scene({"org"}, "org", {P1}, DOMAIN MemberRoutes \cup DOMAIN InvitationRoutes \cup {"updateOrg", "leave"}, {"other role"}, 3, 1),
   Scene({"settings", "usage"}, "settings", {P1}, DOMAIN ProjectRoutes, {"other role"}, 3, 1),
   Scene({"settings"}, "settings", Project, {"removeProject"}, {}, 2, 1),
   Scene({"events"}, "events", {P1}, {"replay", "createProject"}, {}, 2, 2),
   Scene({"deliveries"}, "deliveries", {P1}, {"cancel", "createProject"}, {}, 2, 2),
   Scene({"settings"}, "settings", {P1}, {"updateProject", "rotateSigningSecret", "removeProject"}, {"other role"}, 0, 2),
   Scene({"invitation", "me"}, "invitation", {P1}, {"acceptInvitation"}, {"visit"}, 3, 1)}

ConsoleSpec ==
  /\ scene \in Scenes /\ moves = 0
  /\ ConsoleInit(scene.from) /\ server.existing = scene.projects
  /\ [][/\ ConsoleNext(scene.pages, scene.ops, scene.upsets)
        /\ moves' = IF ui' = ui THEN moves ELSE moves + 1
        /\ moves' <= scene.maxMoves /\ server'.clock <= scene.atOnce
        /\ Cardinality({c \in Call : call'[c] # NoCall}) <= scene.atOnce
        /\ UNCHANGED scene]_<<vars, scene, moves>>
=============================================================================
