----------------------------- MODULE Endpoints ------------------------------
(* Sources, destinations and the connections between them: SourceService,      *)
(* DestinationService, ConnectionService.  What an update writes into one row, *)
(* whatever is there (names, addresses, slugs, retry rules), is left out.      *)
EXTENDS Access

CONSTANTS Source, Destination,
  Gone,    \* a row that was deleted; its id is not used again
  FreeEndpoints \* ENDPOINT_LIMIT.free, for sources and for destinations

ASSUME EndpointsAssumption ==
  /\ FreeEndpoints \in Nat
  /\ IsFiniteSet(Source) /\ IsFiniteSet(Destination)
  /\ None # Gone
  /\ {None, Gone} \cap ({"running", "paused"} \cup [project : Project] \cup [project : Project, key : BOOLEAN, config : BOOLEAN]) = {}

VARIABLES
  source,      \* source[s]: its project and whether it has a key and a signature config, or None
  destination, \* destination[d]: its project, or None
  connection   \* connection[s, d]: "running" or "paused", or None

endpoints == <<source, destination, connection>>
endpointsVars == <<access, call, endpoints>>

There(row) == row \notin {None, Gone}
In(row, p) == There(row) /\ row.project = p

Sources(p) == {s \in Source : In(source[s], p)}
Destinations(p) == {d \in Destination : In(destination[d], p)}
Count(op, p) == Cardinality(IF op = "createSource" THEN Sources(p) ELSE Destinations(p))
ENDPOINT_LIMIT(o) == IF plan[o] = "free" THEN FreeEndpoints ELSE Cardinality(Source \cup Destination) + 1
Existing == {p \in Project : home[p] # None}

EndpointsInit ==
  /\ source \in [Source -> {None} \cup {[project |-> p, key |-> v, config |-> v] : p \in Existing, v \in BOOLEAN}]
  /\ destination \in [Destination -> {None} \cup {[project |-> p] : p \in Existing}]
  /\ \A p \in Existing : Cardinality(Sources(p)) <= FreeEndpoints /\ Cardinality(Destinations(p)) <= FreeEndpoints
  /\ connection = [k \in Source \X Destination |-> None]

-----------------------------------------------------------------------------
(* Both create calls: lock the organization's row, count, check, insert.        *)
CountEndpoints(c) ==
  LET l == call[c] IN
  /\ l.pc \in {"createSource", "createDestination"} /\ CanLock(l.org)
  /\ locked' = [locked EXCEPT ![l.org] = c]
  /\ call' = [call EXCEPT ![c] = [pc |-> "insertEndpoint", op |-> l.pc, org |-> l.org, project |-> l.project,
                                 count |-> Count(l.pc, l.project)]]
  /\ UNCHANGED <<plan, member, home, endpoints>>

Unlock(c) == locked' = [locked EXCEPT ![call[c].org] = None] /\ UNCHANGED <<plan, member, home>>

InsertEndpoint(c) ==
  LET l == call[c] IN
  /\ At(c, "insertEndpoint") /\ home[l.project] # None /\ l.count < ENDPOINT_LIMIT(l.org)
  /\ \/ /\ l.op = "createSource"
        /\ \E s \in Source, v \in BOOLEAN :
             /\ source[s] = None
             /\ source' = [source EXCEPT ![s] = [project |-> l.project, key |-> v, config |-> v]]
        /\ UNCHANGED destination
     \/ /\ l.op = "createDestination"
        /\ \E d \in Destination :
             /\ destination[d] = None
             /\ destination' = [destination EXCEPT ![d] = [project |-> l.project]]
        /\ UNCHANGED source
  /\ Unlock(c) /\ End(c)
  /\ UNCHANGED connection

RefuseEndpoint(c) ==
  /\ At(c, "insertEndpoint")
  /\ home[call[c].project] = None \/ call[c].count >= ENDPOINT_LIMIT(call[c].org)
  /\ Unlock(c) /\ End(c)
  /\ UNCHANGED endpoints

-----------------------------------------------------------------------------
(* update of a source: a field is left as it is ("keep"), set or cleared.  The  *)
(* request is checked against the config that was read; the CHECK of the table  *)
(* rejects what has become wrong until it is written.                           *)
Patch == {"keep", "set", "clear"}
Patched(has, patch) == IF patch = "keep" THEN has ELSE patch = "set"

assertBothOrNeither(has, k, g) == Patched(has, k) = Patched(has, g)

GetSource(c, s, k, g) ==
  /\ At(c, "updateSource") /\ In(source[s], call[c].project)
  /\ assertBothOrNeither(source[s].config, k, g)
  /\ call' = [call EXCEPT ![c] = [pc |-> "writeSource", source |-> s, key |-> k, config |-> g]]
  /\ UNCHANGED <<access, endpoints>>

NoCheck(row) == TRUE
CheckHolds(row) == row.key = row.config

WriteSource(c) ==
  LET l == call[c]
      new == [source[l.source] EXCEPT !.key = Patched(@, l.key), !.config = Patched(@, l.config)] IN
  /\ At(c, "writeSource")
  /\ source' = IF There(source[l.source]) /\ CheckHolds(new) THEN [source EXCEPT ![l.source] = new] ELSE source
  /\ End(c)
  /\ UNCHANGED <<access, destination, connection>>

(* remove: the row and, by the foreign keys, its connections.                   *)
RemoveSource(c, s) ==
  /\ At(c, "removeSource") /\ In(source[s], call[c].project)
  /\ source' = [source EXCEPT ![s] = Gone]
  /\ connection' = [k \in Source \X Destination |-> IF k[1] = s THEN Gone ELSE connection[k]]
  /\ End(c)
  /\ UNCHANGED <<access, destination>>

RemoveDestination(c, d) ==
  /\ At(c, "removeDestination") /\ In(destination[d], call[c].project)
  /\ destination' = [destination EXCEPT ![d] = Gone]
  /\ connection' = [k \in Source \X Destination |-> IF k[2] = d THEN Gone ELSE connection[k]]
  /\ End(c)
  /\ UNCHANGED <<access, source>>

-----------------------------------------------------------------------------
(* create of a connection: both ends are looked up in the project, then the row *)
(* is inserted.  A pair that is there, or an end that is gone, is rejected.     *)
SourceInProject(p, s, d) == In(source[s], p) /\ There(destination[d])
EndsInProject(p, s, d) == In(source[s], p) /\ In(destination[d], p)

FindEnds(c, s, d) ==
  /\ At(c, "createConnection") /\ EndsInProject(call[c].project, s, d)
  /\ call' = [call EXCEPT ![c] = [pc |-> "connect", source |-> s, destination |-> d]]
  /\ UNCHANGED <<access, endpoints>>

SetConnection(k, row) ==
  /\ connection' = [connection EXCEPT ![k] = row]
  /\ UNCHANGED <<access, source, destination>>

Connect(c) ==
  LET s == call[c].source d == call[c].destination
      possible == There(source[s]) /\ There(destination[d]) /\ connection[s, d] = None IN
  /\ At(c, "connect")
  /\ SetConnection(<<s, d>>, IF possible THEN "running" ELSE connection[s, d])
  /\ End(c)

(* What goes with a project: its sources and destinations, their connections.   *)
EndpointsGone(ps) ==
  /\ source' = [s \in Source |-> IF \E p \in ps : In(source[s], p) THEN Gone ELSE source[s]]
  /\ destination' = [d \in Destination |-> IF \E p \in ps : In(destination[d], p) THEN Gone ELSE destination[d]]
  /\ connection' = [k \in Source \X Destination |->
       IF Gone \in {source'[k[1]], destination'[k[2]]} THEN Gone ELSE connection[k]]

(* pause reads whether the connection is paused and then writes the time, which *)
(* is left out; unpause (what it releases is in DeliveryJobs) and remove write  *)
(* at once.                                                                     *)
Connected(c, k) == There(connection[k]) /\ In(source[k[1]], call[c].project)

FindRunning(c, k) ==
  /\ At(c, "pause") /\ Connected(c, k) /\ connection[k] = "running"
  /\ call' = [call EXCEPT ![c] = [pc |-> "writePause", connection |-> k]]
  /\ UNCHANGED <<access, endpoints>>

WritePause(c) ==
  LET k == call[c].connection IN
  /\ At(c, "writePause")
  /\ SetConnection(k, IF There(connection[k]) THEN "paused" ELSE Gone)
  /\ End(c)

Unpause(c, k) == At(c, "unpause") /\ Connected(c, k) /\ SetConnection(k, "running") /\ End(c)

RemoveConnection(c, k) == At(c, "removeConnection") /\ Connected(c, k) /\ SetConnection(k, Gone) /\ End(c)

(* What is not in the project, or not any more, is a 404.                       *)
EndpointOps == {"updateSource", "removeSource", "removeDestination", "createConnection", "pause", "unpause",
                "removeConnection"}
EndpointNotFound(c) == call[c].pc \in EndpointOps /\ End(c) /\ UNCHANGED <<access, endpoints>>

EndpointsStep(c) ==
  \/ CountEndpoints(c) \/ InsertEndpoint(c) \/ RefuseEndpoint(c) \/ EndpointNotFound(c)
  \/ WriteSource(c) \/ Connect(c) \/ WritePause(c)
  \/ \E s \in Source : RemoveSource(c, s) \/ \E k, g \in Patch : GetSource(c, s, k, g)
  \/ \E d \in Destination : RemoveDestination(c, d) \/ \E s \in Source : FindEnds(c, s, d)
  \/ \E k \in Source \X Destination : FindRunning(c, k) \/ Unpause(c, k) \/ RemoveConnection(c, k)

-----------------------------------------------------------------------------
(* However many are created at once, a project of a free organization has no    *)
(* more sources, and no more destinations, than the plan allows.                *)
EndpointsWithinPlan == \A p \in Project :
  home[p] # None => {Cardinality(Sources(p)), Cardinality(Destinations(p))} \subseteq 0 .. ENDPOINT_LIMIT(home[p])

(* Patches of the key and of the config of a source that cross each other never *)
(* leave it with one of them: webhooks would be accepted, or refused, unchecked. *)
BothOrNeither == \A s \in Source : There(source[s]) => source[s].key = source[s].config

(* A connection always joins a source and a destination that are there, both of *)
(* one project, although it is made in two steps and either may go meanwhile.   *)
JoinsOneProject == \A s \in Source, d \in Destination :
  There(connection[s, d]) => \E p \in Project : s \in Sources(p) /\ d \in Destinations(p)

=============================================================================
