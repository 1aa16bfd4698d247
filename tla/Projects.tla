------------------------------ MODULE Projects ------------------------------
(* The projects of an organization and the keys deliveries are signed with:    *)
(* ProjectService and the worker's PrismaDeliveryRepository.signingSecret.     *)
(* A project from before there were keys has none; whoever needs it first      *)
(* makes one.  Names are left out: a unique index refuses a second project of  *)
(* the same name in an organization.                                           *)
EXTENDS Access

CONSTANT MaxSecrets \* bound: keys ever made

ASSUME ProjectsAssumption == MaxSecrets \in Nat

VARIABLES
  secret,  \* secret[p]: the key stored, or 0
  secrets, \* keys made so far
  gone,    \* projects that were deleted; an id is not used again
  legacy, rotated, \* history: projects made without a key, projects whose key was rotated
  used     \* history: <<p, v>>, key v was shown to a customer or signed a request

keys == <<secret, secrets, legacy, rotated, used>>
projects == <<keys, gone>>

ProjectsOf(o) == {p \in Project : home[p] = o}
PROJECT_LIMIT == [free |-> 1, team |-> Cardinality(Project) + 1]

ProjectsInit ==
  /\ legacy = {p \in Project : home[p] # None}
  /\ \A o \in Org : Cardinality(ProjectsOf(o)) <= PROJECT_LIMIT[plan[o]]
  /\ secret = [p \in Project |-> 0] /\ secrets = 0
  /\ gone = {} /\ rotated = {} /\ used = {}

(* create: under the lock of the organization's row, count, check and insert.   *)
CountProjects(c) ==
  LET o == call[c].org IN
  /\ At(c, "createProject") /\ CanLock(o)
  /\ locked' = [locked EXCEPT ![o] = c]
  /\ call' = [call EXCEPT ![c] = [pc |-> "insertProject", org |-> o, count |-> Cardinality(ProjectsOf(o))]]
  /\ UNCHANGED <<plan, member, home, projects>>

NoSecretYet == 0
FirstSecret == secrets + 1

InsertProject(c, p) ==
  LET o == call[c].org IN
  /\ At(c, "insertProject") /\ call[c].count < PROJECT_LIMIT[plan[o]]
  /\ home[p] = None /\ p \notin gone /\ secrets < MaxSecrets
  /\ home' = [home EXCEPT ![p] = o]
  /\ secrets' = secrets + 1 /\ secret' = [secret EXCEPT ![p] = FirstSecret]
  /\ locked' = [locked EXCEPT ![o] = None] /\ End(c)
  /\ UNCHANGED <<plan, member, gone, legacy, rotated, used>>

RefuseProject(c) ==
  LET o == call[c].org IN
  /\ At(c, "insertProject")
  /\ call[c].count >= PROJECT_LIMIT[plan[o]] \/ ProjectsOf(o) # {}
  /\ locked' = [locked EXCEPT ![o] = None] /\ End(c)
  /\ UNCHANGED <<plan, member, home, projects>>

(* remove: the row and, by its foreign keys, everything in it.  Like every      *)
(* handler of a project it answers 404 when the project is gone by then.        *)
InHome(c) == home[call[c].project] = call[c].org

RemoveProject(c) ==
  LET p == call[c].project IN
  /\ At(c, "removeProject")
  /\ IF InHome(c) THEN home' = [home EXCEPT ![p] = None] /\ gone' = gone \cup {p} ELSE UNCHANGED <<home, gone>>
  /\ End(c)
  /\ UNCHANGED <<plan, member, locked, keys>>

-----------------------------------------------------------------------------
(* getSigningSecret reads the key for the customer, signingSecret for a         *)
(* delivery.  Where there is none they make one, in a second statement that     *)
(* does not look again.                                                         *)
Use(p) ==
  /\ used' = used \cup {<<p, secret[p]>>}
  /\ UNCHANGED <<secret, secrets, legacy, rotated>>

MakeSecret(p) ==
  /\ secrets < MaxSecrets
  /\ secrets' = secrets + 1
  /\ secret' = [secret EXCEPT ![p] = secrets + 1]
  /\ used' = used \cup {<<p, secrets + 1>>}
  /\ UNCHANGED legacy

GetSigningSecret(c) ==
  LET p == call[c].project IN
  /\ At(c, "getSigningSecret")
  /\ \/ ~ InHome(c) /\ End(c) /\ UNCHANGED keys
     \/ InHome(c) /\ secret[p] # 0 /\ Use(p) /\ End(c)
     \/ InHome(c) /\ secret[p] = 0 /\ Goto(c, "setSecret") /\ UNCHANGED keys
  /\ UNCHANGED <<access, gone>>

LoadSecret(c, p) ==
  /\ At(c, "idle") /\ home[p] # None
  /\ \/ secret[p] # 0 /\ Use(p) /\ UNCHANGED call
     \/ /\ secret[p] = 0
        /\ call' = [call EXCEPT ![c] = [pc |-> "setSecret", org |-> home[p], project |-> p]]
        /\ UNCHANGED keys
  /\ UNCHANGED <<access, gone>>

SetSecret(c) ==
  /\ At(c, "setSecret")
  /\ IF InHome(c) THEN MakeSecret(call[c].project) /\ UNCHANGED rotated ELSE UNCHANGED keys
  /\ End(c)
  /\ UNCHANGED <<access, gone>>

RotateSigningSecret(c) ==
  LET p == call[c].project IN
  /\ At(c, "rotateSigningSecret")
  /\ IF InHome(c) THEN MakeSecret(p) /\ rotated' = rotated \cup {p} ELSE UNCHANGED keys
  /\ End(c)
  /\ UNCHANGED <<access, gone>>

ProjectsStep(c) ==
  \/ CountProjects(c) \/ RefuseProject(c) \/ RemoveProject(c)
  \/ GetSigningSecret(c) \/ SetSecret(c) \/ RotateSigningSecret(c)
  \/ \E p \in Project : InsertProject(c, p) \/ LoadSecret(c, p)

-----------------------------------------------------------------------------
(* However many are created at once, a free organization has one project.       *)
ProjectsWithinPlan == \A o \in Org : Cardinality(ProjectsOf(o)) <= PROJECT_LIMIT[plan[o]]

(* Until it is rotated, a project created with a key has this one for good:     *)
(* every key its customer was shown or its deliveries were signed with is the   *)
(* one stored, however many asked for it at once.                               *)
CreatedSecretIsKept ==
  \A p \in Project \ (legacy \cup rotated) : \A v \in 0 .. MaxSecrets : <<p, v>> \in used => secret[p] = v

=============================================================================
