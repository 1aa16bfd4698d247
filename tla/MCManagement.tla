---------------------------- MODULE MCManagement ----------------------------
(* Management and signing in for TLC: one scene at a time, a set of routes that *)
(* are called at once, so that what does not meet is not multiplied.  In the   *)
(* scene without routes people sign in.                                        *)
EXTENDS Management, SignIn, TLC

VARIABLE scene

vars == <<managementVars, signIn, scene>>

MemberScene == {"changeRole", "removeMember", "invite", "cancelInvitation"}
ProjectScene == {"createProject", "removeProject", "getSigningSecret", "rotateSigningSecret"}
SourceScene == {"createSource", "updateSource", "removeSource", "createDestination"}
ConnectionScene == {"removeSource", "removeDestination", "createConnection", "pause", "unpause", "removeConnection"}
Alone(o) == Members(o) = Owners(o)

FirstOrg == CHOOSE o \in Org : TRUE
FirstUser == CHOOSE u \in User : TRUE
FirstProject == CHOOSE p \in Project : TRUE
Others == Org \ {FirstOrg}
SecondUser == CHOOSE u \in User \ {FirstUser} : TRUE
NoRow == [u \in User |-> None]
Old == {NewInvitation(0, r) : r \in Given}
Uninvited == invitation[FirstOrg] = NoRow
OneOwnerAlone == Uninvited /\ \A o \in Org : Owners(o) = {FirstUser} /\ Alone(o)
NoEndpoints == (\A s \in Source : source[s] = None) /\ \A d \in Destination : destination[d] = None

Init ==
  /\ invitation \in {[o \in Org |-> IF o = FirstOrg THEN row ELSE NoRow] : row \in [User -> {None} \cup Old]}
  /\ ManagementInit /\ SignInInit
  /\ \A o \in Others : plan[o] = "team"
  /\ \/ scene = {} /\ Existing = {} /\ NoEndpoints /\ OneOwnerAlone /\ plan[FirstOrg] = "free"
     \/ scene = MemberScene /\ Existing = {} /\ NoEndpoints /\ \A o \in Others : Owners(o) = {SecondUser} /\ Alone(o)
     \/ /\ scene = ProjectScene /\ OneOwnerAlone /\ plan[FirstOrg] = "free"
        /\ Existing \subseteq {FirstProject} /\ Existing = ProjectsOf(FirstOrg) /\ NoEndpoints
     \/ /\ scene = SourceScene /\ OneOwnerAlone /\ plan[FirstOrg] = "free"
        /\ Existing = {FirstProject} /\ home[FirstProject] = FirstOrg /\ NoEndpoints
     \/ /\ scene = ConnectionScene /\ OneOwnerAlone /\ plan[FirstOrg] = "team"
        /\ Existing = Project /\ \A p \in Project : home[p] = FirstOrg
        /\ \A s \in Source : There(source[s]) /\ ~ source[s].key
        /\ \A d \in Destination : In(destination[d], FirstProject)
Next ==
  /\ \/ scene # {} /\ ManagementNext(scene) /\ UNCHANGED signIn
     \/ scene = {} /\ SignInNext /\ UNCHANGED managementVars
  /\ UNCHANGED scene

Spec == Init /\ [][Next]_vars

Symmetric == Permutations(Request)
=============================================================================
