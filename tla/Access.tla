------------------------------- MODULE Access -------------------------------
(* Requests to the management API: AuthGuard that admits a request, and what    *)
(* the handlers of all modules share, the members of an organization and the   *)
(* lock of its row.  Every await of a request ends a step.                      *)
EXTENDS Roles, Integers, FiniteSets

CONSTANTS Request, Org, User, Project, None

ASSUME AccessAssumption ==
  /\ None \notin Request \cup Org \cup Project \cup Roles
  /\ IsFiniteSet(User) /\ IsFiniteSet(Project)

VARIABLES
  plan,    \* plan[o]; nothing in the backend changes it
  member,  \* member[o][u]: the role of u in o, or None
  home,    \* home[p]: the organization project p is in, or None: not yet made, or deleted
  locked,  \* locked[o]: the request that holds the row lock of o, or None
  call     \* call[c]: the request's progress, its actor and what it has read

access == <<plan, member, home, locked>>

-----------------------------------------------------------------------------
NoCall == [pc |-> "idle"]
At(c, pc) == call[c].pc = pc
Goto(c, pc) == call' = [call EXCEPT ![c].pc = pc]
End(c) == call' = [call EXCEPT ![c] = NoCall]

Members(o) == {u \in User : member[o][u] # None}
Owners(o) == {u \in User : member[o][u] = "owner"}
exceedsMemberLimit(p, n) == p = "free" /\ n > 1

AccessInit ==
  /\ plan \in [Org -> {"free", "team"}]
  /\ member \in [Org -> [User -> Roles \cup {None}]]
  /\ \A o \in Org : Cardinality(Owners(o)) = 1
  /\ locked = [o \in Org |-> None]
  /\ call = [c \in Request |-> NoCall]

(* AuthGuard.canActivate: the membership is read once, the handler works with   *)
(* the role that was read; whether the project of the path is one of the        *)
(* organization is asked afterwards.                                            *)
MayEnter(o, u, op) ==
  /\ member[o][u] # None
  /\ member[o][u] = "owner" \/ ~ exceedsMemberLimit(plan[o], Cardinality(Members(o)))
  /\ satisfiesRole(member[o][u], Required(op))

Admit(c, o, u, op, p) ==
  /\ At(c, "idle")
  /\ MayEnter(o, u, op)
  /\ call' = [call EXCEPT ![c] = [pc |-> IF p = None THEN op ELSE "projectInOrg",
                                 op |-> op, org |-> o, actor |-> u, role |-> member[o][u], project |-> p]]
  /\ UNCHANGED access

ProjectInOrg(c) ==
  /\ At(c, "projectInOrg")
  /\ IF home[call[c].project] = call[c].org THEN Goto(c, call[c].op) ELSE End(c)
  /\ UNCHANGED access

(* The lock that orders what counts before it adds: FOR UPDATE on the row of    *)
(* the organization, until the transaction ends.                                *)
CanLockTaken(o) == TRUE
CanLock(o) == locked[o] = None

=============================================================================
