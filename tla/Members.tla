------------------------------ MODULE Members -------------------------------
(* Who belongs to an organization: MemberService and InvitationService.  A     *)
(* user stands for his address, an invitation link for the row it is for: a    *)
(* link that was renewed or canceled is found by nobody.                       *)
EXTENDS Access

CONSTANT MaxInvitations \* bound: invitations ever made

ASSUME MembersAssumption == MaxInvitations \in Nat /\ None \notin [id : Nat, role : Roles, expired : BOOLEAN]

VARIABLES
  invitation, \* invitation[o][u]: the row of the invitation of u to o, or None
  invited     \* invitations made so far

invitations == <<invitation, invited>>
membersVars == <<access, call, invitations>>

Given == {"member", "admin"} \* InvitationRole
NewInvitation(n, r) == [id |-> n, role |-> r, expired |-> FALSE]

(* Invitations are pending from before, also to an organization that has been   *)
(* downgraded since; who owns one has founded it.                               *)
MembersInit ==
  /\ invitation \in [Org -> [User -> {None} \cup {NewInvitation(0, r) : r \in Given}]]
  /\ \A o \in Org : \A u \in Owners(o) : invitation[o][u] = None
  /\ invited = 0

(* changeRole and remove look at the target, then write; a row that is gone by  *)
(* then makes the write throw.                                                  *)
ChangeRole(c, u) ==
  LET o == call[c].org IN
  /\ At(c, "changeRole")
  /\ member[o][u] \notin {None, "owner"}
  /\ \E r \in Given : call' = [call EXCEPT ![c] =
       [pc |-> "updateRole", org |-> o, actor |-> call[c].actor, target |-> u, given |-> r]]
  /\ UNCHANGED <<access, invitations>>

UpdateRole(c) ==
  LET l == call[c] IN
  /\ At(c, "updateRole")
  /\ member' = IF member[l.org][l.target] = None THEN member ELSE [member EXCEPT ![l.org][l.target] = l.given]
  /\ End(c)
  /\ UNCHANGED <<plan, home, locked, invitations>>

MayRemoveAnyone(l, u) == member[l.org][u] # None /\ (u = l.actor \/ l.role # "member")

MayRemove(l, u) ==
  /\ member[l.org][u] \notin {None, "owner"}
  /\ u = l.actor \/ l.role # "member"

Remove(c, u) ==
  LET l == call[c] IN
  /\ At(c, "removeMember")
  /\ MayRemove(l, u)
  /\ call' = [call EXCEPT ![c] = [pc |-> "deleteMember", org |-> l.org, actor |-> l.actor, target |-> u]]
  /\ UNCHANGED <<access, invitations>>

DeleteMember(c) ==
  LET l == call[c] IN
  /\ At(c, "deleteMember")
  /\ member' = [member EXCEPT ![l.org][l.target] = None]
  /\ End(c)
  /\ UNCHANGED <<plan, home, locked, invitations>>

(* A handler that finds nothing to do answers 403, 404 or 409.                  *)
MemberOps == {"changeRole", "removeMember", "cancelInvitation"}
NothingToDo(c) ==
  /\ call[c].pc \in MemberOps
  /\ End(c)
  /\ UNCHANGED <<access, invitations>>

-----------------------------------------------------------------------------
(* invite: a transaction under the lock of the organization's row reads the     *)
(* members and, in another statement, the invitations of other addresses that   *)
(* have not expired; the row of the same address is renewed, expired or not.    *)
(* Mail goes out afterwards.                                                   *)
CountMembers(c, u) ==
  LET l == call[c] IN
  /\ At(c, "invite") /\ CanLock(l.org)
  /\ locked' = [locked EXCEPT ![l.org] = c]
  /\ call' = [call EXCEPT ![c] = [pc |-> "checkSeats", org |-> l.org, actor |-> l.actor, target |-> u,
                                 seats |-> Cardinality(Members(l.org)), joined |-> member[l.org][u] # None]]
  /\ UNCHANGED <<plan, member, home, invitations>>

Pending(o, u) == {w \in User \ {u} : invitation[o][w] # None /\ ~ invitation[o][w].expired}

MayInviteOneMore(l, taken) == ~ l.joined /\ ~ exceedsMemberLimit(plan[l.org], taken)
MayInvite(l, taken) == ~ l.joined /\ ~ exceedsMemberLimit(plan[l.org], taken + 1)

Renewed(row, r) == NewInvitation(IF row = None THEN invited + 1 ELSE row.id, r)

Invite(c) ==
  LET l == call[c] IN
  /\ At(c, "checkSeats")
  /\ locked' = [locked EXCEPT ![l.org] = None]
  /\ IF MayInvite(l, l.seats + Cardinality(Pending(l.org, l.target)))
     THEN \E r \in Given :
            /\ invitation[l.org][l.target] = None => invited < MaxInvitations
            /\ invitation' = [invitation EXCEPT ![l.org][l.target] = Renewed(@, r)]
            /\ invited' = IF invitation[l.org][l.target] = None THEN invited + 1 ELSE invited
     ELSE UNCHANGED invitations
  /\ End(c)
  /\ UNCHANGED <<plan, member, home>>

(* cancel deletes by id and organization, whatever the date.                    *)
DeletesFromAny(l, o) == TRUE
DeletesFrom(l, o) == o = l.org

CancelInvitation(c, o, u) ==
  /\ At(c, "cancelInvitation")
  /\ invitation[o][u] # None /\ DeletesFrom(call[c], o)
  /\ invitation' = [invitation EXCEPT ![o][u] = None]
  /\ End(c)
  /\ UNCHANGED <<access, invited>>

(* accept needs a login only.  It finds the row by the link, checks the date    *)
(* and the address, and hands the row it read to one transaction: delete it by  *)
(* id, which throws if it is gone, and join unless a member.  Neither the plan  *)
(* nor, a second time, the date is looked at.                                   *)
FindByTokenHash(c, o, u) ==
  /\ At(c, "idle")
  /\ invitation[o][u] # None /\ ~ invitation[o][u].expired
  /\ call' = [call EXCEPT ![c] = [pc |-> "acceptInvitation", org |-> o, actor |-> u, read |-> invitation[o][u]]]
  /\ UNCHANGED <<access, invitations>>

WasThere(l) == TRUE
StillThere(l) == invitation[l.org][l.actor] # None /\ invitation[l.org][l.actor].id = l.read.id

JoinsAnew(now, r) == r
Joins(now, r) == IF now = None THEN r ELSE now

AcceptInvitation(c) ==
  LET l == call[c] IN
  /\ At(c, "acceptInvitation")
  /\ IF StillThere(l)
     THEN /\ invitation' = [invitation EXCEPT ![l.org][l.actor] = None]
          /\ member' = [member EXCEPT ![l.org][l.actor] = Joins(@, l.read.role)]
     ELSE UNCHANGED <<invitation, member>>
  /\ End(c)
  /\ UNCHANGED <<plan, home, locked, invited>>

(* A week passes, whatever requests are under way: the row stays, but is no      *)
(* longer found nor counted.                                                   *)
ExpireInvitation(o, u) ==
  /\ invitation[o][u] # None /\ ~ invitation[o][u].expired
  /\ invitation' = [invitation EXCEPT ![o][u].expired = TRUE]
  /\ UNCHANGED <<access, invited, call>>

MembersStep(c) ==
  \/ NothingToDo(c) \/ UpdateRole(c) \/ DeleteMember(c) \/ Invite(c) \/ AcceptInvitation(c)
  \/ \E u \in User : ChangeRole(c, u) \/ Remove(c, u) \/ CountMembers(c, u)
  \/ \E o \in Org, u \in User : CancelInvitation(c, o, u)

-----------------------------------------------------------------------------
(* Whatever requests overlap, an organization keeps exactly one owner: nobody   *)
(* becomes one, and the one it has is neither demoted nor removed.              *)
OneOwner == \A o \in Org : Cardinality(Owners(o)) = 1

(* A request changes members and invitations of no organization but the one it  *)
(* was admitted to, or was invited to, whatever ids it names.                   *)
Tenant(o) == <<member[o], invitation[o]>>
Ends(c) == call[c] # NoCall /\ call'[c] = NoCall
TenantIsolation ==
  [][\A o \in Org : Tenant(o)' # Tenant(o) =>
       \/ \E c \in Request : Ends(c) /\ call[c].org = o
       \/ call' = call]_membersVars

(* Nobody gets in on a link that was canceled or used in the meantime: who      *)
(* joins an organization consumes an invitation of his that is there.           *)
JoinConsumesInvitation ==
  [][\A o \in Org, u \in User : member[o][u] = None /\ member'[o][u] # None =>
       invitation[o][u] # None /\ invitation'[o][u] = None]_membersVars

(* An invitation accepted by somebody who is a member by now, perhaps an admin, *)
(* does not touch his role: only changeRole does.                               *)
OnlyChangeRoleChangesRoles ==
  [][\A o \in Org, u \in User : member[o][u] # member'[o][u] /\ None \notin {member[o][u], member'[o][u]} =>
       \E c \in Request : Ends(c) /\ At(c, "updateRole")]_membersVars

(* A free organization gets nobody beyond those who are in it or invited to it, *)
(* as before a downgrade, when invitations are still out; who is in it besides  *)
(* the owner changes nothing in it, not even through a request admitted before, *)
(* and who was invited can only accept.                                         *)
Seated(o) == {u \in User : member[o][u] # None \/ invitation[o][u] # None}
FreeSeatsNeverGrow ==
  [][\A o \in Org : plan[o] = "free" /\ Tenant(o)' # Tenant(o) =>
       /\ Seated(o)' \subseteq Seated(o)
       /\ \/ \E c \in Request : /\ Ends(c) /\ call[c].org = o
                              /\ (call[c].actor \in Owners(o) \/ At(c, "acceptInvitation"))
          \/ call' = call]_membersVars

=============================================================================
