SPECIFICATION Spec
CONSTANTS
  Request = {r1, r2}
  Login = {l1, l2}
  Sub = {g1, g2}
  Email = {e1, e2}
  Nobody = Nobody
  Org = {o1, o2}
  User = {u1, u2}
  Project = {p1, p2}
  Source = {s1, s2}
  Destination = {d1}
  None = None
  Gone = Gone
  MaxInvitations = 1
  MaxSecrets = 3
  FreeEndpoints = 1
SYMMETRY Symmetric
INVARIANTS OneOwner ProjectsWithinPlan CreatedSecretIsKept EndpointsWithinPlan BothOrNeither JoinsOneProject OneUserPerGoogleAccount LinkedByProof NobodyHalfSignedUp
PROPERTIES TenantIsolation JoinConsumesInvitation OnlyChangeRoleChangesRoles FreeSeatsNeverGrow
CHECK_DEADLOCK FALSE
