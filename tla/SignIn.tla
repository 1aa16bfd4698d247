------------------------------- MODULE SignIn -------------------------------
(* Signing in with Google, several times at once: AuthService.loginWithGoogle  *)
(* looks for the account in two queries, decides, and then links, signs up or  *)
(* just goes on to the token.  An email address is the key of a user: it is    *)
(* unique, and neither it nor a user is ever changed or deleted.               *)
CONSTANTS Login, Sub, Email, Nobody

ASSUME SignInAssumption == Nobody \notin Email

VARIABLES
  users,     \* rows of user
  identity,  \* identity[s]: the user the Google account s belongs to
  owners,    \* users with an organization of their own
  login,     \* login[c]: where the call is, the profile Google vouched for, what was found
  tokens,    \* <<s, u>>: Google account s got a token for user u
  proven     \* history: <<s, e>>, Google account s came with e as its verified address

signIn == <<users, identity, owners, login, tokens, proven>>
accounts == <<users, identity, owners>>

NoLogin == [pc |-> "idle"]

SignInInit ==
  /\ users = {} /\ owners = {} /\ tokens = {} /\ proven = {}
  /\ identity = [s \in Sub |-> Nobody]
  /\ login = [c \in Login |-> NoLogin]

LoginAt(c, pc) == login[c].pc = pc
LoginGoto(c, pc) == login' = [login EXCEPT ![c].pc = pc]
LoginFails(c) == login' = [login EXCEPT ![c] = NoLogin] /\ UNCHANGED accounts

(* verify: what the token says.  A token Google does not vouch for, or without  *)
(* an address, ends in a 401 and is no step.                                    *)
Verify(c, s, e, verified) ==
  /\ LoginAt(c, "idle")
  /\ login' = [login EXCEPT ![c] =
       [pc |-> "bySub", sub |-> s, email |-> e, verified |-> verified, user |-> Nobody, byEmail |-> Nobody]]
  /\ proven' = IF verified THEN proven \cup {<<s, e>>} ELSE proven
  /\ UNCHANGED <<accounts, tokens>>

FindUserIdByGoogleSub(c) ==
  /\ LoginAt(c, "bySub")
  /\ login' = [login EXCEPT ![c].pc = "byEmail", ![c].user = identity[login[c].sub]]
  /\ UNCHANGED <<accounts, tokens, proven>>

LinkFirst(l) ==
  CASE l.user # Nobody -> "login"
    [] l.user = Nobody /\ l.byEmail # Nobody -> "link"
    [] l.user = Nobody /\ l.byEmail = Nobody /\ ~ l.verified -> "reject"
    [] OTHER -> "signup"

decideGoogleLogin(l) ==
  CASE l.user # Nobody -> "login"
    [] l.user = Nobody /\ ~ l.verified -> "reject"
    [] l.user = Nobody /\ l.verified /\ l.byEmail # Nobody -> "link"
    [] OTHER -> "signup"

FindUserIdByEmail(c) ==
  /\ LoginAt(c, "byEmail")
  /\ login' = [login EXCEPT ![c].pc = "decide",
       ![c].byEmail = IF login[c].email \in users THEN login[c].email ELSE Nobody]
  /\ UNCHANGED <<accounts, tokens, proven>>

(* The unique index on the identity rejects a second link of a Google account.  *)
Relink(s) == TRUE
CanLink(s) == identity[s] = Nobody

LinkGoogleIdentity(c) ==
  LET l == login[c] IN
  \/ /\ CanLink(l.sub)
     /\ identity' = [identity EXCEPT ![l.sub] = l.byEmail]
     /\ login' = [login EXCEPT ![c].pc = "issue", ![c].user = l.byEmail]
     /\ UNCHANGED <<users, owners>>
  \/ ~ CanLink(l.sub) /\ LoginFails(c)

SignUpInPieces(c) ==
  LET l == login[c] IN
  IF l.email \in users THEN LoginFails(c)
  ELSE /\ users' = users \cup {l.email}
       /\ IF CanLink(l.sub)
          THEN /\ identity' = [identity EXCEPT ![l.sub] = l.email]
               /\ owners' = owners \cup {l.email}
               /\ login' = [login EXCEPT ![c].pc = "issue", ![c].user = l.email]
          ELSE login' = [login EXCEPT ![c] = NoLogin] /\ UNCHANGED <<identity, owners>>

(* User, identity, organization and membership in one transaction: an address   *)
(* or a Google account that is taken by now undoes all of it.                   *)
SignUpWithGoogle(c) ==
  LET l == login[c] IN
  \/ /\ l.email \notin users /\ CanLink(l.sub)
     /\ users' = users \cup {l.email}
     /\ identity' = [identity EXCEPT ![l.sub] = l.email]
     /\ owners' = owners \cup {l.email}
     /\ login' = [login EXCEPT ![c].pc = "issue", ![c].user = l.email]
  \/ (l.email \in users \/ ~ CanLink(l.sub)) /\ LoginFails(c)

Decide(c) ==
  /\ LoginAt(c, "decide")
  /\ \/ decideGoogleLogin(login[c]) = "reject" /\ LoginFails(c)
     \/ decideGoogleLogin(login[c]) = "login" /\ LoginGoto(c, "issue") /\ UNCHANGED accounts
     \/ decideGoogleLogin(login[c]) = "link" /\ LinkGoogleIdentity(c)
     \/ decideGoogleLogin(login[c]) = "signup" /\ SignUpWithGoogle(c)
  /\ UNCHANGED <<tokens, proven>>

Issue(c) ==
  /\ LoginAt(c, "issue")
  /\ tokens' = tokens \cup {<<login[c].sub, login[c].user>>}
  /\ login' = [login EXCEPT ![c] = NoLogin]
  /\ UNCHANGED <<accounts, proven>>

SignInNext ==
  \E c \in Login :
    \/ \E s \in Sub, e \in Email, verified \in BOOLEAN : Verify(c, s, e, verified)
    \/ FindUserIdByGoogleSub(c) \/ FindUserIdByEmail(c) \/ Decide(c) \/ Issue(c)

SignInSpec == SignInInit /\ [][SignInNext]_signIn

-----------------------------------------------------------------------------
(* Two first sign-ins of one Google account at the same moment, under the same  *)
(* or different addresses: every token the account ever gets is for one user.   *)
OneUserPerGoogleAccount == \A t \in tokens : identity[t[1]] = t[2]

(* An account opens only to a Google account that came with its address, and    *)
(* with Google's word for it, at some time.                                     *)
LinkedByProof == \A s \in Sub : identity[s] # Nobody => <<s, identity[s]>> \in proven

(* A sign-up that loses the race leaves nothing behind: every user can sign in  *)
(* and has an organization.                                                     *)
NobodyHalfSignedUp == \A u \in users : u \in owners /\ \E s \in Sub : identity[s] = u

=============================================================================
