---------------------------- MODULE SignInProofs ----------------------------
(* Proofs about signing in with Google, for any number of sign-ins at once, of *)
(* any Google accounts under any addresses.                                    *)
EXTENDS SignIn, TLAPS

Found == Email \cup {Nobody}
Profile ==
  [pc : {"bySub", "byEmail", "decide", "issue"}, sub : Sub, email : Email, verified : BOOLEAN,
   user : Found, byEmail : Found]

SignInTyped ==
  /\ users \in SUBSET Email /\ owners \in SUBSET Email
  /\ identity \in [Sub -> Found]
  /\ login \in [Login -> {NoLogin} \cup Profile]
  /\ tokens \in SUBSET (Sub \X Email)

(* What a call has read stays true until it has its token: Google's word, the    *)
(* user an account belongs to, and that the address found is the one asked for. *)
ReadingsHold ==
  \A c \in Login : login[c] \in Profile =>
    /\ login[c].verified => <<login[c].sub, login[c].email>> \in proven
    /\ login[c].user # Nobody => identity[login[c].sub] = login[c].user
    /\ login[c].byEmail \in {Nobody, login[c].email}
    /\ login[c].pc = "issue" => login[c].user # Nobody

SignInInv == SignInTyped /\ ReadingsHold /\ OneUserPerGoogleAccount /\ LinkedByProof /\ NobodyHalfSignedUp

-----------------------------------------------------------------------------
(* decideGoogleLogin links and signs up only what Google vouches for.           *)
LEMMA Decisions ==
  ASSUME NEW l \in Profile
  PROVE  /\ decideGoogleLogin(l) = "login" => l.user # Nobody
         /\ decideGoogleLogin(l) = "link" => l.user = Nobody /\ l.verified /\ l.byEmail # Nobody
         /\ decideGoogleLogin(l) = "signup" => l.user = Nobody /\ l.verified /\ l.byEmail = Nobody
<1>1. l.verified \in BOOLEAN BY DEF Profile
<1> QED BY <1>1 DEF decideGoogleLogin

LEMMA NoLoginIsNoProfile == NoLogin \notin Profile
<1>1. \A l \in Profile : l.pc # "idle" BY DEF Profile
<1> QED BY <1>1 DEF NoLogin

(* A call that is under way carries a profile.                                 *)
LEMMA UnderWay ==
  ASSUME SignInTyped, NEW c \in Login, login[c].pc # "idle"
  PROVE  login[c] \in Profile
BY DEF SignInTyped, NoLogin

(* A Google account that has a user keeps it: the unique index on the identity.  *)
Kept == \A s \in Sub : identity[s] # Nobody => identity'[s] = identity[s]

(* What becomes of an account row: nothing, a link that is proven, or a sign-up. *)
LEMMA DecideWrites ==
  ASSUME SignInInv, NEW c \in Login, Decide(c)
  PROVE  LET l == login[c] IN
         \/ UNCHANGED accounts /\ login' = [login EXCEPT ![c] = NoLogin]
         \/ UNCHANGED accounts /\ l.user # Nobody /\ login' = [login EXCEPT ![c].pc = "issue"]
         \/ /\ identity[l.sub] = Nobody /\ <<l.sub, l.email>> \in proven
            /\ identity' = [identity EXCEPT ![l.sub] = l.email]
            /\ login' = [login EXCEPT ![c].pc = "issue", ![c].user = l.email]
            /\ \/ UNCHANGED <<users, owners>>
               \/ users' = users \cup {l.email} /\ owners' = owners \cup {l.email}
<1> DEFINE l == login[c]
<1>1. l \in Profile BY UnderWay DEF SignInInv, Decide, LoginAt
<1>2. l.verified => <<l.sub, l.email>> \in proven BY <1>1 DEF SignInInv, ReadingsHold
<1>3. l.byEmail \in {Nobody, l.email} BY <1>1 DEF SignInInv, ReadingsHold
<1>4. CASE decideGoogleLogin(l) = "reject" /\ LoginFails(c) BY <1>4 DEF LoginFails
<1>5. CASE decideGoogleLogin(l) = "login" /\ LoginGoto(c, "issue") /\ UNCHANGED accounts
  BY <1>1, <1>5, Decisions DEF LoginGoto
<1>6. CASE decideGoogleLogin(l) = "link" /\ LinkGoogleIdentity(c)
  <2>1. l.verified /\ l.byEmail = l.email BY <1>1, <1>3, <1>6, Decisions
  <2> QED BY <1>2, <1>6, <2>1 DEF LinkGoogleIdentity, CanLink, LoginFails
<1>7. CASE decideGoogleLogin(l) = "signup" /\ SignUpWithGoogle(c)
  <2>1. l.verified BY <1>1, <1>7, Decisions
  <2> QED BY <1>2, <1>7, <2>1 DEF SignUpWithGoogle, CanLink, LoginFails
<1> QED BY <1>4, <1>5, <1>6, <1>7 DEF Decide

(* Every other step writes no account.                                         *)
LEMMA AccountsMove ==
  ASSUME SignInInv, SignInNext
  PROVE  /\ Kept /\ proven \subseteq proven'
         /\ \A s \in Sub : identity'[s] # identity[s] => <<s, identity'[s]>> \in proven
         /\ \A u \in users' \ users : u \in owners' /\ \E s \in Sub : identity'[s] = u
         /\ users \subseteq users' /\ owners \subseteq owners'
         /\ users' \in SUBSET Email /\ owners' \in SUBSET Email /\ identity' \in [Sub -> Found]
<1>0. users \in SUBSET Email /\ owners \in SUBSET Email /\ identity \in [Sub -> Found]
  BY DEF SignInInv, SignInTyped
<1>1. PICK c \in Login : \/ \E s \in Sub, e \in Email, verified \in BOOLEAN : Verify(c, s, e, verified)
                         \/ FindUserIdByGoogleSub(c) \/ FindUserIdByEmail(c) \/ Decide(c) \/ Issue(c)
  BY DEF SignInNext
<1>2. CASE ~ Decide(c)
  <2>1. UNCHANGED accounts BY <1>1, <1>2 DEF Verify, FindUserIdByGoogleSub, FindUserIdByEmail, Issue
  <2>2. proven \subseteq proven' BY <1>1, <1>2 DEF Verify, FindUserIdByGoogleSub, FindUserIdByEmail, Issue
  <2> QED BY <1>0, <2>1, <2>2 DEF accounts, Kept
<1>3. CASE Decide(c)
  <2> DEFINE l == login[c]
  <2>1. l \in Profile BY <1>3, UnderWay DEF SignInInv, Decide, LoginAt
  <2>2. l.sub \in Sub /\ l.email \in Email /\ proven' = proven BY <1>3, <2>1 DEF Profile, Decide
  <2>3. CASE UNCHANGED accounts BY <1>0, <2>2, <2>3 DEF accounts, Kept
  <2>4. CASE /\ identity[l.sub] = Nobody /\ <<l.sub, l.email>> \in proven
             /\ identity' = [identity EXCEPT ![l.sub] = l.email]
             /\ \/ UNCHANGED <<users, owners>>
                \/ users' = users \cup {l.email} /\ owners' = owners \cup {l.email}
    <3>1. identity'[l.sub] = l.email /\ identity' \in [Sub -> Found] BY <1>0, <2>2, <2>4 DEF Found
    <3> QED BY <1>0, <2>2, <2>4, <3>1 DEF Kept
  <2> QED BY <1>3, <2>3, <2>4, DecideWrites
<1> QED BY <1>2, <1>3

-----------------------------------------------------------------------------
(* What the calls have read, after a step.                                     *)
LEMMA LoginsMove ==
  ASSUME SignInInv, SignInNext
  PROVE  login' \in [Login -> {NoLogin} \cup Profile] /\ ReadingsHold'
<1>0. login \in [Login -> {NoLogin} \cup Profile] /\ identity \in [Sub -> Found] /\ users \in SUBSET Email
  BY DEF SignInInv, SignInTyped
<1>1. PICK c \in Login : \/ \E s \in Sub, e \in Email, verified \in BOOLEAN : Verify(c, s, e, verified)
                         \/ FindUserIdByGoogleSub(c) \/ FindUserIdByEmail(c) \/ Decide(c) \/ Issue(c)
  BY DEF SignInNext
<1> DEFINE Holds(l) == l \in Profile =>
             /\ l.verified => <<l.sub, l.email>> \in proven'
             /\ l.user # Nobody => identity'[l.sub] = l.user
             /\ l.byEmail \in {Nobody, l.email}
             /\ l.pc = "issue" => l.user # Nobody
<1>2. SUFFICES \E l \in {NoLogin} \cup Profile : login' = [login EXCEPT ![c] = l] /\ Holds(l)
  <2>1. ASSUME NEW d \in Login PROVE Holds(login[d])
    <3>1. CASE login[d] \in Profile
      <4>1. login[d].sub \in Sub BY <3>1 DEF Profile
      <4> QED BY <3>1, <4>1, AccountsMove DEF SignInInv, ReadingsHold, Kept
    <3> QED BY <3>1
  <2>2. PICK l \in {NoLogin} \cup Profile : login' = [login EXCEPT ![c] = l] /\ Holds(l) BY <1>2
  <2>3. \A d \in Login : Holds(login'[d]) BY <1>0, <2>1, <2>2
  <2>4. login' \in [Login -> {NoLogin} \cup Profile] BY <1>0, <2>2
  <2> QED BY <2>3, <2>4 DEF ReadingsHold
<1>3. Holds(NoLogin) BY NoLoginIsNoProfile
<1>4. ASSUME NEW s \in Sub, NEW e \in Email, NEW verified \in BOOLEAN, Verify(c, s, e, verified)
      PROVE  \E l \in {NoLogin} \cup Profile : login' = [login EXCEPT ![c] = l] /\ Holds(l)
  <2> DEFINE l == [pc |-> "bySub", sub |-> s, email |-> e, verified |-> verified, user |-> Nobody, byEmail |-> Nobody]
  <2>1. l \in Profile BY DEF Profile, Found
  <2>2. Holds(l) BY <1>4 DEF Verify
  <2> QED BY <1>4, <2>1, <2>2 DEF Verify
<1>5. CASE FindUserIdByGoogleSub(c)
  <2> DEFINE l == [login[c] EXCEPT !.pc = "byEmail", !.user = identity[login[c].sub]]
  <2>1. login[c] \in Profile BY <1>5, UnderWay DEF SignInInv, FindUserIdByGoogleSub, LoginAt
  <2>2. l \in Profile /\ identity' = identity /\ proven' = proven
    BY <1>0, <1>5, <2>1 DEF Profile, FindUserIdByGoogleSub, accounts
  <2>3. Holds(l) BY <2>1, <2>2 DEF Profile, SignInInv, ReadingsHold
  <2>4. login' = [login EXCEPT ![c] = l] BY <1>0, <1>5 DEF FindUserIdByGoogleSub
  <2> QED BY <2>2, <2>3, <2>4
<1>6. CASE FindUserIdByEmail(c)
  <2> DEFINE found == IF login[c].email \in users THEN login[c].email ELSE Nobody
             l == [login[c] EXCEPT !.pc = "decide", !.byEmail = found]
  <2>1. login[c] \in Profile BY <1>6, UnderWay DEF SignInInv, FindUserIdByEmail, LoginAt
  <2>2. l \in Profile /\ identity' = identity /\ proven' = proven
    BY <1>0, <1>6, <2>1 DEF Profile, Found, FindUserIdByEmail, accounts
  <2>3. Holds(l) BY <2>1, <2>2 DEF Profile, SignInInv, ReadingsHold
  <2>4. login' = [login EXCEPT ![c] = l] BY <1>0, <1>6 DEF FindUserIdByEmail
  <2> QED BY <2>2, <2>3, <2>4
<1>7. CASE Decide(c)
  <2>1. login[c] \in Profile BY <1>7, UnderWay DEF SignInInv, Decide, LoginAt
  <2>2. proven' = proven BY <1>7 DEF Decide
  <2>3. CASE login' = [login EXCEPT ![c] = NoLogin] BY <1>3, <2>3
  <2>4. CASE UNCHANGED accounts /\ login[c].user # Nobody /\ login' = [login EXCEPT ![c].pc = "issue"]
    <3> DEFINE l == [login[c] EXCEPT !.pc = "issue"]
    <3>1. l \in Profile /\ identity' = identity BY <2>1, <2>4 DEF Profile, accounts
    <3>2. Holds(l) BY <2>1, <2>2, <2>4, <3>1 DEF Profile, SignInInv, ReadingsHold
    <3>3. login' = [login EXCEPT ![c] = l] BY <1>0, <2>4
    <3> QED BY <3>1, <3>2, <3>3
  <2>5. CASE /\ identity' = [identity EXCEPT ![login[c].sub] = login[c].email]
             /\ login' = [login EXCEPT ![c].pc = "issue", ![c].user = login[c].email]
    <3> DEFINE l == [login[c] EXCEPT !.pc = "issue", !.user = login[c].email]
    <3>1. l \in Profile BY <2>1 DEF Profile, Found
    <3>2. identity'[l.sub] = l.email /\ l.user = l.email /\ l.email # Nobody
      BY <1>0, <2>1, <2>5, SignInAssumption DEF Profile
    <3>3. Holds(l) BY <2>1, <2>2, <3>2 DEF Profile, SignInInv, ReadingsHold
    <3>4. login' = [login EXCEPT ![c] = l] BY <1>0, <2>5
    <3> QED BY <3>1, <3>3, <3>4
  <2> QED BY <1>7, <2>3, <2>4, <2>5, DecideWrites
<1>8. CASE Issue(c) BY <1>3, <1>8 DEF Issue
<1> QED BY <1>1, <1>4, <1>5, <1>6, <1>7, <1>8

LEMMA SignInStart == SignInInit => SignInInv
  BY NoLoginIsNoProfile
     DEF SignInInit, SignInInv, SignInTyped, Found, ReadingsHold, OneUserPerGoogleAccount, LinkedByProof,
         NobodyHalfSignedUp

LEMMA SignInStep == SignInInv /\ [SignInNext]_signIn => SignInInv'
<1>1. ASSUME SignInInv, SignInNext PROVE SignInInv'
  <2>1. /\ Kept /\ proven \subseteq proven'
        /\ \A s \in Sub : identity'[s] # identity[s] => <<s, identity'[s]>> \in proven
        /\ \A u \in users' \ users : u \in owners' /\ \E s \in Sub : identity'[s] = u
        /\ users \subseteq users' /\ owners \subseteq owners'
        /\ users' \in SUBSET Email /\ owners' \in SUBSET Email /\ identity' \in [Sub -> Found]
    BY <1>1, AccountsMove
  <2>2. login' \in [Login -> {NoLogin} \cup Profile] /\ ReadingsHold' BY <1>1, LoginsMove
  <2>3. ASSUME NEW t \in tokens' PROVE t \in Sub \X Email /\ identity'[t[1]] = t[2]
    <3>1. CASE t \in tokens
      <4>1. t \in Sub \X Email /\ identity[t[1]] = t[2]
        BY <1>1, <3>1 DEF SignInInv, SignInTyped, OneUserPerGoogleAccount
      <4> QED BY <2>1, <4>1, SignInAssumption DEF Kept
    <3>2. CASE t \notin tokens
      <4>1. PICK c \in Login : Issue(c) /\ t = <<login[c].sub, login[c].user>>
        BY <1>1, <2>3, <3>2
           DEF SignInNext, Verify, FindUserIdByGoogleSub, FindUserIdByEmail, Decide, Issue
      <4>2. login[c] \in Profile BY <1>1, <4>1, UnderWay DEF SignInInv, Issue, LoginAt
      <4>3. login[c].user # Nobody /\ identity[login[c].sub] = login[c].user
        BY <1>1, <4>1, <4>2 DEF SignInInv, ReadingsHold, Issue, LoginAt
      <4>4. login[c].sub \in Sub /\ login[c].user \in Email BY <4>2, <4>3 DEF Profile, Found
      <4> QED BY <2>1, <4>1, <4>3, <4>4 DEF Kept
    <3> QED BY <3>1, <3>2
  <2>4. SignInTyped' /\ OneUserPerGoogleAccount'
    BY <2>1, <2>2, <2>3 DEF SignInTyped, OneUserPerGoogleAccount
  <2>5. LinkedByProof' BY <1>1, <2>1 DEF SignInInv, LinkedByProof
  <2>6. ASSUME NEW u \in users' PROVE u \in owners' /\ \E s \in Sub : identity'[s] = u
    <3>1. CASE u \in users
      <4>1. u \in owners /\ u # Nobody /\ \E s \in Sub : identity[s] = u
        BY <1>1, <3>1, SignInAssumption DEF SignInInv, SignInTyped, NobodyHalfSignedUp
      <4> QED BY <2>1, <4>1 DEF Kept
    <3> QED BY <2>1, <2>6, <3>1
  <2> QED BY <2>2, <2>4, <2>5, <2>6 DEF SignInInv, NobodyHalfSignedUp
<1>2. ASSUME SignInInv, UNCHANGED signIn PROVE SignInInv'
  BY <1>2 DEF SignInInv, signIn, SignInTyped, ReadingsHold, OneUserPerGoogleAccount, LinkedByProof, NobodyHalfSignedUp
<1> QED BY <1>1, <1>2

-----------------------------------------------------------------------------
(* However many first sign-ins of one Google account overlap, under one address *)
(* or several, all its tokens are for one user: loginWithGoogle reads, decides   *)
(* and writes in separate statements, and the unique index settles the race.    *)
THEOREM TokensAreForOneUser == SignInSpec => []OneUserPerGoogleAccount
<1>1. SignInInv => OneUserPerGoogleAccount BY DEF SignInInv
<1> QED BY <1>1, SignInStart, SignInStep, PTL DEF SignInSpec

(* An account belongs only to a Google account that came with its address and   *)
(* Google's word for it, when decideGoogleLogin linked it or signed it up.      *)
THEOREM AccountsAreProven == SignInSpec => []LinkedByProof
<1>1. SignInInv => LinkedByProof BY DEF SignInInv
<1> QED BY <1>1, SignInStart, SignInStep, PTL DEF SignInSpec

(* A sign-up that loses a race leaves no user without an organization or without *)
(* a way in: signUpWithGoogle is one transaction.                              *)
THEOREM SignUpsAreWhole == SignInSpec => []NobodyHalfSignedUp
<1>1. SignInInv => NobodyHalfSignedUp BY DEF SignInInv
<1> QED BY <1>1, SignInStart, SignInStep, PTL DEF SignInSpec

=============================================================================
