------------------------------ MODULE Console -------------------------------
(* The console: one browser tab of one member of one organization, with the     *)
(* query cache of TanStack, against the management API.  A project has one row  *)
(* of every kind, which stands for any of its rows; what is read of a list or   *)
(* of a row is which change it last saw.  A request the token of which expires  *)
(* while it is under way, and what other people do besides changing the role of *)
(* the member, are left out.                                                    *)
EXTENDS Screens

CONSTANTS Project, Call,
  MaxChanges   \* bound on what happens at the server

ASSUME ConsoleAssumption == None \notin RowOps \cup {"rotateSigningSecret", "removeProject"}

VARIABLES
  ui,       \* the page, the row in its address, the project that is selected, ...
  dialog,   \* the operation that a dialog asks to confirm, and what was true when it was opened
  cache,    \* cache[k]: the data of the query with key k, once it has any
  flying,   \* flying[k]: its fetch under way
  failed,   \* keys of which the last fetch failed
  call,     \* call[c]: an operation from the click to the end of its onSuccess
  token,    \* in localStorage: "none", "valid" or "expired"
  gate,     \* the login page
  server,   \* the projects there are and the role of the member
  last,     \* last[k]: the change that last touched what k reads
  own       \* own[k]: the last change of this tab that k has to show

vars == <<ui, dialog, cache, flying, failed, call, token, gate, server, last, own>>
shown == <<ui, dialog, cache, flying, failed>>
serverVars == <<server, last>>
session == <<token, gate>>

NoCall == [pc |-> "idle", op |-> None]
At(f, k) == IF k \in DOMAIN f THEN f[k] ELSE 0
With(f, k, v) == [x \in DOMAIN f \cup {k} |-> IF x = k THEN v ELSE f[x]]
Idle(c) == call[c].pc = "idle"
FirstOf(S) == CHOOSE p \in S : TRUE

-----------------------------------------------------------------------------
(* ProjectProvider: the list of projects, and which of them is current.          *)
Listed(ch) == IF <<"projects">> \in DOMAIN ch THEN ch[<<"projects">>].list ELSE {}
RoleIn(ch) == IF <<"projects">> \in DOMAIN ch THEN ch[<<"projects">>].role ELSE None

Current(u, ch) ==
  IF u.selected \in Listed(ch) THEN u.selected ELSE IF Listed(ch) = {} THEN None ELSE FirstOf(Listed(ch))
current == Current(ui, cache)

(* The keys of the queries: every list with its project, every row with both.     *)
KeyOfList(q, u, ch) ==
  IF q \in ProjectQueries THEN <<q, None>>
  ELSE IF q \in RowQueries THEN <<q, Current(u, ch), u.opened>> ELSE <<q>>
Key(q, u, ch) ==
  IF q \in ProjectQueries THEN <<q, Current(u, ch)>>
  ELSE IF q \in RowQueries THEN <<q, Current(u, ch), u.opened>> ELSE <<q>>

ScreenOf(u, ch) == Screen(u.page, RoleIn(ch))
InList(u, ch) ==
  LET k == Key(ScreenOf(u, ch).rows, u, ch) IN k \in DOMAIN ch /\ ch[k].of = u.opened
SheetIn(u, ch) ==
  /\ u.opened # None /\ Current(u, ch) # None /\ DOMAIN SheetOf(u.page).acts # {}
  /\ SheetOf(u.page).byId \/ InList(u, ch)
sheet == SheetIn(ui, cache)

(* The queries some component on the screen observes.                             *)
Mounted(u, ch) ==
  LET s == ScreenOf(u, ch)
      here == {"projects"} \cup s.reads \cup IF SheetIn(u, ch) THEN SheetOf(u.page).reads ELSE {}
      enabled == {q \in here : /\ q \in ProjectQueries => Current(u, ch) # None
                               /\ u.page \in {"org", "usage"} /\ q # "projects" => RoleIn(ch) # None}
  IN IF u.page \in Inner THEN {Key(q, u, ch) : q \in enabled} ELSE {}

Fetch(u, ch) == [answered |-> FALSE, of |-> Current(u, ch)]

(* The rows of a list that keeps its rows are those of the project before until    *)
(* those of the current one are there.                                             *)
RowsShown ==
  LET s == ScreenOf(ui, cache)  k == Key(s.rows, ui, cache) IN
  IF s.rows = None \/ current = None THEN {}
  ELSE IF k \in DOMAIN cache THEN {cache[k].of}
  ELSE IF s.keepsRows THEN {ui.before} \ {None} ELSE {}

Keep(u, ch) ==
  IF u.page = ui.page /\ Current(u, ch) # current /\ ScreenOf(u, ch).keepsRows /\ RowsShown # {}
    THEN [u EXCEPT !.before = FirstOf(RowsShown)] ELSE u

(* Whether the component that offered r is still there: a sheet goes with its row,  *)
(* the settings are mounted anew for another project or organization (their key).   *)
Stands(r, u, ch) ==
  /\ u.page = ui.page
  /\ r.op \in RowOps => SheetIn(u, ch)
  /\ r.op # "createProject" => /\ u.page = "settings" => Current(u, ch) = r.project
                               /\ u.page = "org" => RoleIn(ch) # None

(* What is observed anew is fetched, unless a fetch is under way: staleTime is 0.   *)
(* When the path changes everything is mounted anew.  A dialog goes with its        *)
(* component, and a request under way has the props the component last had.         *)
Draw(u, ch, fl, cl, asked) ==
  LET moved == u.page # ui.page
      before == IF moved THEN {} ELSE Mounted(ui, cache)
      new == (Mounted(u, ch) \ before) \ DOMAIN fl
      stands(c) == cl[c].stands /\ Stands(cl[c], u, ch)
      follows(c) == stands(c) /\ cl[c].pc # "reloading"
  IN /\ ui' = Keep(u, ch)
     /\ dialog' = IF asked # None /\ Stands(asked, u, ch) THEN asked ELSE None
     /\ cache' = ch
     /\ flying' = [k \in DOMAIN fl \cup new |-> IF k \in new THEN Fetch(u, ch) ELSE fl[k]]
     /\ failed' = failed \ DOMAIN flying'
     /\ call' = [c \in Call |-> IF cl[c].pc = "idle" THEN cl[c]
                                ELSE [cl[c] EXCEPT !.here = @ /\ ~ moved, !.stands = stands(c),
                                                   !.under = IF follows(c) THEN Current(u, ch) ELSE @,
                                                   !.owes = IF moved THEN {} ELSE @ \cap Mounted(u, ch)]]

Show(u, ch, fl, cl) == Draw(u, ch, fl, cl, dialog)
Stay(u) == Show(u, cache, flying, call)

(* invalidateQueries: a query on the screen that has data drops the fetch it is   *)
(* in for a new one, a query without data goes on with the one it is in.          *)
RefetchJoined(keys) == [k \in DOMAIN flying \cup keys |-> IF k \in DOMAIN flying THEN flying[k] ELSE Fetch(ui, cache)]
Refetch(keys) ==
  [k \in DOMAIN flying \cup keys |->
     IF k \in keys /\ (k \in DOMAIN cache \/ k \notin DOMAIN flying) THEN Fetch(ui, cache) ELSE flying[k]]

Dropped(stored) ==
  [page |-> "login", selected |-> stored, stored |-> stored, opened |-> None, before |-> None, chosen |-> None]

(* A document loaded anew has no cache and no calls, only what localStorage keeps. *)
Load(u) ==
  /\ ui' = u /\ dialog' = None /\ cache' = <<>> /\ failed' = {}
  /\ flying' = [k \in Mounted(u, <<>>) |-> Fetch(u, <<>>)]
  /\ call' = [c \in Call |-> NoCall]

(* What the server has for a query about project p.  A row of another project is    *)
(* not found.                                                                       *)
Found(k, p) ==
  /\ k[1] \in ProjectQueries \cup RowQueries => p \in server.existing
  /\ k[1] \in RowQueries => k[3] = p
  /\ k[1] = "invitations" => isAdmin(server.role)

Read(k, p) ==
  [seen |-> At(last, k), of |-> p, role |-> server.role,
   list |-> IF k = <<"projects">> /\ server.role # None THEN server.existing ELSE {}]

(* Before anybody signed in; and on a page, the list of projects just read.         *)
ConsoleInit(page) ==
  /\ server \in [existing : SUBSET Project, role : Roles, clock : {0}]
  /\ last = <<>> /\ own = <<>>
  /\ ui = [Dropped(None) EXCEPT !.page = page]
  /\ cache = IF page \in Outer THEN <<>> ELSE [k \in {<<"projects">>} |-> Read(k, None)]
  /\ flying = [k \in IF page \in Inner THEN Mounted(ui, cache) \ {<<"projects">>} ELSE {} |-> Fetch(ui, cache)]
  /\ failed = {} /\ dialog = None
  /\ call = [c \in Call |-> NoCall]
  /\ token = IF page = "login" THEN "none" ELSE "valid"
  /\ gate = [busy |-> FALSE, alert |-> FALSE, reloading |-> FALSE]

-----------------------------------------------------------------------------
(* A fetch is answered for the project it asked for, and the answer comes later.    *)
ServerReads(k) ==
  /\ k \in DOMAIN flying /\ ~ flying[k].answered /\ token # "expired"
  /\ Found(k, flying[k].of)
  /\ flying' = [flying EXCEPT ![k] = [answered |-> TRUE, of |-> flying[k].of, data |-> Read(k, flying[k].of)]]
  /\ UNCHANGED <<ui, dialog, cache, failed, call, session, serverVars, own>>

Deliver(k) ==
  /\ k \in DOMAIN flying /\ flying[k].answered
  /\ Show(ui, With(cache, k, flying[k].data), Restrict(flying, DOMAIN flying \ {k}), call)
  /\ UNCHANGED <<session, serverVars, own>>

FetchFails(k) ==
  /\ k \in DOMAIN flying
  /\ flying' = Restrict(flying, DOMAIN flying \ {k})
  /\ failed' = failed \cup {k}
  /\ UNCHANGED <<ui, dialog, cache, call, session, serverVars, own>>

-----------------------------------------------------------------------------
(* Going about the console.  An open sheet is modal, and so is a dialog.            *)
goTo(page) ==
  IF page = ui.page THEN [ui EXCEPT !.opened = None]
  ELSE [ui EXCEPT !.page = page, !.selected = ui.stored, !.opened = None, !.before = None, !.chosen = None]

Goto(page) == ui.page \in Inner /\ page # ui.page /\ ~ sheet /\ Stay(goTo(page))

FollowLink(page) ==
  /\ sheet /\ {ui.page, page} = {"events", "deliveries"}
  /\ Key(IF page = "events" THEN "delivery" ELSE "event", ui, cache) \in DOMAIN cache
  /\ Stay([goTo(page) EXCEPT !.opened = IF page = "events" THEN ui.opened ELSE None])

OpenRow(p) == ~ sheet /\ p \in RowsShown /\ p # ui.opened /\ Stay([ui EXCEPT !.opened = p])

CloseSheet == sheet /\ Stay([ui EXCEPT !.opened = None])

select(p, here) == [ui EXCEPT !.stored = p, !.selected = IF here THEN p ELSE @]

SelectProject(p) ==
  ui.page \in Inner /\ ~ sheet /\ p \in Listed(cache) /\ p # current /\ Stay(select(p, TRUE))

(* An end chosen in a dialog stays chosen when the dialog is closed.               *)
Choose ==
  /\ ui.page \in {"connections", "deliveries"} /\ ~ sheet /\ current # None
  /\ ui.chosen # current /\ Key("destinations", ui, cache) \in DOMAIN cache
  /\ Stay([ui EXCEPT !.chosen = cache[Key("destinations", ui, cache)].of])

(* An address typed in or from a mail: the document is loaded, RequireAuth looks   *)
(* for a token.                                                                    *)
RequireAuth(page) == IF token = "none" THEN "login" ELSE page

Visit(page, row) ==
  /\ Load([Dropped(ui.stored) EXCEPT !.page = RequireAuth(page), !.opened = IF token = "none" THEN None ELSE row])
  /\ gate' = [gate EXCEPT !.busy = FALSE, !.alert = FALSE, !.reloading = FALSE]
  /\ UNCHANGED <<token, serverVars, own>>

Logout == ui.page \in Inner /\ ~ sheet /\ dialog = None /\ token' = "none" /\ Stay(goTo("login")) /\ UNCHANGED gate

-----------------------------------------------------------------------------
(* LoginPage.  A refusal is a 401, and of a 401 the client takes care before the   *)
(* page does: it drops the token and has the login page loaded.                    *)
renderGoogleButton ==
  /\ ui.page = "login" /\ token = "none" /\ ~ gate.busy /\ ~ gate.reloading
  /\ gate' = [gate EXCEPT !.busy = TRUE, !.alert = FALSE]
  /\ UNCHANGED <<shown, call, token>>

SignedIn ==
  /\ gate.busy
  /\ gate' = [gate EXCEPT !.busy = FALSE]
  /\ token' = "valid"
  /\ Stay(goTo("events"))

SignInFails(refused) ==
  /\ gate.busy
  /\ gate' = [gate EXCEPT !.busy = FALSE, !.alert = TRUE, !.reloading = refused]
  /\ UNCHANGED <<shown, call, token>>

LoginLoads ==
  /\ gate.reloading
  /\ gate' = [gate EXCEPT !.alert = FALSE, !.reloading = FALSE]
  /\ Load(Dropped(ui.stored))
  /\ UNCHANGED token

Login == renderGoogleButton \/ SignedIn \/ SignInFails(TRUE) \/ SignInFails(FALSE) \/ LoginLoads

(* Any other request with a token that has expired.                                *)
Expire == token = "valid" /\ token' = "expired" /\ UNCHANGED <<shown, call, gate>>

Unauthorized ==
  /\ token = "expired"
  /\ DOMAIN flying # {} \/ \E c \in Call : call[c].pc = "sent"
  /\ token' = "none"
  /\ Load(Dropped(ui.stored))
  /\ UNCHANGED gate

-----------------------------------------------------------------------------
(* Operations.  What is offered, and when its button works.                        *)
ActsNow ==
  IF ui.page = "invitation" THEN InvitationAcceptPage
  ELSE IF ui.page \notin Inner THEN <<>>
  ELSE IF sheet THEN SheetOf(ui.page).acts
  ELSE LET acts == ScreenOf(ui, cache).acts IN
       [op \in DOMAIN AppShell \cup DOMAIN acts |-> IF op \in DOMAIN AppShell THEN AppShell[op] ELSE acts[op]]

Pending(op) == \E c \in Call : call[c].op = op /\ call[c].stands

(* Operations that a dialog asks to confirm, and those the button of which works    *)
(* while an earlier one is under way.                                               *)
Confirmed == {"replay", "cancel", "rotateSlug", "removeSource", "removeDestination", "removeConnection",
              "rotateSigningSecret", "removeProject", "removeMember", "leave"}
AnyTime == {"removeSource", "removeDestination", "removeConnection", "removeProject", "changeRole", "removeMember", "leave"}

(* Whether the button works that sends op or opens its dialog.                      *)
Enabled(op) ==
  /\ op \in DOMAIN ActsNow /\ dialog = None
  /\ op \in AnyTime \/ ~ Pending(op)
  /\ op = "replay" => Key("event", ui, cache) \in DOMAIN cache
  /\ op \in {"retry", "cancel"} => Key("delivery", ui, cache) \in DOMAIN cache
  /\ op = "createConnection" => ui.chosen # None
  /\ op # "acceptInvitation" => RoleIn(cache) # None
  /\ op # "createProject" /\ ui.page \notin {"org", "invitation"} => current # None

Offer(op) == [op |-> op, project |-> current, as |-> RoleIn(cache), reloads |-> ActsNow[op]]

(* A request goes out with the project that is current and the row that is open at  *)
(* the click that sends it.                                                         *)
Send(c, offer) ==
  /\ Idle(c) /\ c = CHOOSE d \in Call : Idle(d)
  /\ call' = [call EXCEPT ![c] =
       [pc |-> "sent", op |-> offer.op, page |-> ui.page, project |-> current, asked |-> offer.project, as |-> offer.as,
        knows |-> RoleIn(cache),
        row |-> IF offer.op \in RowOps THEN ui.opened
                ELSE IF offer.op \in {"createConnection", "bulkRetry"} THEN ui.chosen ELSE None,
        reloads |-> offer.reloads, here |-> TRUE, stands |-> TRUE, under |-> current, owes |-> {}, waits |-> {}, wrote |-> 0,
        made |-> None]]
  /\ dialog' = None
  /\ UNCHANGED <<ui, cache, flying, failed>>

Submit(c, op) == op \notin Confirmed /\ Enabled(op) /\ Send(c, Offer(op))

(* setConfirm: the button opens a dialog; there, confirming looks at nothing again.  *)
Ask(op) == op \in Confirmed /\ Enabled(op) /\ dialog' = Offer(op) /\ UNCHANGED <<ui, cache, flying, failed, call>>
Dismiss == dialog # None /\ dialog' = None /\ UNCHANGED <<ui, cache, flying, failed, call>>
Confirm(c) == dialog # None /\ Send(c, dialog)

(* The server.  What a route asks for is looked up when the request comes in; a    *)
(* call can always be refused for another reason, or get lost.                     *)
RouteOf(op) == IF op = "leave" THEN "removeMember" ELSE op
Admitted(c) ==
  call[c].op # "acceptInvitation" =>
    server.role # None /\ satisfiesRole(server.role, Required(RouteOf(call[c].op)))

KeysTouched(c) ==
  {<<q, call[c].project>> : q \in Touched(call[c].op) \cap ProjectQueries}
    \cup {<<q, call[c].project, call[c].project>> : q \in Touched(call[c].op) \cap RowQueries}
    \cup {<<q>> : q \in Touched(call[c].op) \ (ProjectQueries \cup RowQueries)}

Changed(keys) == [k \in DOMAIN last \cup keys |-> IF k \in keys THEN server.clock + 1 ELSE last[k]]

Takes(c, existing, role, made) ==
  /\ call[c].pc = "sent" /\ token # "expired" /\ server.clock < MaxChanges /\ Admitted(c)
  /\ server' = [existing |-> existing, role |-> role, clock |-> server.clock + 1]
  /\ last' = Changed(KeysTouched(c))
  /\ call' = [call EXCEPT ![c].pc = "done", ![c].wrote = server.clock + 1, ![c].made = made]
  /\ UNCHANGED shown

Execute(c) ==
  \/ /\ call[c].op = "createProject"
     /\ \E p \in Project \ server.existing : Takes(c, server.existing \cup {p}, server.role, p)
  \/ /\ call[c].op = "removeProject" /\ call[c].project \in server.existing
     /\ Takes(c, server.existing \ {call[c].project}, server.role, None)
  \/ /\ call[c].op = "leave" /\ server.role # "owner"
     /\ Takes(c, server.existing, None, None)
  \/ /\ call[c].op = "acceptInvitation"
     /\ Takes(c, server.existing, IF server.role = None THEN "member" ELSE server.role, None)
  \/ /\ call[c].op \in RowOps \cup {"createConnection"}
     /\ call[c].row = call[c].project /\ call[c].project \in server.existing
     /\ Takes(c, server.existing, server.role, None)
  \/ /\ call[c].op \notin RowOps \cup {"createProject", "removeProject", "leave", "acceptInvitation", "createConnection"}
     /\ Takes(c, server.existing, server.role, None)

Forbid(c) ==
  /\ call[c].pc = "sent" /\ token # "expired" /\ ~ Admitted(c)
  /\ call' = [call EXCEPT ![c].pc = "forbidden"]
  /\ UNCHANGED shown

Toast(c) ==
  /\ call[c].pc \in {"sent", "forbidden"}
  /\ call' = [call EXCEPT ![c] = NoCall]
  /\ UNCHANGED shown

(* Somebody gives the member another role.                                         *)
ChangeRole ==
  /\ server.role \in {"member", "admin"} /\ server.clock < MaxChanges
  /\ server' = [server EXCEPT !.role = IF @ = "member" THEN "admin" ELSE "member", !.clock = @ + 1]
  /\ last' = Changed({<<"projects">>, <<"members">>})
  /\ UNCHANGED <<shown, call, session, own>>

-----------------------------------------------------------------------------
(* onSuccess, which runs although the page may be gone: it closes the sheet, has   *)
(* the queries read again one after the other, and goes on from there.  What        *)
(* changes the address takes the user back to the page it was on.                  *)
BackTo(c) == goTo(RequireAuth(call[c].page))

Removes == {"removeSource", "removeDestination", "removeConnection"}

(* What c promises the screen it was done on to show: what it changed of what is    *)
(* there.  Not a list or row that is still in its first fetch, which is not begun   *)
(* again; not the usage, nor the sheet of a delivery after a bulk retry, which are  *)
(* not read again; nor the sheet of a delivery that since was drawn for another     *)
(* project, which is what is read again.                                            *)
Promised(c) ==
  {k \in Mounted(ui, cache) \cap KeysTouched(c) :
     /\ call[c].here /\ k \in DOMAIN cache /\ k # <<"usage">>
     /\ k[1] = "delivery" => call[c].op # "bulkRetry" /\ call[c].under = call[c].project}

Answer(c) ==
  /\ call[c].pc = "done"
  /\ LET calls == [call EXCEPT ![c].pc = "reloading", ![c].owes = Promised(c)]
         other == Listed(cache) \ {call[c].project}
     IN CASE call[c].op \in Removes -> Show(BackTo(c), cache, flying, calls) /\ UNCHANGED session
          [] call[c].op = "removeProject" /\ other # {} ->
               Show(select(FirstOf(other), call[c].here), cache, flying, calls) /\ UNCHANGED session
          [] call[c].op = "createConnection" /\ call[c].here ->
               Show([ui EXCEPT !.chosen = None], cache, flying, calls) /\ UNCHANGED session
          [] call[c].op = "leave" -> Show(goTo("login"), cache, flying, calls) /\ token' = "none" /\ UNCHANGED gate
          [] OTHER -> Show(ui, cache, flying, calls) /\ UNCHANGED session

Settled(c) == call[c].pc = "reloading" /\ call[c].waits \cap DOMAIN flying = {}

Matching(c, q) ==
  {k \in Mounted(ui, cache) : k[1] = q /\ (q \in RowQueries => k = <<q, call[c].under, call[c].row>>)}

Reload(c) ==
  /\ Settled(c) /\ call[c].reloads # <<>>
  /\ LET keys == Matching(c, Head(call[c].reloads)) IN
     Show(ui, cache, Refetch(keys), [call EXCEPT ![c].reloads = Tail(@), ![c].waits = keys])
  /\ UNCHANGED <<session, own>>

Finish(c) ==
  /\ Settled(c) /\ call[c].reloads = <<>>
  /\ own' = [k \in DOMAIN own \cup call[c].owes |-> IF k \in call[c].owes /\ At(own, k) < call[c].wrote THEN call[c].wrote ELSE own[k]]
  /\ LET calls == [call EXCEPT ![c] = NoCall] IN
     CASE call[c].op = "createProject" -> Show(select(call[c].made, call[c].here), cache, flying, calls)
       [] call[c].op = "createSource" -> Draw([BackTo(c) EXCEPT !.opened = call[c].project], cache, flying, calls, None)
       [] call[c].op = "removeProject" -> Show(goTo(RequireAuth("events")), cache, flying, calls)
       [] OTHER -> Show(ui, cache, flying, calls)
  /\ UNCHANGED session

-----------------------------------------------------------------------------
(* What can happen with these pages, operations and upsets.                        *)
UserMoves(pages) ==
  /\ dialog = None
  /\ \/ \E page \in pages : Goto(page) \/ FollowLink(page)
     \/ CloseSheet \/ Choose
     \/ \E p \in Project : OpenRow(p) \/ SelectProject(p)

UserActs(ops) ==
  \/ \E op \in ops : Ask(op) \/ \E c \in Call : Submit(c, op)
  \/ Dismiss \/ \E c \in Call : Confirm(c)

Upset(pages, kind) ==
  \/ kind = "signs in and out" /\ (Logout \/ Login) /\ UNCHANGED <<serverVars, own>>
  \/ kind = "expiry" /\ (Expire \/ Unauthorized) /\ UNCHANGED <<serverVars, own>>
  \/ kind = "visit" /\ \E page \in pages, row \in Project \cup {None} : Visit(page, row)
  \/ kind = "failure" /\ \E k \in DOMAIN flying : FetchFails(k)
  \/ kind = "other role" /\ ChangeRole

ConsoleNext(pages, ops, upsets) ==
  \/ \E k \in DOMAIN flying : ServerReads(k) \/ Deliver(k)
  \/ UserMoves(pages) /\ UNCHANGED <<session, serverVars, own>>
  \/ \E c \in Call : Answer(c) /\ UNCHANGED <<serverVars, own>>
  \/ UserActs(ops) /\ UNCHANGED <<session, serverVars, own>>
  \/ \E c \in Call : (Forbid(c) \/ Toast(c)) /\ UNCHANGED <<session, serverVars, own>>
  \/ \E c \in Call : \/ Execute(c) /\ UNCHANGED <<session, own>>
                     \/ (Reload(c) \/ Finish(c)) /\ UNCHANGED serverVars
  \/ \E kind \in upsets : Upset(pages, kind)

(* All of it at once.                                                              *)
Pages == Inner \cup Outer
Operations == UNION {DOMAIN r : r \in Routes} \cup {"leave", "acceptInvitation"}
Upsets == {"signs in and out", "expiry", "visit", "failure", "other role"}

BrowserSpec == (\E page \in Pages : ConsoleInit(page)) /\ [][ConsoleNext(Pages, Operations, Upsets)]_vars

-----------------------------------------------------------------------------
(* Once an operation is through, the lists and rows on the screen that it promised *)
(* to show it do, also when they were being read again while it was under way:     *)
(* what is left on the screen is never older than it, unless it is being read      *)
(* again or could not be.  What is not promised is said at Promised.               *)
OwnChangesShow ==
  \A k \in Mounted(ui, cache) \cap DOMAIN own :
    k \notin DOMAIN flying \cup failed => At(own, k) <= IF k \in DOMAIN cache THEN cache[k].seen ELSE 0

(* What is done to a row, or to a project in its settings, is done to a row of the *)
(* project, or to the project, that was shown when its button was clicked, and is  *)
(* sent under it, whatever is selected before it is confirmed.  Only the dialogs    *)
(* of events and deliveries outlive a change of project: a replay or a cancel may   *)
(* go out under another project, where the server does not find the row.            *)
ActsInItsProject ==
  \A c \in Call : call[c].op \in RowOps \cup {"rotateSigningSecret", "removeProject"} =>
    /\ call[c].op \in RowOps => call[c].row = call[c].asked
    /\ call[c].project = call[c].asked \/ call[c].op \in {"replay", "cancel"}

(* The server turns down for their role only those whose role has changed since    *)
(* the console offered them what they did, except that everybody is offered to      *)
(* make a project.  And the console still went by the old role when it was sent,    *)
(* but for the dialogs of the settings, which stay open when the role is read anew. *)
OnlyDemotedAreForbidden ==
  [][\A c \in Call :
       call[c].pc = "sent" /\ call'[c].pc = "forbidden" =>
         \/ call[c].op = "createProject"
         \/ /\ call[c].as # server.role
            /\ call[c].knows # server.role \/ call[c].op \in {"rotateSigningSecret", "removeProject", "removeMember"}]_vars
=============================================================================
