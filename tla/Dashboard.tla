----------------------------- MODULE Dashboard -----------------------------
(***************************************************************************)
(* The dashboard's script (internal/web/static/app.js) in a browser, with  *)
(* the web server's routes (internal/web/server.go) and their sessions.    *)
(* Every async function of the script is a task that waits for one request *)
(* at a time; the code between two awaits runs at once.  Requests are      *)
(* served in any order, and their replies come in any order or get lost.   *)
(* The browser sends the cookie it has when a request starts and stores    *)
(* the one of a reply when its task goes on.                               *)
(*                                                                         *)
(* Every save, and every switch of the mode, stores something new: of a    *)
(* configuration in a reply or in the forms it matters only whether it is  *)
(* the one in the store.  The page belongs to one user, who alone makes    *)
(* changes.                                                                *)
(***************************************************************************)
EXTENDS Sessions, FiniteSets

VARIABLES
  initialized, \* Config.Initialized(): there is a password
  kind,    \* per slot: the task's request, "none" if there is no task
  got,     \* per slot: what its reply holds: a configuration, "stored" or
           \* "older"; at a bootstrap the form to show; else "nothing"
  jar,     \* the session cookie in the browser
  view,    \* the view shown
  form,    \* the form of the auth view that is not hidden
  current, \* the forms of the app view show what is stored
  timer,   \* state.statusTimer is set
  unsure,  \* history: a save has overlapped with another one or with a load, or
           \* the last one has failed
  out,     \* history: logged out, and no login submitted since
  quit     \* history: the logout button was pressed since the app view came up

tasks   == <<kind, got>>
page    == <<jar, view, form, current, timer>>
history == <<unsure, out, quit>>
dashboard == <<initialized, tasks, page, history>>
allVars   == <<vars, dashboard>>

\* Tasks that store, whose reply fills the forms, that may log in, that need a
\* session.
Stores == {"save", "mode"}
Fills  == {"load"} \cup Stores
Logins == {"setup", "login", "load"}
Authed == {"load", "refresh", "save", "mode", "logout"}

\* The request r sends next, with the cookie c; a task ends.
Sends(r, k, c) == Arrives(r, c) /\ kind' = [kind EXCEPT ![r] = k]
Ends(r)        == Leaves(r) /\ kind' = [kind EXCEPT ![r] = "none"]

\* A task of one of kinds ks is under way, in another slot than r.
Others(r, ks) == \E q \in Requests \ {r} : kind[q] \in ks

DashInit ==
  /\ Init
  /\ initialized = FALSE
  /\ kind = [r \in Requests |-> "none"]
  /\ got = [r \in Requests |-> "nothing"]
  /\ jar = NoId /\ view = "none" /\ form = "none"
  /\ current = FALSE /\ timer = FALSE
  /\ unsure = FALSE /\ out = FALSE /\ quit = FALSE

-----------------------------------------------------------------------------
(* The user and the timer.                                                 *)

Free(r) == kind[r] = "none"

\* The page is loaded, again or for the first time, with nothing under way.
PageLoads(r) ==
  /\ \A q \in Requests : Free(q)
  /\ Sends(r, "bootstrap", jar)
  /\ view' = "none" /\ form' = "none" /\ current' = FALSE /\ timer' = FALSE
  /\ unsure' = FALSE
  /\ UNCHANGED <<initialized, got, jar, out, quit>>

\* The form that is shown is submitted: setup or login.  Their buttons have
\* no id, so that setButtonLoading does not disable them.
Submits(r) ==
  /\ Free(r) /\ view = "auth" /\ form # "none"
  /\ Sends(r, form, jar)
  /\ out' = FALSE
  /\ UNCHANGED <<initialized, got, page, unsure, quit>>

\* Saves under way: setFormLoading has disabled their forms, each its own.
Saving == {q \in Requests : kind[q] = "save"}

\* One of the page's three forms is submitted, another than those.
Saves(r) ==
  /\ Free(r) /\ view = "app" /\ Cardinality(Saving) < 3
  /\ Sends(r, "save", jar)
  /\ current' = FALSE
  /\ unsure' = Others(r, Fills)
  /\ UNCHANGED <<initialized, got, jar, view, form, timer, out, quit>>

\* switchMode; the toggles are never disabled.
SwitchesMode(r) ==
  /\ Free(r) /\ view = "app"
  /\ Sends(r, "mode", jar)
  /\ unsure' = Others(r, Fills)
  /\ UNCHANGED <<initialized, got, page, out, quit>>

LogsOut(r) ==
  /\ Free(r) /\ view = "app"
  /\ Sends(r, "logout", jar)
  /\ timer' = FALSE /\ quit' = TRUE
  /\ UNCHANGED <<initialized, got, jar, view, form, current, unsure, out>>

\* setInterval: refreshStatus.
TimerFires(r) ==
  /\ Free(r) /\ timer
  /\ Sends(r, "refresh", jar)
  /\ UNCHANGED <<initialized, got, page, history>>

-----------------------------------------------------------------------------
(* The server.                                                             *)

\* bootstrap.
ServesBootstrap(r) ==
  /\ kind[r] = "bootstrap" /\ stage[r] = "sent"
  /\ Replies(r)
  /\ got' = [got EXCEPT ![r] = IF initialized THEN "login" ELSE "setup"]
  /\ UNCHANGED <<initialized, kind, page, history>>

\* setup and login, up to Create; a wrong password is refused.
ServesPassword(r) ==
  /\ kind[r] = IF initialized THEN "login" ELSE "setup"
  /\ CreateStarts(r)
  /\ initialized' = TRUE
  /\ UNCHANGED <<tasks, page, history>>

Creates(r) == Create(r) /\ UNCHANGED dashboard

\* auth, in front of the other routes.
Judges(r) ==
  /\ kind[r] \in Authed
  /\ ValidStarts(r) \/ Valid(r) \/ (stage[r] = "sent" /\ cookie[r] = NoId /\ Fails(r))
  /\ UNCHANGED dashboard

\* Mutant of Outdated: the reply is not filled in.
OutdatedAll(r) ==
  [q \in Requests |-> IF got[q] = "stored" THEN "older" ELSE got[q]]

\* What the replies hold when r has stored something new.
Outdated(r) ==
  [q \in Requests |-> IF q = r THEN "stored"
                      ELSE IF got[q] = "stored" THEN "older" ELSE got[q]]

\* Mutant of ServesConfig: it answers with what was stored before.
ServesConfigOld(r) ==
  /\ kind[r] \in Fills /\ stage[r] = "passed"
  /\ IF kind[r] = "load"
     THEN got' = [got EXCEPT ![r] = "stored"] /\ UNCHANGED current
     ELSE got' = [Outdated(r) EXCEPT ![r] = "older"] /\ current' = FALSE
  /\ Replies(r)
  /\ UNCHANGED <<initialized, kind, jar, view, form, timer, history>>

\* getConfig; updateConfig and switchMode, which answer with what they stored.
ServesConfig(r) ==
  /\ kind[r] \in Fills /\ stage[r] = "passed"
  /\ IF kind[r] = "load"
     THEN got' = [got EXCEPT ![r] = "stored"] /\ UNCHANGED current
     ELSE got' = Outdated(r) /\ current' = FALSE
  /\ Replies(r)
  /\ UNCHANGED <<initialized, kind, jar, view, form, timer, history>>

\* status; logout.
ServesRest(r) ==
  /\ \/ kind[r] = "refresh" /\ stage[r] = "passed" /\ Replies(r)
     \/ kind[r] = "logout" /\ Destroy(r)
  /\ UNCHANGED dashboard

\* The request fails, at the server or on its way, or its reply is lost.
Breaks(r) ==
  /\ Fails(r)
  /\ got' = [got EXCEPT ![r] = "nothing"]
  /\ UNCHANGED <<initialized, kind, page, history>>

-----------------------------------------------------------------------------
(* The replies, and the code after the await.                              *)

\* What r held of its request is dropped.
Forgets(r) == got' = [got EXCEPT ![r] = "nothing"]

Answered(r, ks) == stage[r] = "done" /\ kind[r] \in ks
Failed(r, ks)   == stage[r] = "failed" /\ kind[r] \in ks

\* bootstrap, also when the app view is shown by now.
AfterBootstrap(r) ==
  /\ Answered(r, {"bootstrap"})
  /\ view' = "auth"
  /\ form' = got[r]
  /\ Ends(r) /\ Forgets(r)
  /\ UNCHANGED <<initialized, jar, current, timer, history>>

\* setup and login: the cookie of the reply, then loadConfig.
AfterLogin(r) ==
  /\ Answered(r, {"setup", "login"})
  /\ jar' = cookie[r]
  /\ Sends(r, "load", cookie[r])
  /\ unsure' = (Others(r, Stores) \/ (unsure /\ Others(r, Fills)))
  /\ UNCHANGED <<initialized, got, view, form, current, timer, out, quit>>

\* loadConfig.
AfterLoad(r) ==
  /\ Answered(r, {"load"})
  /\ current' = (got[r] = "stored") /\ view' = "app" /\ timer' = TRUE /\ quit' = FALSE
  /\ Sends(r, "refresh", jar) /\ Forgets(r)
  /\ UNCHANGED <<initialized, jar, form, unsure, out>>

\* saveConfig and switchMode: fillForms, refreshStatus.
AfterSave(r) ==
  /\ Answered(r, {"save", "mode"})
  /\ current' = (got[r] = "stored")
  /\ Sends(r, "refresh", jar) /\ Forgets(r)
  /\ UNCHANGED <<initialized, jar, view, form, timer, history>>

\* Mutant of RefreshShows: a good status brings the app view back.
RefreshShowsApp == view' = "app"

\* refreshStatus leaves the view alone.
RefreshShows == view' = view

AfterRefresh(r) ==
  /\ Answered(r, {"refresh"})
  /\ RefreshShows
  /\ Ends(r)
  /\ UNCHANGED <<initialized, got, jar, form, current, timer, history>>

\* The logout button's handler: the reply clears the cookie.
AfterLogout(r) ==
  /\ Answered(r, {"logout"})
  /\ jar' = NoId /\ view' = "auth"
  /\ Sends(r, "bootstrap", NoId)
  /\ out' = (out \/ ~Others(r, Logins))
  /\ UNCHANGED <<initialized, got, form, current, timer, unsure, quit>>

\* Mutant of SessionLost: the timer is stopped and the view stays.
SessionLostKept == timer' = FALSE /\ UNCHANGED view

\* The catch of refreshStatus, whichever view is shown by now.
SessionLost == view' = "auth" /\ timer' = FALSE

AfterFailedStatus(r) ==
  /\ Failed(r, {"refresh"})
  /\ SessionLost
  /\ Sends(r, "bootstrap", jar)
  /\ UNCHANGED <<initialized, got, jar, form, current, history>>

\* The catch of loadConfig, which leaves the timer alone.
AfterFailedLoad(r) ==
  /\ Failed(r, {"load"})
  /\ view' = "auth"
  /\ Sends(r, "bootstrap", jar)
  /\ UNCHANGED <<initialized, got, jar, form, current, timer, history>>

\* The others show a toast at most.  logout throws: its view stays, and its
\* timer is off.
AfterFailure(r) ==
  /\ Failed(r, {"bootstrap", "setup", "login", "save", "mode", "logout"})
  /\ Ends(r) /\ Forgets(r)
  /\ unsure' = (unsure \/ kind[r] \in Stores)
  /\ UNCHANGED <<initialized, page, out, quit>>

-----------------------------------------------------------------------------

Acts(r) ==
  \/ PageLoads(r) \/ Submits(r) \/ LogsOut(r)
  \/ Saves(r) \/ SwitchesMode(r)

Served(r) ==
  \/ ServesBootstrap(r) \/ ServesPassword(r) \/ Judges(r)
  \/ ServesConfig(r) \/ ServesRest(r) \/ Creates(r)

GoesOn(r) ==
  \/ AfterBootstrap(r) \/ AfterLogin(r) \/ AfterLoad(r) \/ AfterSave(r)
  \/ AfterRefresh(r) \/ AfterLogout(r)
  \/ AfterFailedStatus(r) \/ AfterFailedLoad(r) \/ AfterFailure(r)

\* Time passes, the server is started again, or the browser drops the cookie,
\* whose own time no use renews.
Around ==
  \/ (Tick \/ Restart) /\ UNCHANGED dashboard
  \/ /\ jar # NoId /\ jar' = NoId
     /\ UNCHANGED <<vars, initialized, tasks, view, form, current, timer, history>>

DashNext ==
  \/ \E r \in Requests : Acts(r) \/ TimerFires(r) \/ Served(r) \/ Breaks(r) \/ GoesOn(r)
  \/ Around

DashSpec == DashInit /\ [][DashNext]_allVars

-----------------------------------------------------------------------------

\* Every variable has its type, and what fills the forms or chooses one is a
\* reply of that kind (app.js:67-101, 269-279).
DashTypeOK ==
  /\ TypeOK
  /\ initialized \in BOOLEAN /\ current \in BOOLEAN /\ timer \in BOOLEAN
  /\ unsure \in BOOLEAN /\ out \in BOOLEAN /\ quit \in BOOLEAN
  /\ jar \in issued \cup {NoId}
  /\ kind \in [Requests -> Authed \cup {"none", "bootstrap", "setup", "login"}]
  /\ got \in [Requests -> {"nothing", "setup", "login", "stored", "older"}]
  /\ view \in {"none", "auth", "app"} /\ form \in {"none", "setup", "login"}
  /\ \A r \in Requests :
       /\ Answered(r, Fills) => got[r] \in {"stored", "older"}
       /\ Answered(r, {"bootstrap"}) => got[r] \in {"setup", "login"}

\* With nothing under way that fills the forms, they show what is stored:
\* whatever else was refreshed, logged in, loaded twice or restarted meanwhile.
\* Saves that overlap, or overlap with a load, may be answered in the other
\* order, and one that fails may have been stored; only then the forms may
\* differ (app.js:86-92, 269-279).
FormCurrent ==
  (view = "app" /\ ~unsure /\ \A r \in Requests : kind[r] \notin Fills)
    => current

\* Who has logged out, with no login under way at the time, is not shown the
\* app view and has no cookie until a login is submitted, whatever replies to
\* earlier requests still come (app.js:325-333).
LogoutHolds == out => view # "app" /\ jar = NoId

\* The app view goes on asking for the status, which is how it learns that its
\* session has ended, unless the user has pressed the logout button: a refresh
\* that fails late, after another login, takes the view with the timer
\* (app.js:92-94, 239-243).
PollsWhileShown == view = "app" => timer \/ quit
=============================================================================
