-------------------------- MODULE DashboardProofs --------------------------
(***************************************************************************)
(* Dashboard for every number of tasks and identifiers.  Whatever the page *)
(* and the routes do is a step of Sessions (StepOfSessions), so that what  *)
(* SessionsProofs shows of the sessions holds with the dashboard around    *)
(* them.  The properties of the page each rest on what keeps the tasks     *)
(* that could break them away: RouteInv, which route serves which task,    *)
(* QuietInv and OneFills.                                                  *)
(***************************************************************************)
EXTENDS Dashboard, SessionsProofs

Kinds   == Authed \cup {"none", "bootstrap", "setup", "login"}
Replied == {"nothing", "setup", "login", "stored", "older"}

\* Only setup and login wait to make a session; only what needs a session
\* waits for one or was let through.
RouteInv ==
  \A r \in Requests :
    /\ stage[r] = "dated" => kind[r] \in {"setup", "login"}
    /\ stage[r] = "passed" => kind[r] \in Authed

\* Once logged out, no task is under way that could log in.
QuietInv == out => \A r \in Requests : kind[r] \notin Logins

\* Unless saves have overlapped with others or with loads, a task that stores is
\* alone to fill the forms, and a reply that does is the last that was stored.
OneFills ==
  ~unsure => \A r \in Requests :
    /\ kind[r] \in Stores => ~Others(r, Fills)
    /\ (kind[r] \in Fills /\ stage[r] = "done") => got[r] = "stored"

DashInv ==
  /\ Inv /\ DashTypeOK /\ RouteInv
  /\ LogoutHolds /\ QuietInv /\ PollsWhileShown /\ OneFills /\ FormCurrent

-----------------------------------------------------------------------------

LEMMA DashInitInv == DashInit => DashInv
<1> SUFFICES ASSUME DashInit PROVE DashInv
  OBVIOUS
<1>1. Inv
  BY InitInv DEF DashInit
<1>2. DashTypeOK
  BY <1>1 DEF DashInit, Init, Inv, DashTypeOK, Answered
<1>3. RouteInv /\ LogoutHolds /\ QuietInv /\ PollsWhileShown
  BY DEF DashInit, Init, RouteInv, LogoutHolds, QuietInv, PollsWhileShown
<1>4. OneFills /\ FormCurrent
  BY DEF DashInit, OneFills, FormCurrent, Fills, Stores
<1> QED
  BY <1>1, <1>2, <1>3, <1>4 DEF DashInv

\* A step of a request's.
LEMMA Serving == ASSUME NEW r \in Requests, Serves(r) PROVE Next
BY DEF Next

\* A request is sent with a cookie that was issued.
LEMMA SendingServes ==
  ASSUME DashInv, NEW r \in Requests, NEW k, NEW c \in {jar, cookie[r], NoId},
         Sends(r, k, c)
  PROVE  Next
<1>1. c \in issued \cup {NoId}
  BY DEF DashInv, DashTypeOK, Inv, TypeOK
<1> QED
  BY <1>1, Serving DEF Sends, Serves

\* What the page and the routes do is a step of Sessions.
LEMMA StepOfSessions == DashInv /\ [DashNext]_allVars => [Next]_vars
<1> SUFFICES ASSUME DashInv, DashNext PROVE [Next]_vars
  BY DEF allVars, dashboard
<1>1. ASSUME NEW r \in Requests, Acts(r) \/ TimerFires(r) PROVE Next
  BY <1>1, SendingServes DEF Acts, PageLoads, Submits, LogsOut, Saves,
    SwitchesMode, TimerFires
<1>2. ASSUME NEW r \in Requests, Served(r) \/ Breaks(r) PROVE Next
  BY <1>2, Serving DEF Served, ServesBootstrap, ServesPassword, Judges,
    ServesConfig, ServesRest, Creates, Breaks, Serves
<1>3. ASSUME NEW r \in Requests, GoesOn(r) PROVE Next
  <2>1. CASE AfterBootstrap(r) \/ AfterRefresh(r) \/ AfterFailure(r)
    BY <2>1, Serving DEF AfterBootstrap, AfterRefresh, AfterFailure, Ends, Serves
  <2>2. CASE AfterLogin(r) \/ AfterLoad(r) \/ AfterSave(r) \/ AfterLogout(r)
    BY <2>2, SendingServes DEF AfterLogin, AfterLoad, AfterSave, AfterLogout
  <2>3. CASE AfterFailedStatus(r) \/ AfterFailedLoad(r)
    BY <2>3, SendingServes DEF AfterFailedStatus, AfterFailedLoad
  <2> QED
    BY <1>3, <2>1, <2>2, <2>3 DEF GoesOn
<1>4. CASE Around
  BY <1>4 DEF Around, Next
<1> QED
  BY <1>1, <1>2, <1>3, <1>4 DEF DashNext

\* A configuration's reply holds what is stored now, which outdates the others.
LEMMA ConfigReplies ==
  ASSUME got \in [Requests -> Replied], NEW r \in Requests, ServesConfig(r)
  PROVE  /\ got' \in [Requests -> Replied] /\ got'[r] = "stored"
         /\ \A q \in Requests :
              got'[q] = got[q] \/ (got[q] = "stored" /\ got'[q] = "older")
              \/ q = r
<1>2. CASE kind[r] = "load"
  BY <1>2 DEF ServesConfig, Replied
<1>3. CASE kind[r] # "load"
  <2>1. got' = Outdated(r)
    BY <1>3 DEF ServesConfig
  <2> QED
    BY <2>1 DEF Outdated, Replied
<1> QED
  BY <1>2, <1>3

\* Each stage is left for a route that fits the task.
LEMMA RoutesKept == DashInv /\ Inv' /\ [DashNext]_allVars => RouteInv'
<1> SUFFICES ASSUME DashInv, Inv', [DashNext]_allVars PROVE RouteInv'
  OBVIOUS
<1> USE DEF DashInv, Inv, TypeOK, DashTypeOK, RouteInv, Authed, Fills, Stores, Logins,
    dashboard, sessions, serving, tasks, page, history, To
<1>1. ASSUME NEW r \in Requests, Acts(r) \/ TimerFires(r) PROVE RouteInv'
  <2>1. CASE PageLoads(r) \/ Submits(r) \/ LogsOut(r)
    BY <2>1 DEF PageLoads, Sends, Arrives, Submits, LogsOut
  <2>2. CASE Saves(r) \/ SwitchesMode(r) \/ TimerFires(r)
    BY <2>2 DEF Saves, Sends, Arrives, SwitchesMode, TimerFires
  <2> QED
    BY <1>1, <2>1, <2>2 DEF Acts
<1>2. ASSUME NEW r \in Requests, Served(r) \/ Breaks(r) PROVE RouteInv'
  <2>1. CASE ServesBootstrap(r) \/ ServesPassword(r) \/ Creates(r) \/ Breaks(r)
    BY <2>1 DEF ServesBootstrap, Replies, ServesPassword, CreateStarts,
      Creates, Create, Breaks, Fails
  <2>2. CASE Judges(r)
    BY <2>2 DEF Judges, ValidStarts, Valid, Fails
  <2>3. CASE ServesConfig(r)
    BY <2>3 DEF ServesConfig, Outdated, Replies
  <2>4. CASE ServesRest(r)
    BY <2>4 DEF ServesRest, Replies, Destroy
  <2> QED
    BY <1>2, <2>1, <2>2, <2>3, <2>4 DEF Served
<1>3. ASSUME NEW r \in Requests, GoesOn(r) PROVE RouteInv'
  <2>1. CASE AfterBootstrap(r) \/ AfterRefresh(r) \/ AfterFailure(r)
    BY <2>1 DEF AfterBootstrap, Ends, Leaves, AfterRefresh, RefreshShows,
      AfterFailure
  <2>2. CASE AfterLogin(r) \/ AfterLoad(r)
    BY <2>2 DEF AfterLogin, Sends, Arrives, AfterLoad
  <2>3. CASE AfterSave(r) \/ AfterLogout(r)
    BY <2>3 DEF AfterSave, Sends, Arrives, AfterLogout
  <2>4. CASE AfterFailedStatus(r) \/ AfterFailedLoad(r)
    BY <2>4 DEF AfterFailedStatus, SessionLost, Sends, Arrives,
      AfterFailedLoad
  <2> QED
    BY <1>3, <2>1, <2>2, <2>3, <2>4 DEF GoesOn
<1>4. CASE Around
  BY <1>4 DEF Around, Tick, Restart, vars
<1>5. CASE UNCHANGED allVars
  BY <1>5 DEF allVars, vars
<1> QED
  BY <1>1, <1>2, <1>3, <1>4, <1>5 DEF DashNext

\* The types, and what a reply holds.
LEMMA TypesKept == DashInv /\ Inv' /\ [DashNext]_allVars => DashTypeOK'
<1> SUFFICES ASSUME DashInv, Inv', [DashNext]_allVars PROVE DashTypeOK'
  OBVIOUS
<1> USE DEF DashInv, Inv, TypeOK, DashTypeOK, RouteInv, Authed, Fills, Stores, Others,
    Answered, Failed, Forgets, dashboard, sessions, serving, tasks, page,
    history, To
<1>1. ASSUME NEW r \in Requests, Acts(r) \/ TimerFires(r) PROVE DashTypeOK'
  <2>1. CASE PageLoads(r)
    BY <2>1 DEF PageLoads, Sends, Arrives
  <2>2. CASE Submits(r)
    BY <2>2 DEF Submits, Sends, Arrives
  <2>3. CASE LogsOut(r)
    BY <2>3 DEF LogsOut, Sends, Arrives
  <2>4. CASE Saves(r)
    BY <2>4 DEF Saves, Sends, Arrives
  <2>5. CASE SwitchesMode(r)
    BY <2>5 DEF SwitchesMode, Sends, Arrives
  <2>6. CASE TimerFires(r)
    BY <2>6 DEF TimerFires, Sends, Arrives
  <2> QED
    BY <1>1, <2>1, <2>2, <2>3, <2>4, <2>5, <2>6 DEF Acts
<1>2. ASSUME NEW r \in Requests, Served(r) \/ Breaks(r) PROVE DashTypeOK'
  <2>1. CASE ServesBootstrap(r)
    BY <2>1 DEF ServesBootstrap, Replies
  <2>2. CASE ServesPassword(r)
    BY <2>2 DEF ServesPassword, CreateStarts
  <2>3. CASE Creates(r)
    BY <2>3 DEF Creates, Create
  <2>4. CASE Breaks(r)
    BY <2>4 DEF Breaks, Fails
  <2>5. CASE Judges(r)
    BY <2>5 DEF Judges, ValidStarts, Valid, Fails
  <2>6. CASE ServesConfig(r)
    <3>1. got \in [Requests -> Replied]
      BY DEF Replied
    <3>2. /\ got' \in [Requests -> Replied] /\ got'[r] = "stored"
          /\ \A q \in Requests :
               got'[q] = got[q] \/ (got[q] = "stored" /\ got'[q] = "older")
               \/ q = r
      BY <2>6, <3>1, ConfigReplies
    <3>3. /\ kind[r] \in Fills /\ stage' = [stage EXCEPT ![r] = "done"]
          /\ current' \in {current, FALSE}
          /\ UNCHANGED <<initialized, kind, cookie, issued, jar, view, form, timer,
                         history>>
      BY <2>6 DEF ServesConfig, Replies
    <3>4. ASSUME NEW q \in Requests
          PROVE  stage'[q] = "done" =>
                   /\ kind'[q] \in Fills => got'[q] \in {"stored", "older"}
                   /\ kind'[q] = "bootstrap" => got'[q] \in {"setup", "login"}
      BY <3>2, <3>3
    <3>5. TypeOK' /\ got' \in [Requests -> Replied] /\ current' \in BOOLEAN
      BY <3>2, <3>3
    <3> QED
      BY <3>3, <3>4, <3>5 DEF Replied
  <2>7. CASE ServesRest(r)
    BY <2>7 DEF ServesRest, Replies, Destroy
  <2> QED
    BY <1>2, <2>1, <2>2, <2>3, <2>4, <2>5, <2>6, <2>7 DEF Served
<1>3. ASSUME NEW r \in Requests, GoesOn(r) PROVE DashTypeOK'
  <2>1. CASE AfterBootstrap(r)
    BY <2>1 DEF AfterBootstrap, Ends, Leaves
  <2>2. CASE AfterRefresh(r)
    BY <2>2 DEF AfterRefresh, RefreshShows, Ends, Leaves
  <2>3. CASE AfterFailure(r)
    BY <2>3 DEF AfterFailure, Ends, Leaves
  <2>4. CASE AfterLogin(r)
    BY <2>4 DEF AfterLogin, Sends, Arrives
  <2>5. CASE AfterLoad(r)
    BY <2>5 DEF AfterLoad, Sends, Arrives
  <2>6. CASE AfterSave(r)
    BY <2>6 DEF AfterSave, Sends, Arrives
  <2>7. CASE AfterLogout(r)
    BY <2>7 DEF AfterLogout, Sends, Arrives
  <2>8. CASE AfterFailedStatus(r) \/ AfterFailedLoad(r)
    BY <2>8 DEF AfterFailedStatus, SessionLost, Sends, Arrives,
      AfterFailedLoad
  <2> QED
    BY <1>3, <2>1, <2>2, <2>3, <2>4, <2>5, <2>6, <2>7, <2>8 DEF GoesOn
<1>4. CASE Around
  BY <1>4 DEF Around, Tick, Restart, vars
<1>5. CASE UNCHANGED allVars
  BY <1>5 DEF allVars, vars
<1> QED
  BY <1>1, <1>2, <1>3, <1>4, <1>5 DEF DashNext

\* Nothing that is under way logs in.
LEMMA LogoutKept == DashInv /\ Inv' /\ [DashNext]_allVars => (LogoutHolds /\ QuietInv)'
<1> SUFFICES ASSUME DashInv, Inv', [DashNext]_allVars PROVE (LogoutHolds /\ QuietInv)'
  OBVIOUS
<1> USE DEF DashInv, Inv, TypeOK, DashTypeOK, LogoutHolds, QuietInv, Logins,
    Others, Answered, Failed, Free, dashboard, sessions, serving, tasks, page,
    history, To
<1>1. ASSUME NEW r \in Requests, Acts(r) \/ TimerFires(r) PROVE (LogoutHolds /\ QuietInv)'
  <2>1. CASE PageLoads(r) \/ Submits(r) \/ LogsOut(r)
    BY <2>1 DEF PageLoads, Sends, Arrives, Submits, LogsOut
  <2>2. CASE TimerFires(r)
    BY <2>2 DEF TimerFires, Sends, Arrives
  <2>3. CASE Saves(r)
    BY <2>3 DEF Saves, Sends, Arrives
  <2>4. CASE SwitchesMode(r)
    BY <2>4 DEF SwitchesMode, Sends, Arrives
  <2> QED
    BY <1>1, <2>1, <2>2, <2>3, <2>4 DEF Acts
<1>2. ASSUME NEW r \in Requests, Served(r) \/ Breaks(r) PROVE (LogoutHolds /\ QuietInv)'
  <2>1. CASE ServesBootstrap(r) \/ ServesPassword(r) \/ Creates(r) \/ Breaks(r)
    BY <2>1 DEF ServesBootstrap, Replies, ServesPassword, CreateStarts,
      Creates, Create, Breaks, Fails
  <2>2. CASE Judges(r)
    BY <2>2 DEF Judges, ValidStarts, Valid, Fails
  <2>3. CASE ServesConfig(r)
    BY <2>3 DEF ServesConfig, Outdated, Replies
  <2>4. CASE ServesRest(r)
    BY <2>4 DEF ServesRest, Replies, Destroy
  <2> QED
    BY <1>2, <2>1, <2>2, <2>3, <2>4 DEF Served
<1>3. ASSUME NEW r \in Requests, GoesOn(r) PROVE (LogoutHolds /\ QuietInv)'
  <2>1. CASE AfterBootstrap(r) \/ AfterRefresh(r) \/ AfterFailure(r)
    BY <2>1 DEF AfterBootstrap, Ends, Leaves, AfterRefresh, RefreshShows,
      AfterFailure
  <2>2. CASE AfterLoad(r)
    BY <2>2 DEF AfterLoad, Sends, Arrives
  <2>3. CASE AfterLogin(r)
    BY <2>3 DEF AfterLogin, Sends, Arrives
  <2>4. CASE AfterSave(r) \/ AfterLogout(r)
    BY <2>4 DEF AfterSave, Sends, Arrives, AfterLogout
  <2>5. CASE AfterFailedStatus(r) \/ AfterFailedLoad(r)
    BY <2>5 DEF AfterFailedStatus, SessionLost, Sends, Arrives,
      AfterFailedLoad
  <2> QED
    BY <1>3, <2>1, <2>2, <2>3, <2>4, <2>5 DEF GoesOn
<1>4. CASE Around
  BY <1>4 DEF Around, Tick, Restart, vars
<1>5. CASE UNCHANGED allVars
  BY <1>5 DEF allVars, vars
<1> QED
  BY <1>1, <1>2, <1>3, <1>4, <1>5 DEF DashNext

\* The view, the timer and the logout button.
LEMMA PollsKept == DashInv /\ Inv' /\ [DashNext]_allVars => PollsWhileShown'
<1> SUFFICES ASSUME DashInv, Inv', [DashNext]_allVars PROVE PollsWhileShown'
  OBVIOUS
<1> USE DEF DashInv, Inv, TypeOK, DashTypeOK, PollsWhileShown, dashboard,
    sessions, serving, tasks, page, history, To
<1>1. ASSUME NEW r \in Requests, Acts(r) \/ TimerFires(r) PROVE PollsWhileShown'
  <2>1. CASE PageLoads(r) \/ Submits(r) \/ LogsOut(r)
    BY <2>1 DEF PageLoads, Sends, Arrives, Submits, LogsOut
  <2>2. CASE Saves(r) \/ SwitchesMode(r) \/ TimerFires(r)
    BY <2>2 DEF Saves, Sends, Arrives, SwitchesMode, TimerFires
  <2> QED
    BY <1>1, <2>1, <2>2 DEF Acts
<1>2. ASSUME NEW r \in Requests, Served(r) \/ Breaks(r) PROVE PollsWhileShown'
  <2>1. CASE ServesBootstrap(r) \/ ServesPassword(r) \/ Creates(r) \/ Breaks(r)
    BY <2>1 DEF ServesBootstrap, Replies, ServesPassword, CreateStarts,
      Creates, Create, Breaks, Fails
  <2>2. CASE Judges(r)
    BY <2>2 DEF Judges, ValidStarts, Valid, Fails
  <2>3. CASE ServesConfig(r)
    BY <2>3 DEF ServesConfig, Outdated, Replies
  <2>4. CASE ServesRest(r)
    BY <2>4 DEF ServesRest, Replies, Destroy
  <2> QED
    BY <1>2, <2>1, <2>2, <2>3, <2>4 DEF Served
<1>3. ASSUME NEW r \in Requests, GoesOn(r) PROVE PollsWhileShown'
  <2>1. CASE AfterBootstrap(r) \/ AfterRefresh(r) \/ AfterFailure(r)
    BY <2>1 DEF AfterBootstrap, Ends, Leaves, AfterRefresh, RefreshShows,
      AfterFailure
  <2>2. CASE AfterLogin(r) \/ AfterLoad(r)
    BY <2>2 DEF AfterLogin, Sends, Arrives, AfterLoad
  <2>3. CASE AfterSave(r) \/ AfterLogout(r)
    BY <2>3 DEF AfterSave, Sends, Arrives, AfterLogout
  <2>4. CASE AfterFailedStatus(r) \/ AfterFailedLoad(r)
    BY <2>4 DEF AfterFailedStatus, SessionLost, Sends, Arrives,
      AfterFailedLoad
  <2> QED
    BY <1>3, <2>1, <2>2, <2>3, <2>4 DEF GoesOn
<1>4. CASE Around
  BY <1>4 DEF Around, Tick, Restart, vars
<1>5. CASE UNCHANGED allVars
  BY <1>5 DEF allVars, vars
<1> QED
  BY <1>1, <1>2, <1>3, <1>4, <1>5 DEF DashNext

\* The task that fills the forms is alone with its reply.
LEMMA FillsKept == DashInv /\ Inv' /\ [DashNext]_allVars => (OneFills /\ FormCurrent)'
<1> SUFFICES ASSUME DashInv, Inv', [DashNext]_allVars PROVE (OneFills /\ FormCurrent)'
  OBVIOUS
<1> USE DEF DashInv, Inv, TypeOK, DashTypeOK, RouteInv, OneFills, FormCurrent,
    Fills, Stores, Authed, Others, Answered, Failed, Forgets, Free, dashboard,
    sessions, serving, tasks, page, history, To
<1>1. ASSUME NEW r \in Requests, Acts(r) \/ TimerFires(r) PROVE (OneFills /\ FormCurrent)'
  <2>1. CASE PageLoads(r) \/ Submits(r) \/ LogsOut(r)
    BY <2>1 DEF PageLoads, Sends, Arrives, Submits, LogsOut
  <2>2. CASE TimerFires(r)
    BY <2>2 DEF TimerFires, Sends, Arrives
  <2>3. CASE Saves(r)
    BY <2>3 DEF Saves, Sends, Arrives
  <2>4. CASE SwitchesMode(r)
    BY <2>4 DEF SwitchesMode, Sends, Arrives
  <2> QED
    BY <1>1, <2>1, <2>2, <2>3, <2>4 DEF Acts
<1>2. ASSUME NEW r \in Requests, Served(r) \/ Breaks(r) PROVE (OneFills /\ FormCurrent)'
  <2>1. CASE ServesBootstrap(r) \/ ServesPassword(r) \/ Creates(r) \/ Breaks(r)
    BY <2>1 DEF ServesBootstrap, Replies, ServesPassword, CreateStarts,
      Creates, Create, Breaks, Fails
  <2>2. CASE Judges(r)
    BY <2>2 DEF Judges, ValidStarts, Valid, Fails
  <2>3. CASE ServesConfig(r)
    <3>1. got \in [Requests -> Replied]
      BY DEF Replied
    <3>2. /\ got' \in [Requests -> Replied] /\ got'[r] = "stored"
          /\ \A q \in Requests :
               got'[q] = got[q] \/ (got[q] = "stored" /\ got'[q] = "older")
               \/ q = r
      BY <2>3, <3>1, ConfigReplies
    <3>3. /\ kind[r] \in Fills /\ stage' = [stage EXCEPT ![r] = "done"]
          /\ current' \in {current, FALSE}
          /\ UNCHANGED <<initialized, kind, cookie, issued, jar, view, form, timer,
                         history>>
      BY <2>3 DEF ServesConfig, Replies
    <3>4. kind[r] = "load" => UNCHANGED current /\ got' = [got EXCEPT ![r] = "stored"]
      BY <2>3 DEF ServesConfig
    <3>5. CASE kind[r] = "load"
      BY <3>1, <3>3, <3>4, <3>5
    <3>6. CASE kind[r] # "load"
      <4>1. kind[r] \in Stores
        BY <3>3, <3>6
      <4>2. ~unsure => \A q \in Requests : q # r => kind[q] \notin Fills
        BY <4>1
      <4> QED
        BY <3>2, <3>3, <4>1, <4>2
    <3> QED
      BY <3>5, <3>6
  <2>4. CASE ServesRest(r)
    BY <2>4 DEF ServesRest, Replies, Destroy
  <2> QED
    BY <1>2, <2>1, <2>2, <2>3, <2>4 DEF Served
<1>3. ASSUME NEW r \in Requests, GoesOn(r) PROVE (OneFills /\ FormCurrent)'
  <2>1. CASE AfterRefresh(r)
    BY <2>1 DEF AfterRefresh, RefreshShows, Ends, Leaves
  <2>2. CASE AfterBootstrap(r)
    BY <2>2 DEF AfterBootstrap, Ends, Leaves
  <2>3. CASE AfterFailure(r)
    <3>1. ~unsure' => ~unsure /\ kind[r] \notin Stores
      BY <2>3 DEF AfterFailure
    <3> QED
      BY <2>3, <3>1 DEF AfterFailure, Ends, Leaves
  <2>4. CASE AfterLoad(r)
    BY <2>4 DEF AfterLoad, Sends, Arrives
  <2>5. CASE AfterLogin(r)
    <3>1. /\ kind' = [kind EXCEPT ![r] = "load"] /\ stage' = [stage EXCEPT ![r] = "sent"]
          /\ UNCHANGED <<got, view, current>>
          /\ ~unsure' => ~Others(r, Stores) /\ (~unsure \/ ~Others(r, Fills))
      BY <2>5 DEF AfterLogin, Sends, Arrives
    <3>2. ASSUME NEW q \in Requests, ~unsure'
          PROVE  /\ kind'[q] \notin Stores
                 /\ (kind'[q] \in Fills /\ stage'[q] = "done") => got'[q] = "stored"
      <4>1. CASE q = r
        BY <3>1, <4>1
      <4>2. CASE q # r
        <5>1. kind'[q] = kind[q] /\ stage'[q] = stage[q]
          BY <3>1, <4>2
        <5> QED
          BY <3>1, <3>2, <4>2, <5>1
      <4> QED
        BY <4>1, <4>2
    <3>3. kind'[r] \in Fills
      BY <3>1
    <3> QED
      BY <3>2, <3>3
  <2>6. CASE AfterLogout(r)
    BY <2>6 DEF AfterLogout, Sends, Arrives
  <2>7. CASE AfterSave(r)
    BY <2>7 DEF AfterSave, Sends, Arrives
  <2>8. CASE AfterFailedStatus(r) \/ AfterFailedLoad(r)
    BY <2>8 DEF AfterFailedStatus, SessionLost, Sends, Arrives,
      AfterFailedLoad
  <2> QED
    BY <1>3, <2>1, <2>2, <2>3, <2>4, <2>5, <2>6, <2>7, <2>8 DEF GoesOn
<1>4. CASE Around
  BY <1>4 DEF Around, Tick, Restart, vars
<1>5. CASE UNCHANGED allVars
  BY <1>5 DEF allVars, vars
<1> QED
  BY <1>1, <1>2, <1>3, <1>4, <1>5 DEF DashNext

LEMMA DashStepInv == DashInv /\ [DashNext]_allVars => DashInv'
<1> SUFFICES ASSUME DashInv, [DashNext]_allVars PROVE DashInv'
  OBVIOUS
<1>1. Inv'
  BY StepOfSessions, StepInv DEF DashInv
<1> QED
  BY <1>1, RoutesKept, TypesKept, LogoutKept, PollsKept, FillsKept DEF DashInv

-----------------------------------------------------------------------------

\* DashInv holds in every behaviour.
THEOREM DashboardInv == DashSpec => []DashInv
BY DashInitInv, DashStepInv, PTL DEF DashSpec

\* The page and the routes use the sessions as Sessions says: every behaviour
\* of Dashboard is one of Sessions (server.go:82-125, 263-275).
THEOREM DashboardImplementsSessions == DashSpec => Spec
<1>1. DashInit => Init
  BY DEF DashInit
<1> QED
  BY <1>1, StepOfSessions, DashboardInv, PTL DEF DashSpec, Spec

\* The types, and that a reply fills only the forms it is for (app.js:67-101).
THEOREM DashboardTyped == DashSpec => []DashTypeOK
BY DashboardInv, PTL DEF DashInv

\* With the dashboard around them, sessions stay out after their logout, and in
\* while they are used; requests are let through in time (session.go:50-91).
THEOREM DashboardSessions ==
  DashSpec => []LoggedOutStaysOut /\ []UsedStays /\ HonouredInTime
BY DashboardImplementsSessions, SessionsLoggedOut, SessionsUsed, SessionsHonoured

\* The forms show what is stored, unless a save overlaps with another or with a
\* load, or fails (app.js:86-92, 269-279).
THEOREM DashboardFormCurrent == DashSpec => []FormCurrent
BY DashboardInv, PTL DEF DashInv

\* Who has logged out sees no app view before the next login (app.js:325-333).
THEOREM DashboardLogoutHolds == DashSpec => []LogoutHolds
BY DashboardInv, PTL DEF DashInv

\* The app view goes on asking for the status (app.js:92-94, 239-243).
THEOREM DashboardPolls == DashSpec => []PollsWhileShown
BY DashboardInv, PTL DEF DashInv
=============================================================================
