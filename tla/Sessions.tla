------------------------------ MODULE Sessions ------------------------------
(***************************************************************************)
(* The sessions of the dashboard (internal/security/session.go) as the web *)
(* server's handlers use them: Create at a setup or login, Valid in front  *)
(* of every other route, which renews, and Destroy at a logout.  Requests  *)
(* are served in goroutines of their own.  Create and Valid read the clock *)
(* before they take the lock, so time may pass in between.                 *)
(*                                                                         *)
(* Times are relative to now.  left is what the map holds: how long an     *)
(* identifier still lives, below 0 when it has expired and is still there; *)
(* Gone, earlier than any request could accept, when it is not.            *)
(***************************************************************************)
EXTENDS Integers

CONSTANTS
  Requests,  \* handler goroutines
  Ids,       \* session identifiers; a random one is never made twice
  NoId,      \* no cookie
  TTL,       \* SessionManager.ttl
  Delay      \* bound: ticks from a request's time.Now() to its lock

ASSUME SessionsAssumption ==
  /\ NoId \notin Ids
  /\ TTL \in Nat /\ Delay \in Nat

VARIABLES
  left,    \* sessions: how long each identifier lives, Gone if absent
  issued,  \* identifiers made so far
  stage,   \* per request: how far it is
  cookie,  \* per request: the identifier it carries, or its reply sets
  age,     \* per request: ticks since it read the clock
  unused,  \* history, per identifier: ticks since it was last made or used;
           \* Ages from its end on
  ended    \* history: identifiers whose logout was served

sessions == <<left, issued, unused, ended>>
serving  == <<stage, cookie, age>>
vars     == <<sessions, serving>>

Gone == -(Delay + 1)
Ages == TTL + Delay + 1

\* Where a request waits with a time it has read.
Waits(r) == stage[r] \in {"timed", "dated"}

To(r, where) == stage' = [stage EXCEPT ![r] = where]

Init ==
  /\ left = [i \in Ids |-> Gone] /\ issued = {}
  /\ stage = [r \in Requests |-> "idle"]
  /\ cookie = [r \in Requests |-> NoId]
  /\ age = [r \in Requests |-> 0]
  /\ unused = [i \in Ids |-> Ages] /\ ended = {}

-----------------------------------------------------------------------------
(* A request and its reply.                                                *)

\* A request arrives with cookie c; one that has been answered is forgotten.
Arrives(r, c) ==
  /\ stage[r] \in {"idle", "done", "failed"}
  /\ cookie' = [cookie EXCEPT ![r] = c]
  /\ To(r, "sent")
  /\ UNCHANGED <<sessions, age>>

Leaves(r) ==
  /\ stage[r] \in {"done", "failed"}
  /\ cookie' = [cookie EXCEPT ![r] = NoId]
  /\ To(r, "idle")
  /\ UNCHANGED <<sessions, age>>

\* A handler that needs nothing of the sessions, any more or at all, replies.
Replies(r) ==
  /\ stage[r] \in {"sent", "passed"}
  /\ To(r, "done")
  /\ UNCHANGED <<sessions, cookie, age>>

\* An error is answered, or the connection breaks before or after the work.
Fails(r) ==
  /\ stage[r] \notin {"idle", "failed"}
  /\ age' = [age EXCEPT ![r] = 0]
  /\ To(r, "failed")
  /\ UNCHANGED <<sessions, cookie>>

-----------------------------------------------------------------------------
(* SessionManager.                                                         *)

\* Valid reads the clock, for a request with a cookie.
ValidStarts(r) ==
  /\ stage[r] = "sent" /\ cookie[r] # NoId
  /\ To(r, "timed")
  /\ UNCHANGED <<sessions, cookie, age>>

\* Create does, once setup or login have accepted the password.
CreateStarts(r) ==
  /\ stage[r] = "sent"
  /\ To(r, "dated")
  /\ UNCHANGED <<sessions, cookie, age>>

\* Mutant of Cleaned: what is about to expire goes too.
CleanedEarly(a) == [i \in Ids |-> IF left[i] <= -a THEN Gone ELSE left[i]]

\* cleanupLocked, with a time read a ticks ago.
Cleaned(a) == [i \in Ids |-> IF left[i] < -a THEN Gone ELSE left[i]]

\* Mutant of Renewed: the time left is set before it is looked at.
RenewedFirst(kept, i, a) == [kept EXCEPT ![i] = TTL - a]

\* What Valid leaves in the map for identifier i.
Renewed(kept, i, a) ==
  [kept EXCEPT ![i] = IF kept[i] = Gone THEN Gone ELSE TTL - a]

\* Valid, from its lock on.
Valid(r) ==
  /\ stage[r] = "timed"
  /\ left' = Renewed(Cleaned(age[r]), cookie[r], age[r])
  /\ IF left'[cookie[r]] # Gone
     THEN To(r, "passed") /\ unused' = [unused EXCEPT ![cookie[r]] = 0]
     ELSE To(r, "failed") /\ UNCHANGED unused
  /\ age' = [age EXCEPT ![r] = 0]
  /\ UNCHANGED <<issued, cookie, ended>>

\* A random identifier; which one makes no difference.
NewId == CHOOSE i \in Ids : i \notin issued

\* Create, from its lock on; its cleanup reads the clock again.
Create(r) ==
  /\ stage[r] = "dated" /\ issued # Ids
  /\ left' = [Cleaned(0) EXCEPT ![NewId] = TTL - age[r]]
  /\ issued' = issued \cup {NewId}
  /\ unused' = [unused EXCEPT ![NewId] = 0]
  /\ cookie' = [cookie EXCEPT ![r] = NewId]
  /\ age' = [age EXCEPT ![r] = 0]
  /\ To(r, "done")
  /\ UNCHANGED ended

\* Destroy, for a logout that Valid has let through.
Destroy(r) ==
  /\ stage[r] = "passed"
  /\ left' = [left EXCEPT ![cookie[r]] = Gone]
  /\ unused' = [unused EXCEPT ![cookie[r]] = Ages]
  /\ ended' = ended \cup {cookie[r]}
  /\ To(r, "done")
  /\ UNCHANGED <<issued, cookie, age>>

-----------------------------------------------------------------------------
(* The environment.                                                        *)

Capped(n) == IF n < Ages THEN n + 1 ELSE n

Tick ==
  /\ \A r \in Requests : Waits(r) => age[r] < Delay
  /\ left' = [i \in Ids |-> IF left[i] = Gone THEN Gone ELSE left[i] - 1]
  /\ unused' = [i \in Ids |-> Capped(unused[i])]
  /\ age' = [r \in Requests |-> IF Waits(r) THEN age[r] + 1 ELSE age[r]]
  /\ UNCHANGED <<issued, stage, cookie, ended>>

\* The process ends and starts again: the map is empty, requests are cut off.
Restart ==
  /\ left' = [i \in Ids |-> Gone]
  /\ unused' = [i \in Ids |-> Ages]
  /\ age' = [r \in Requests |-> 0]
  /\ stage' = [r \in Requests |->
       IF stage[r] \in {"idle", "done"} THEN stage[r] ELSE "failed"]
  /\ UNCHANGED <<issued, cookie, ended>>

Serves(r) ==
  \/ \E c \in issued \cup {NoId} : Arrives(r, c)
  \/ Leaves(r) \/ Replies(r) \/ Fails(r)
  \/ ValidStarts(r) \/ Valid(r) \/ Destroy(r)
  \/ CreateStarts(r) \/ Create(r)

Next == (\E r \in Requests : Serves(r)) \/ Tick \/ Restart

Spec == Init /\ [][Next]_vars

-----------------------------------------------------------------------------

\* Every variable has its type; no request holds a time older than Delay, and
\* only one that waits for the lock holds one.
TypeOK ==
  /\ left \in [Ids -> Gone .. TTL] /\ issued \subseteq Ids
  /\ stage \in [Requests -> {"idle", "sent", "timed", "dated", "passed", "done",
                             "failed"}]
  /\ cookie \in [Requests -> issued \cup {NoId}]
  /\ age \in [Requests -> 0 .. Delay]
  /\ unused \in [Ids -> 0 .. Ages] /\ ended \subseteq issued
  /\ \A r \in Requests : age[r] > 0 => Waits(r)
  /\ \A r \in Requests : stage[r] = "timed" => cookie[r] # NoId

\* A session that was logged out stays out: no request that was being served
\* meanwhile renews it (session.go:55-66, 69-74).
LoggedOutStaysOut == \A i \in ended : left[i] = Gone

\* A session used less than its time ago is there, whatever other requests
\* cleaned up or renewed with the times they had read: a late lock costs it at
\* most Delay (session.go:55-65, 87-93).
UsedStays == \A i \in Ids : unused[i] <= TTL - Delay => left[i] # Gone

\* A request is let through only for a session that was made or used not
\* longer than its time ago, and the delay of the one that asks.
HonouredInTime ==
  [][\A r \in Requests :
       (stage[r] = "timed" /\ stage'[r] = "passed")
         => unused[cookie[r]] <= TTL + Delay /\ cookie[r] \notin ended]_vars
=============================================================================
