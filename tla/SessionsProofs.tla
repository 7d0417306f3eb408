--------------------------- MODULE SessionsProofs ---------------------------
(***************************************************************************)
(* Sessions for every number of requests and identifiers, every TTL and    *)
(* Delay.  What the properties rest on is AgeInv: what the map holds of an *)
(* identifier and the ticks since it was used add up to the TTL, but for   *)
(* what a request lost between reading the clock and its lock.  From below *)
(* this keeps a session alive, from above it lets it end.                  *)
(***************************************************************************)
EXTENDS Sessions, TLAPS

\* An identifier that is alive was used at most TTL - left ticks ago.
AgeAbove == \A i \in Ids : left[i] # Gone => left[i] + unused[i] <= TTL

\* An identifier in use has lost at most Delay of its time.
AgeBelow ==
  \A i \in Ids : unused[i] <= TTL - Delay => left[i] + unused[i] >= TTL - Delay

AgeInv == AgeAbove /\ AgeBelow

\* Who was let through has a cookie.
PassedInv == \A r \in Requests : stage[r] = "passed" => cookie[r] # NoId

Inv == TypeOK /\ PassedInv /\ LoggedOutStaysOut /\ AgeInv

-----------------------------------------------------------------------------

LEMMA InitInv == Init => Inv
<1> SUFFICES ASSUME Init PROVE Inv
  OBVIOUS
<1> USE SessionsAssumption DEF Init, Gone, Ages
<1>1. TypeOK
  BY DEF TypeOK
<1>2. PassedInv /\ LoggedOutStaysOut
  BY DEF PassedInv, LoggedOutStaysOut
<1>3. AgeInv
  BY DEF AgeInv, AgeAbove, AgeBelow
<1> QED
  BY <1>1, <1>2, <1>3 DEF Inv

\* A time read a ticks ago takes no identifier that is alive now, and brings
\* none back.
LEMMA CleanedKeeps ==
  ASSUME TypeOK, NEW a \in 0 .. Delay
  PROVE  /\ Cleaned(a) \in [Ids -> Gone .. TTL]
         /\ \A i \in Ids : left[i] >= 0 => Cleaned(a)[i] = left[i]
         /\ \A i \in Ids : Cleaned(a)[i] # Gone
              => Cleaned(a)[i] = left[i] /\ left[i] >= -a
BY SessionsAssumption DEF TypeOK, Cleaned, Gone

\* The steps of a request outside the lock touch no session.
LEMMA OutsideKeeps ==
  ASSUME Inv, NEW r \in Requests,
         \/ \E c \in issued \cup {NoId} : Arrives(r, c)
         \/ Leaves(r) \/ Replies(r) \/ Fails(r) \/ ValidStarts(r) \/ CreateStarts(r)
  PROVE  Inv'
<1> USE SessionsAssumption
    DEF Inv, TypeOK, PassedInv, sessions, To, Waits
<1>1. UNCHANGED sessions
  BY DEF Arrives, Leaves, Replies, Fails, ValidStarts, CreateStarts
<1>2. LoggedOutStaysOut' /\ AgeInv'
  BY <1>1 DEF LoggedOutStaysOut, AgeInv, AgeAbove, AgeBelow
<1>3. CASE \E c \in issued \cup {NoId} : Arrives(r, c)
  BY <1>1, <1>2, <1>3 DEF Arrives
<1>4. CASE Leaves(r)
  BY <1>1, <1>2, <1>4 DEF Leaves
<1>5. CASE Replies(r)
  BY <1>1, <1>2, <1>5 DEF Replies
<1>6. CASE Fails(r)
  BY <1>1, <1>2, <1>6 DEF Fails
<1>7. CASE ValidStarts(r) \/ CreateStarts(r)
  BY <1>1, <1>2, <1>7 DEF ValidStarts, CreateStarts
<1> QED
  BY <1>3, <1>4, <1>5, <1>6, <1>7

LEMMA ValidKeeps ==
  ASSUME Inv, NEW r \in Requests, Valid(r)
  PROVE  Inv'
<1> DEFINE id   == cookie[r]
           kept == Cleaned(age[r])
<1>1. /\ id \in Ids /\ age[r] \in 0 .. Delay /\ stage[r] = "timed"
      /\ left' = [kept EXCEPT ![id] = IF kept[id] = Gone THEN Gone ELSE TTL - age[r]]
  BY DEF Inv, TypeOK, Valid, Renewed
<1>2. /\ kept \in [Ids -> Gone .. TTL]
      /\ \A i \in Ids : left[i] >= 0 => kept[i] = left[i]
      /\ \A i \in Ids : kept[i] # Gone => kept[i] = left[i] /\ left[i] >= -age[r]
  BY <1>1, CleanedKeeps DEF Inv
<1> HIDE DEF kept
<1>3. left' \in [Ids -> Gone .. TTL]
  BY <1>1, <1>2, SessionsAssumption DEF Gone
<1>4. /\ unused' = IF left'[id] # Gone THEN [unused EXCEPT ![id] = 0] ELSE unused
      /\ stage' = [stage EXCEPT ![r] = IF left'[id] # Gone THEN "passed" ELSE "failed"]
      /\ age' = [age EXCEPT ![r] = 0] /\ UNCHANGED <<issued, cookie, ended>>
  BY DEF Valid, To
<1>5. TypeOK'
  BY <1>1, <1>3, <1>4, SessionsAssumption DEF Inv, TypeOK, Waits, Ages
<1>6. PassedInv'
  BY <1>1, <1>4, SessionsAssumption DEF Inv, TypeOK, PassedInv
<1>7. LoggedOutStaysOut'
  <2> SUFFICES ASSUME NEW i \in ended PROVE left'[i] = Gone
    BY <1>4 DEF LoggedOutStaysOut
  <2>1. i \in Ids /\ left[i] = Gone
    BY DEF Inv, TypeOK, LoggedOutStaysOut
  <2>2. kept[i] = Gone
    BY <1>2, <2>1
  <2> QED
    BY <1>1, <1>2, <2>1, <2>2
<1>8. ASSUME NEW i \in Ids
      PROVE  /\ left'[i] # Gone => left'[i] + unused'[i] <= TTL
             /\ unused'[i] <= TTL - Delay => left'[i] + unused'[i] >= TTL - Delay
  <2>1. /\ left[i] \in Gone .. TTL /\ unused[i] \in 0 .. Ages
        /\ left[i] # Gone => left[i] + unused[i] <= TTL
        /\ unused[i] <= TTL - Delay => left[i] + unused[i] >= TTL - Delay
    BY DEF Inv, TypeOK, AgeInv, AgeAbove, AgeBelow
  <2>2. kept[i] = Gone \/ kept[i] = left[i]
    BY <1>2
  <2>3. CASE kept[i] = Gone
    <3>1. left'[i] = Gone /\ unused'[i] = unused[i] /\ ~(left[i] >= 0)
      BY <1>1, <1>2, <1>4, <2>1, <2>3, SessionsAssumption DEF Inv, TypeOK, Gone
    <3> QED
      BY <2>1, <3>1, SessionsAssumption DEF Gone, Ages
  <2>4. CASE kept[i] = left[i] /\ left[i] # Gone /\ i # id
    BY <1>1, <1>2, <1>4, <2>1, <2>4 DEF Inv, TypeOK
  <2>5. CASE kept[i] # Gone /\ i = id
    <3>1. left'[i] = TTL - age[r] /\ unused'[i] = 0
      BY <1>1, <1>2, <1>4, <2>5, SessionsAssumption DEF Inv, TypeOK, Gone
    <3> QED
      BY <1>1, <3>1, SessionsAssumption
  <2> QED
    BY <2>2, <2>3, <2>4, <2>5
<1> QED
  BY <1>5, <1>6, <1>7, <1>8 DEF Inv, AgeInv, AgeAbove, AgeBelow

LEMMA CreateKeeps ==
  ASSUME Inv, NEW r \in Requests, Create(r)
  PROVE  Inv'
<1> DEFINE kept == Cleaned(0)
<1>1. NewId \in Ids \ issued
  BY DEF Create, NewId, Inv, TypeOK
<1>2. /\ kept \in [Ids -> Gone .. TTL]
      /\ \A i \in Ids : left[i] >= 0 => kept[i] = left[i]
      /\ \A i \in Ids : kept[i] # Gone => kept[i] = left[i]
  BY CleanedKeeps, SessionsAssumption DEF Inv
<1> HIDE DEF kept
<1>3. /\ age[r] \in 0 .. Delay
      /\ left' = [kept EXCEPT ![NewId] = TTL - age[r]]
      /\ issued' = issued \cup {NewId} /\ unused' = [unused EXCEPT ![NewId] = 0]
      /\ cookie' = [cookie EXCEPT ![r] = NewId] /\ age' = [age EXCEPT ![r] = 0]
      /\ stage' = [stage EXCEPT ![r] = "done"] /\ ended' = ended
  BY DEF Create, To, Inv, TypeOK, kept
<1>4. left' \in [Ids -> Gone .. TTL]
  BY <1>1, <1>2, <1>3, SessionsAssumption DEF Gone
<1>5. TypeOK'
  BY <1>1, <1>3, <1>4, SessionsAssumption DEF Inv, TypeOK, Waits, Ages
<1>6. PassedInv'
  BY <1>1, <1>3, SessionsAssumption DEF Inv, TypeOK, PassedInv
<1>7. LoggedOutStaysOut'
  BY <1>1, <1>2, <1>3 DEF Inv, TypeOK, LoggedOutStaysOut
<1>8. ASSUME NEW i \in Ids
      PROVE  /\ left'[i] # Gone => left'[i] + unused'[i] <= TTL
             /\ unused'[i] <= TTL - Delay => left'[i] + unused'[i] >= TTL - Delay
  <2>1. /\ left[i] \in Gone .. TTL /\ unused[i] \in 0 .. Ages
        /\ left[i] # Gone => left[i] + unused[i] <= TTL
        /\ unused[i] <= TTL - Delay => left[i] + unused[i] >= TTL - Delay
    BY DEF Inv, TypeOK, AgeInv, AgeAbove, AgeBelow
  <2>2. CASE i = NewId
    <3>1. left'[i] = TTL - age[r] /\ unused'[i] = 0
      BY <1>2, <1>3, <2>2 DEF Inv, TypeOK
    <3> QED
      BY <1>3, <3>1, SessionsAssumption
  <2>3. CASE i # NewId
    <3>1. left'[i] = kept[i] /\ unused'[i] = unused[i]
      BY <1>1, <1>2, <1>3, <2>3 DEF Inv, TypeOK
    <3> QED
      BY <1>2, <2>1, <3>1, SessionsAssumption DEF Gone
  <2> QED
    BY <2>2, <2>3
<1> QED
  BY <1>5, <1>6, <1>7, <1>8 DEF Inv, AgeInv, AgeAbove, AgeBelow

LEMMA DestroyKeeps ==
  ASSUME Inv, NEW r \in Requests, Destroy(r)
  PROVE  Inv'
<1> USE SessionsAssumption DEF Inv, TypeOK, Destroy, To
<1>1. cookie[r] \in issued /\ cookie[r] \in Ids
  BY DEF PassedInv
<1>2. TypeOK' /\ PassedInv' /\ LoggedOutStaysOut'
  BY <1>1 DEF PassedInv, LoggedOutStaysOut, Waits, Gone, Ages
<1>3. AgeInv'
  BY <1>1 DEF AgeInv, AgeAbove, AgeBelow, Gone, Ages
<1> QED
  BY <1>2, <1>3

LEMMA TickKeeps == Inv /\ Tick => Inv'
<1> SUFFICES ASSUME Inv, Tick PROVE Inv'
  OBVIOUS
<1> USE SessionsAssumption DEF Inv, TypeOK, Tick, Capped, Gone, Ages
<1>1. TypeOK'
  <2>1. left' \in [Ids -> Gone .. TTL] /\ unused' \in [Ids -> 0 .. Ages]
    OBVIOUS
  <2>2. age' \in [Requests -> 0 .. Delay]
    OBVIOUS
  <2>3. \A q \in Requests : age'[q] > 0 => Waits(q)'
    BY DEF Waits
  <2> QED
    BY <2>1, <2>2, <2>3
<1>2. PassedInv' /\ LoggedOutStaysOut'
  BY DEF PassedInv, LoggedOutStaysOut
<1>3. AgeInv'
  BY DEF AgeInv, AgeAbove, AgeBelow
<1> QED
  BY <1>1, <1>2, <1>3

LEMMA RestartKeeps == Inv /\ Restart => Inv'
<1> SUFFICES ASSUME Inv, Restart PROVE Inv'
  OBVIOUS
<1> USE SessionsAssumption DEF Inv, TypeOK, Restart, Gone, Ages
<1>1. TypeOK' /\ PassedInv' /\ LoggedOutStaysOut'
  BY DEF PassedInv, LoggedOutStaysOut, Waits
<1>2. AgeInv'
  BY DEF AgeInv, AgeAbove, AgeBelow
<1> QED
  BY <1>1, <1>2

LEMMA StepInv == Inv /\ [Next]_vars => Inv'
<1> SUFFICES ASSUME Inv, [Next]_vars PROVE Inv'
  OBVIOUS
<1>1. CASE UNCHANGED vars
  BY <1>1 DEF Inv, TypeOK, PassedInv, LoggedOutStaysOut, AgeInv, AgeAbove,
    AgeBelow, vars, sessions, serving, Waits
<1>2. ASSUME NEW r \in Requests, Serves(r) PROVE Inv'
  BY <1>2, OutsideKeeps, ValidKeeps, CreateKeeps, DestroyKeeps DEF Serves
<1>3. CASE Tick
  BY <1>3, TickKeeps
<1>4. CASE Restart
  BY <1>4, RestartKeeps
<1> QED
  BY <1>1, <1>2, <1>3, <1>4 DEF Next

\* Only Valid lets a request through.
LEMMA ValidLets ==
  ASSUME [Next]_vars, TypeOK, NEW r \in Requests, stage[r] = "timed",
         stage'[r] = "passed"
  PROVE  Valid(r)
BY DEF Next, vars, serving, Serves, Arrives, Leaves, Replies, Fails, ValidStarts,
  CreateStarts, Valid, Create, Destroy, Tick, Restart, To, TypeOK

\* What AgeBelow promises of a session in use.
LEMMA AliveInUse == Inv => UsedStays
BY SessionsAssumption DEF Inv, TypeOK, AgeInv, AgeBelow, UsedStays, Gone

LEMMA PassedInTime ==
  ASSUME Inv, [Next]_vars, NEW r \in Requests, stage[r] = "timed",
         stage'[r] = "passed"
  PROVE  unused[cookie[r]] <= TTL + Delay /\ cookie[r] \notin ended
<1>1. Valid(r) /\ cookie[r] \in Ids /\ age[r] \in 0 .. Delay
  BY ValidLets DEF Inv, TypeOK
<1>2. /\ Cleaned(age[r]) \in [Ids -> Gone .. TTL]
      /\ Cleaned(age[r])[cookie[r]] # Gone
           => left[cookie[r]] # Gone /\ left[cookie[r]] >= -age[r]
  BY <1>1, CleanedKeeps, SessionsAssumption DEF Inv, Gone
<1>3. Cleaned(age[r])[cookie[r]] # Gone
  BY <1>1, <1>2 DEF Valid, Renewed, To, Inv, TypeOK
<1>4. left[cookie[r]] + unused[cookie[r]] <= TTL
  BY <1>1, <1>2, <1>3 DEF Inv, AgeInv, AgeAbove
<1> QED
  BY <1>1, <1>2, <1>3, <1>4, SessionsAssumption
    DEF Inv, TypeOK, LoggedOutStaysOut, Gone, Ages

-----------------------------------------------------------------------------

\* Inv holds in every behaviour.
THEOREM SessionsInv == Spec => []Inv
BY InitInv, StepInv, PTL DEF Spec

\* The types (session.go:13-24).
THEOREM SessionsTyped == Spec => []TypeOK
BY SessionsInv, PTL DEF Inv

\* A session that was logged out stays out (session.go:55-66, 69-74).
THEOREM SessionsLoggedOut == Spec => []LoggedOutStaysOut
BY SessionsInv, PTL DEF Inv

\* A session in use is there, whatever times others had read (session.go:55-65).
THEOREM SessionsUsed == Spec => []UsedStays
BY SessionsInv, AliveInUse, PTL

\* A request is let through only in the time of its session
\* (session.go:55-65, 85-91).
THEOREM SessionsHonoured == Spec => HonouredInTime
<1>1. Inv /\ [Next]_vars =>
        [\A r \in Requests :
           (stage[r] = "timed" /\ stage'[r] = "passed")
             => unused[cookie[r]] <= TTL + Delay /\ cookie[r] \notin ended]_vars
  BY PassedInTime
<1> QED
  BY <1>1, SessionsInv, PTL DEF Spec, HonouredInTime
=============================================================================
