------------------------- MODULE ConfigStoreProofs -------------------------
(***************************************************************************)
(* ConfigStore for every set of handlers, keys, secrets and bodies: its    *)
(* safety properties, and that it implements DurableConfig.  All of them   *)
(* rest on one inductive invariant, StoreInv, whose parts say which key    *)
(* the process and the files have (Keyed), what the lock protects          *)
(* (Locked), how memory and disk relate (Matching), and what the outside   *)
(* has been told (Told).                                                   *)
(***************************************************************************)
EXTENDS ConfigStore, TLAPS

\* The key a start comes by is the one the files were sealed with.
Keyed ==
  /\ proc = "down" => key = Absent
  /\ proc = "newKey" => (envKey = Absent /\ keyFile = Absent /\ key \in Keys)
  /\ proc = "writeKey" => (envKey = Absent /\ keyFile = Partial /\ key \in Keys)
  /\ proc \in {"load", "up"} =>
       (key \in Keys /\ key = IF envKey = Absent THEN keyFile ELSE envKey)
  /\ main # Absent => main.by = IF envKey = Absent THEN keyFile ELSE envKey

\* The lock is held only by a process that is up, which knows what it saves.
Locked ==
  /\ proc = "up" <=> cfg # NoConfig
  /\ phase = "free" <=> op = "none"
  /\ phase # "free" => (proc = "up" /\ next \in Config)
  /\ phase = "rename" => tmp = [by |-> key, cfg |-> next]
  /\ op = "setup" => (~cfg.init /\ next.init /\ next.secret = cfg.secret)
  /\ op = "edit" => (cfg.init /\ next.init /\ next.secret = cfg.secret)
  /\ op = "secret" => (cfg.init /\ next.init)

\* Memory is what the disk has, but for an Update past its rename.
Matching ==
  /\ (proc = "up" /\ main # Absent /\ phase # "publish") => cfg = main.cfg
  /\ (proc = "up" /\ main = Absent) => ~cfg.init
  /\ phase = "publish" => (main # Absent /\ main.cfg = next)

\* A copy that was taken is of a configuration on the disk; its secret is still
\* there unless it was changed.
Holds(copy) ==
  /\ main # Absent /\ main.cfg.init
  /\ copy.changed \/ main.cfg.secret = copy.secret

\* What handlers have answered or will answer holds on the disk, and while a new
\* secret is there that memory does not have, no copy counts as unchanged.
Told ==
  /\ \A r \in replies : Holds(r)
  /\ shown # NoSecret => Holds(shown)
  /\ (phase = "publish" /\ op = "secret") =>
       /\ \A r \in replies : r.changed
       /\ shown # NoSecret => shown.changed
  /\ claimed \in {0, 1}
  /\ claimed = 1 => (main # Absent /\ main.cfg.init)
  /\ op = "setup" => claimed = 0

StoreInv == TypeOK /\ Keyed /\ Locked /\ Matching /\ Told

-----------------------------------------------------------------------------

\* The invariant holds when nothing is on the disk and nothing runs.
LEMMA StoreInit == Init => StoreInv
BY StoreAssumption
DEF Init, StoreInv, TypeOK, Keyed, Locked, Matching, Told, Holds, files, lock, told

\* Open keeps it: it changes the key and fills the memory from the disk.
LEMMA OpenStep == StoreInv /\ OpenNext /\ ~OpenFails => StoreInv'
<1> SUFFICES ASSUME StoreInv, OpenNext, ~OpenFails PROVE StoreInv'
  OBVIOUS
<1> USE StoreAssumption DEF StoreInv, TypeOK, files, lock, told
<1>1. CASE OpenReadsKey
  BY <1>1 DEF OpenReadsKey, Keyed, Locked, Matching, Told, Holds
<1>0. main # Absent => main.by \in Keys
  BY DEF Sealed
<1>2. CASE KeyCreated
  BY <1>0, <1>2 DEF KeyCreated, Keyed, Locked, Matching, Told, Holds
<1>3. CASE KeyWritten
  BY <1>0, <1>3 DEF KeyWritten, Keyed, Locked, Matching, Told, Holds
<1>4. CASE Load
  <2>1. cfg' \in Config
    BY <1>4 DEF Load, Defaults, Sealed
  <2>2. main # Absent => cfg' = main.cfg
    BY <1>4 DEF Load
  <2>3. main = Absent => ~cfg'.init
    BY <1>4 DEF Load, Defaults
  <2>4. Told'
    BY <1>4 DEF Load, Locked, Told, Holds
  <2> QED
    BY <1>4, <2>1, <2>2, <2>3, <2>4 DEF Load, Keyed, Locked, Matching
<1> QED
  BY <1>1, <1>2, <1>3, <1>4 DEF OpenNext

\* The end of the process keeps it: only memory is lost.
LEMMA EndStep == StoreInv /\ Ends => StoreInv'
<1> SUFFICES ASSUME StoreInv, Ends PROVE StoreInv'
  OBVIOUS
<1> USE StoreAssumption DEF StoreInv, TypeOK, files, lock, told, Ends
<1>1. TypeOK' /\ Keyed' /\ Locked' /\ Matching'
  BY DEF Keyed, Locked, Matching
<1>2. Told'
  BY DEF Told, Holds, Locked
<1> QED
  BY <1>1, <1>2

\* Starting an Update keeps it.
LEMMA BeginStep ==
  ASSUME StoreInv, Unlocked, NEW c \in Config, NEW what, Begin(what, c),
         UNCHANGED <<files, proc, key, told>>, checked' \subseteq Handlers,
         \/ what = "setup" /\ ~cfg.init /\ c.init /\ c.secret = cfg.secret
         \/ what = "edit" /\ cfg.init /\ c.init /\ c.secret = cfg.secret
         \/ what = "secret" /\ cfg.init /\ c.init
  PROVE  StoreInv'
<1> USE StoreAssumption DEF StoreInv, TypeOK, files, lock, told, Begin, Unlocked
<1>1. TypeOK' /\ Keyed' /\ Locked' /\ Matching'
  BY DEF Keyed, Locked, Matching
<1>2. Told'
  BY DEF Told, Holds, Locked, Matching
<1> QED
  BY <1>1, <1>2

\* Handlers keep it.
LEMMA HandlerStep == StoreInv /\ HandlerNext => StoreInv'
<1> SUFFICES ASSUME StoreInv, HandlerNext PROVE StoreInv'
  OBVIOUS
<1>0. Unlocked => cfg \in Config
  BY DEF StoreInv, TypeOK, Locked, Unlocked
<1>1. ASSUME NEW h \in Handlers, SetupChecks(h) \/ SetupRefused(h) PROVE StoreInv'
  BY <1>1, StoreAssumption DEF StoreInv, TypeOK, files, lock, told, SetupChecks,
     SetupRefused, Keyed, Locked, Matching, Told, Holds
<1>2. ASSUME NEW h \in Handlers, SetupUpdates(h) PROVE StoreInv'
  <2> DEFINE c == [cfg EXCEPT !.init = TRUE]
  <2>1. c \in Config /\ c.init /\ c.secret = cfg.secret
    BY <1>0, <1>2 DEF SetupUpdates, Config
  <2>2. Unlocked /\ Begin("setup", c) /\ ~cfg.init /\ checked' \subseteq Handlers
    BY <1>2 DEF SetupUpdates, StoreInv, TypeOK
  <2>3. UNCHANGED <<files, proc, key, told>>
    BY <1>2 DEF SetupUpdates
  <2> HIDE DEF c
  <2> QED
    BY <2>1, <2>2, <2>3, BeginStep
<1>3. CASE EditConfig
  <2>1. Unlocked /\ cfg.init /\ checked' \subseteq Handlers
    BY <1>3 DEF EditConfig, StoreInv, TypeOK
  <2>2. UNCHANGED <<files, proc, key, told>>
    BY <1>3 DEF EditConfig
  <2>3. ASSUME NEW b \in Bodies, Begin("edit", [cfg EXCEPT !.body = b])
        PROVE  StoreInv'
    <3> DEFINE c == [cfg EXCEPT !.body = b]
    <3>1. c \in Config /\ c.init /\ c.secret = cfg.secret
      BY <1>0, <2>1 DEF Config
    <3> HIDE DEF c
    <3> QED
      BY <2>1, <2>2, <2>3, <3>1, BeginStep DEF c
  <2>4. ASSUME NEW b \in Bodies, NEW s \in Secrets,
               Begin("secret", [cfg EXCEPT !.body = b, !.secret = s])
        PROVE  StoreInv'
    <3> DEFINE c == [cfg EXCEPT !.body = b, !.secret = s]
    <3>1. c \in Config /\ c.init
      BY <1>0, <2>1 DEF Config
    <3> HIDE DEF c
    <3> QED
      BY <2>1, <2>2, <2>4, <3>1, BeginStep DEF c
  <2> QED
    BY <1>3, <2>3, <2>4 DEF EditConfig
<1>4. CASE ShowConfig
  <2>1. cfg \in Config /\ cfg.init /\ main # Absent /\ cfg = main.cfg
    BY <1>0, <1>4 DEF ShowConfig, Unlocked, StoreInv, Matching
  <2>2. replies' = replies \cup {CopyOf(cfg)}
    BY <1>4 DEF ShowConfig
  <2>3. CopyOf(cfg) \in Copies /\ Holds(CopyOf(cfg))
    BY <2>1 DEF Config, Copies, CopyOf, Holds
  <2>4. UNCHANGED <<files, proc, key, cfg, lock, checked, shown, claimed>>
    BY <1>4 DEF ShowConfig
  <2>5. phase = "free"
    BY <1>4 DEF ShowConfig, Unlocked
  <2>6. TypeOK' /\ Keyed' /\ Locked' /\ Matching'
    BY <2>2, <2>3, <2>4 DEF StoreInv, TypeOK, files, lock, Keyed, Locked, Matching
  <2>7. Told'
    BY <2>2, <2>3, <2>4, <2>5 DEF StoreInv, files, lock, Told, Holds
  <2> QED
    BY <2>6, <2>7 DEF StoreInv
<1>5. ASSUME NEW copy \in replies, Answers(copy) PROVE StoreInv'
  <2>1. copy \in Copies /\ Holds(copy) /\ shown' = copy /\ replies' \subseteq replies
    BY <1>5 DEF Answers, StoreInv, TypeOK, Told
  <2>2. UNCHANGED <<files, proc, key, cfg, lock, checked, claimed>>
    BY <1>5 DEF Answers
  <2>3. TypeOK' /\ Keyed' /\ Locked' /\ Matching'
    BY <2>1, <2>2 DEF StoreInv, TypeOK, files, lock, Keyed, Locked, Matching
  <2>4. Told'
    BY <2>1, <2>2 DEF StoreInv, files, lock, Told, Holds
  <2> QED
    BY <2>3, <2>4 DEF StoreInv
<1> QED
  BY <1>1, <1>2, <1>3, <1>4, <1>5 DEF HandlerNext

\* Saving keeps it.
LEMMA SaveStep == StoreInv /\ SaveNext => StoreInv'
<1> SUFFICES ASSUME StoreInv, SaveNext PROVE StoreInv'
  OBVIOUS
<1> USE StoreAssumption DEF StoreInv, TypeOK, files, lock, told
<1>1. CASE TmpCreated
  BY <1>1 DEF TmpCreated, Keyed, Locked, Matching, Told, Holds
<1>2. CASE TmpWritten
  <2>1. tmp' \in Sealed
    BY <1>2 DEF TmpWritten, Locked, Keyed, Sealed
  <2> QED
    BY <1>2, <2>1 DEF TmpWritten, Keyed, Locked, Matching, Told, Holds
<1>3. CASE TmpRenamed
  <2>1. main' = [by |-> key, cfg |-> next] /\ main' \in Sealed
    BY <1>3 DEF TmpRenamed, Locked, Keyed, Sealed
  <2>2. main'.by = key /\ main'.cfg = next /\ main' # Absent
    BY <2>1
  <2>3. Keyed' /\ Locked' /\ Matching'
    BY <1>3, <2>1, <2>2 DEF TmpRenamed, Keyed, Locked, Matching
  <2>4. next.init /\ (op # "secret" => next.secret = cfg.secret)
    BY <1>3 DEF TmpRenamed, Locked
  <2>5. main # Absent => cfg = main.cfg
    BY <1>3 DEF TmpRenamed, Locked, Matching
  <2>6. claimed \in {0, 1} /\ (op = "setup" => claimed = 0)
    BY DEF Told
  <2>7. CASE op = "secret"
    <3>1. /\ replies' = {Outdated(r) : r \in replies}
          /\ shown' = IF shown = NoSecret THEN NoSecret ELSE Outdated(shown)
      BY <1>3, <2>7 DEF TmpRenamed
    <3>2. \A r \in Copies : Outdated(r) \in Copies /\ Outdated(r).changed
      BY DEF Outdated, Copies
    <3>3. TypeOK'
      BY <1>3, <2>1, <3>1, <3>2 DEF TmpRenamed
    <3>4. /\ \A r \in replies' : r.changed
          /\ shown' # NoSecret => shown'.changed
      BY <3>1, <3>2
    <3>5. Told'
      BY <1>3, <2>2, <2>4, <2>6, <2>7, <3>4 DEF TmpRenamed, Told, Holds
    <3> QED
      BY <2>3, <3>3, <3>5
  <2>8. CASE op # "secret"
    <3>1. UNCHANGED <<replies, shown>>
      BY <1>3, <2>8 DEF TmpRenamed
    <3>2. TypeOK'
      BY <1>3, <2>1, <3>1 DEF TmpRenamed
    <3>3. ASSUME NEW copy, Holds(copy) PROVE Holds(copy)'
      BY <2>2, <2>4, <2>5, <2>8, <3>3 DEF Holds
    <3>4. Told'
      BY <1>3, <2>2, <2>4, <2>6, <2>8, <3>1, <3>3 DEF TmpRenamed, Told
    <3> QED
      BY <2>3, <3>2, <3>4
  <2> QED
    BY <2>7, <2>8
<1>4. CASE SaveFails
  BY <1>4 DEF SaveFails, Unlock, Keyed, Locked, Matching, Told, Holds
<1>5. CASE Publish
  <2>1. next \in Config /\ main # Absent /\ main.cfg = next /\ next.init
    BY <1>5 DEF Publish, Locked, Matching
  <2>2. next.secret \in Secrets
    BY <2>1 DEF Config
  <2>3. op = "setup" => claimed = 0
    BY DEF Told
  <2>4. CopyOf(next) \in Copies /\ Holds(CopyOf(next))
    BY <2>1, <2>2 DEF Copies, CopyOf, Holds
  <2>5. TypeOK' /\ Keyed' /\ Locked' /\ Matching'
    BY <1>5, <2>1, <2>4 DEF Publish, Unlock, Told, Keyed, Locked, Matching
  <2>6. Told'
    BY <1>5, <2>1, <2>3, <2>4 DEF Publish, Unlock, Told, Holds
  <2> QED
    BY <2>5, <2>6
<1> QED
  BY <1>1, <1>2, <1>3, <1>4, <1>5 DEF SaveNext

\* StoreInv is inductive.
LEMMA StoreStep == StoreInv /\ [Next]_vars => StoreInv'
<1> SUFFICES ASSUME StoreInv, [Next]_vars PROVE StoreInv'
  OBVIOUS
<1>1. CASE OpenNext /\ ~OpenFails
  BY <1>1, OpenStep
<1>2. CASE OpenFails \/ Crash
  BY <1>2, EndStep DEF OpenFails, Crash
<1>3. CASE HandlerNext
  BY <1>3, HandlerStep
<1>4. CASE SaveNext
  BY <1>4, SaveStep
<1>5. CASE UNCHANGED vars
  BY <1>5 DEF vars, files, lock, told, StoreInv, TypeOK, Keyed, Locked, Matching, Told, Holds
<1> QED
  BY <1>1, <1>2, <1>3, <1>4, <1>5 DEF Next

LEMMA StoreInvariant == Spec => []StoreInv
BY StoreInit, StoreStep, PTL DEF Spec

-----------------------------------------------------------------------------

\* The variables keep their types: config.enc.json is never half written.
THEOREM StoreTyped == Spec => []TypeOK
<1>1. StoreInv => TypeOK
  BY DEF StoreInv
<1> QED
  BY <1>1, StoreInvariant, PTL

\* The secret the dashboard was answered with last, however late the answer
\* came, works until another one is saved.
THEOREM SecretKept == Spec => []ShownSecretWorks
<1>1. StoreInv => ShownSecretWorks
  <2> SUFFICES ASSUME StoreInv, proc = "up", shown # NoSecret, ~shown.changed
               PROVE  cfg.secret = shown.secret
    BY DEF ShownSecretWorks
  <2>1. main # Absent /\ main.cfg.secret = shown.secret
    BY DEF StoreInv, Told, Holds
  <2>2. CASE phase = "publish"
    <3>1. op # "secret" /\ op # "none" /\ main.cfg = next
      BY <2>2 DEF StoreInv, Told, Locked, Matching
    <3>2. next.secret = cfg.secret
      BY <3>1 DEF StoreInv, TypeOK, Locked
    <3> QED
      BY <2>1, <3>1, <3>2
  <2>3. CASE phase # "publish"
    BY <2>1, <2>3 DEF StoreInv, Matching
  <2> QED
    BY <2>2, <2>3
<1> QED
  BY <1>1, StoreInvariant, PTL

\* Setup succeeds once at most, and for good.
THEOREM SetupSucceedsOnce == Spec => []SetupOnce
<1>1. StoreInv => SetupOnce
  <2> SUFFICES ASSUME StoreInv PROVE SetupOnce
    OBVIOUS
  <2>1. claimed \in {0, 1} /\ claimed <= 1
    BY DEF StoreInv, Told
  <2>2. (claimed > 0 /\ proc = "up") => cfg.init
    <3> SUFFICES ASSUME claimed > 0, proc = "up" PROVE cfg.init
      OBVIOUS
    <3>1. claimed = 1
      BY <2>1
    <3>2. main # Absent /\ main.cfg.init /\ op # "setup"
      BY <3>1 DEF StoreInv, Told
    <3>3. CASE phase = "publish"
      BY <3>2, <3>3 DEF StoreInv, TypeOK, Locked
    <3>4. CASE phase # "publish"
      BY <3>2, <3>4 DEF StoreInv, Matching
    <3> QED
      BY <3>3, <3>4
  <2> QED
    BY <2>1, <2>2 DEF SetupOnce
<1> QED
  BY <1>1, StoreInvariant, PTL

\* No start meets a file it cannot open.
THEOREM EveryStartOpens == Spec => []OpensItsFile
<1>1. StoreInv => OpensItsFile
  BY DEF StoreInv, Keyed, OpensItsFile
<1> QED
  BY <1>1, StoreInvariant, PTL

-----------------------------------------------------------------------------

\* Stored when the file is there and when it is not.
LEMMA StoredIs ==
  ASSUME StoreInv
  PROVE  /\ main = Absent => Stored = NoConfig
         /\ main # Absent => (Stored = main.cfg /\ Stored \in Config
                              /\ Stored # NoConfig)
BY StoreAssumption DEF StoreInv, TypeOK, Stored, Sealed

\* Every step of the store is a step of the durable register or none at all:
\* the rename writes, Publish publishes, Load recovers, the end loses.
LEMMA RefinesStep ==
  ASSUME StoreInv, StoreInv', [Next]_vars
  PROVE  [Durable!Next]_Durable!vars
<1> USE DEF files, lock, told
<1>a. UNCHANGED <<main, cfg>> => UNCHANGED Durable!vars
  BY DEF Stored, Durable!vars
<1>1. CASE Ends
  BY <1>1 DEF Ends, Stored, Durable!Next, Durable!Lose
<1>2. CASE Load
  <2>1. proc # "up" /\ cfg = NoConfig
    BY <1>2 DEF Load, StoreInv, Locked
  <2>2. Stored' = Stored
    BY <1>2 DEF Load, Stored
  <2>3. cfg' \in IF Stored = NoConfig THEN {c \in Config : ~c.init} ELSE {Stored}
    BY <1>2, StoredIs DEF Load, Defaults
  <2> QED
    BY <2>1, <2>2, <2>3 DEF Durable!Next, Durable!Recover
<1>3. CASE TmpRenamed
  <2>1. main' = [by |-> key, cfg |-> next] /\ next \in Config
    BY <1>3 DEF TmpRenamed, StoreInv, Locked
  <2>2. main'.cfg = next /\ main' # Absent
    BY <2>1, <1>3, StoreAssumption DEF StoreInv, Matching, TmpRenamed
  <2>3. Stored' = next
    BY <2>2, StoreAssumption DEF StoreInv, TypeOK, Stored
  <2>4. cfg # NoConfig /\ cfg' = cfg /\ next.init
    BY <1>3 DEF TmpRenamed, StoreInv, TypeOK, Locked
  <2>5. Stored # NoConfig => cfg = Stored
    BY <1>3, StoredIs DEF TmpRenamed, StoreInv, Matching, Locked
  <2> QED
    BY <2>1, <2>3, <2>4, <2>5 DEF Durable!Next, Durable!Write
<1>4. CASE Publish
  <2>1. main # Absent /\ main.cfg = next /\ proc = "up" /\ cfg # NoConfig
    BY <1>4 DEF Publish, StoreInv, Matching, Locked
  <2>2. Stored = next /\ Stored # NoConfig /\ cfg' = next
    BY <1>4, <2>1, StoredIs DEF Publish
  <2>3. Stored' = Stored
    BY <1>4 DEF Publish, Stored
  <2> QED
    BY <2>1, <2>2, <2>3 DEF Durable!Next, Durable!Publish
<1>5. CASE \/ OpenReadsKey \/ KeyCreated \/ KeyWritten
           \/ HandlerNext
           \/ TmpCreated \/ TmpWritten \/ SaveFails
           \/ UNCHANGED vars
  BY <1>5, <1>a DEF OpenReadsKey, KeyCreated, KeyWritten, HandlerNext,
     SetupChecks, SetupUpdates, SetupRefused, EditConfig, ShowConfig, Answers, Begin,
     TmpCreated, TmpWritten, SaveFails, vars
<1> QED
  BY <1>1, <1>2, <1>3, <1>4, <1>5
  DEF Next, OpenNext, SaveNext, OpenFails, Crash

\* The store implements the durable register.
THEOREM StoreImplementsDurable == Spec => ImplementsDurable
<1>1. Init => Durable!Init
  BY DEF Init, Durable!Init, Stored
<1>2. StoreInv /\ StoreInv' /\ [Next]_vars => [Durable!Next]_Durable!vars
  BY RefinesStep
<1> QED
  BY <1>1, <1>2, StoreInvariant, PTL DEF Spec, ImplementsDurable, Durable!Spec
=============================================================================
