---------------------------- MODULE ConfigStore ----------------------------
(***************************************************************************)
(* The encrypted configuration store (internal/config/store.go) with the   *)
(* handlers that read and change it: Open loads or generates the master    *)
(* key and reads the file; Update changes the configuration under a lock   *)
(* and saves it through a temporary file and a rename.  The process may    *)
(* end at any step and is started again; a file operation may fail.        *)
(*                                                                         *)
(* Files keep what was written when the process ends (a loss of power may  *)
(* lose more, since nothing is synced).  A file that os.WriteFile has      *)
(* created and not filled is Partial.  Encryption is modelled by what it   *)
(* does: a file opens under the key it was sealed with.                    *)
(***************************************************************************)
EXTENDS Naturals

CONSTANTS
  Handlers,  \* HTTP handlers that run the first-time setup
  Keys,      \* master keys
  Secrets,   \* webhook secrets, given or random
  Bodies,    \* the rest of a configuration
  NoConfig,  \* no configuration
  NoSecret,  \* no answer with a secret
  Absent,    \* no such file, or no key
  Partial    \* a file that exists and is not filled

\* init: AdminPasswordHash is set; secret: Jellyfin.WebhookSecret.
Config == [init : BOOLEAN, secret : Secrets, body : Bodies]

\* encryptedFile: the configuration, sealed with a key.
Sealed == [by : Keys, cfg : Config]

\* publicConfig's copy, as far as the secret; changed is history: another secret
\* has been saved since the copy was taken.
Copies == [secret : Secrets, changed : BOOLEAN]
CopyOf(c) == [secret |-> c.secret, changed |-> FALSE]
Outdated(copy) == [copy EXCEPT !.changed = TRUE]

ASSUME StoreAssumption ==
  /\ NoConfig \notin Config
  /\ NoSecret \notin Copies
  /\ Absent \notin Keys \cup Sealed
  /\ Partial \notin Keys \cup Sealed \cup {Absent}

VARIABLES
  envKey,   \* DISWATCH_SECRET_KEY, the same at every start
  keyFile,  \* master.key
  main,     \* config.enc.json
  tmp,      \* config.enc.json.tmp
  proc,     \* how far the process is: down, in Open, or up
  key,      \* Store.key
  cfg,      \* Store.cfg
  phase,    \* how far the Update that holds the lock is, "free" if none
  op,       \* what it changes
  next,     \* its next
  checked,  \* setup handlers that found the application uninitialized
  replies,  \* copies of the configuration that handlers have yet to answer with
  shown,    \* the copy the dashboard was answered with last
  claimed   \* history: how many setups have succeeded

files == <<envKey, keyFile, main, tmp>>
lock  == <<phase, op, next>>
told  == <<replies, shown, claimed>>
vars  == <<files, proc, key, cfg, lock, checked, told>>

Init ==
  /\ envKey \in Keys \cup {Absent}
  /\ keyFile = Absent /\ main = Absent /\ tmp = Absent
  /\ proc = "down" /\ key = Absent /\ cfg = NoConfig
  /\ phase = "free" /\ op = "none" /\ next = NoConfig
  /\ checked = {} /\ replies = {} /\ shown = NoSecret /\ claimed = 0

-----------------------------------------------------------------------------
(* Open.                                                                   *)

\* loadMasterKey: the environment's key, the file's, or else a random one.
\* It refuses a key file that is not whole, and the process exits.
OpenReadsKey ==
  /\ proc = "down"
  /\ \/ envKey # Absent /\ key' = envKey /\ proc' = "load"
     \/ envKey = Absent /\ keyFile \in Keys /\ key' = keyFile /\ proc' = "load"
     \/ envKey = Absent /\ keyFile = Absent /\ key' \in Keys /\ proc' = "newKey"
  /\ UNCHANGED <<files, cfg, lock, checked, told>>

\* Mutant of KeyCreated: the new key is used and never written.
KeyKeptInMemory ==
  /\ proc = "newKey"
  /\ proc' = "load"
  /\ UNCHANGED <<files, key, cfg, lock, checked, told>>

\* os.WriteFile of the new key: the file is created, then filled.
KeyCreated ==
  /\ proc = "newKey"
  /\ keyFile' = Partial /\ proc' = "writeKey"
  /\ UNCHANGED <<envKey, main, tmp, key, cfg, lock, checked, told>>

KeyWritten ==
  /\ proc = "writeKey"
  /\ keyFile' = key /\ proc' = "load"
  /\ UNCHANGED <<envKey, main, tmp, key, cfg, lock, checked, told>>

\* Default: no password, a random secret.
Defaults == {c \in Config : ~c.init}

\* load: no file, or one that opens under the key.  Normalize keeps what Update
\* has normalized, but for the end of a button's label (ConfigSchema).
Load ==
  /\ proc = "load" /\ main # Partial
  /\ main # Absent => main.by = key
  /\ cfg' \in IF main = Absent THEN Defaults ELSE {main.cfg}
  /\ proc' = "up"
  /\ UNCHANGED <<files, key, lock, checked, told>>

\* The process ends: what it held in memory is gone.
Ends ==
  /\ proc' = "down" /\ key' = Absent /\ cfg' = NoConfig
  /\ phase' = "free" /\ op' = "none" /\ next' = NoConfig
  /\ checked' = {} /\ replies' = {}
  /\ UNCHANGED <<files, shown, claimed>>

\* A file operation of Open fails, or the file does not open: main exits.
OpenFails == proc \in {"newKey", "writeKey", "load"} /\ Ends

\* The process is killed.
Crash == proc # "down" /\ Ends

-----------------------------------------------------------------------------
(* Handlers.                                                               *)

\* The lock is free, so Get returns and Update may start.
Unlocked == proc = "up" /\ phase = "free"

\* Mutant of Begin: the new configuration is visible before it is saved.
BeginVisible(what, c) ==
  /\ phase' = "create" /\ op' = what /\ next' = c
  /\ cfg' = c

\* Update holds the lock and has computed and normalized its next.
Begin(what, c) ==
  /\ phase' = "create" /\ op' = what /\ next' = c
  /\ cfg' = cfg

\* setup's own test, before the request is decoded.
SetupChecks(h) ==
  /\ Unlocked /\ ~cfg.init /\ h \notin checked
  /\ checked' = checked \cup {h}
  /\ UNCHANGED <<files, proc, key, cfg, lock, told>>

\* Mutant of SetupUpdates: it relies on the handler's test.
SetupUpdatesUnchecked(h) ==
  /\ Unlocked /\ h \in checked
  /\ checked' = checked \ {h}
  /\ Begin("setup", [cfg EXCEPT !.init = TRUE])
  /\ UNCHANGED <<files, proc, key, told>>

\* App.Setup: the test again, now under the lock.
SetupUpdates(h) ==
  /\ Unlocked /\ h \in checked /\ ~cfg.init
  /\ checked' = checked \ {h}
  /\ Begin("setup", [cfg EXCEPT !.init = TRUE])
  /\ UNCHANGED <<files, proc, key, told>>

\* It is initialized by now, or the password is refused.
SetupRefused(h) ==
  /\ Unlocked /\ h \in checked
  /\ checked' = checked \ {h}
  /\ UNCHANGED <<files, proc, key, cfg, lock, told>>

\* updateConfig or switchMode, behind auth; a blank secret becomes a random one.
EditConfig ==
  /\ Unlocked /\ cfg.init
  /\ \/ \E b \in Bodies : Begin("edit", [cfg EXCEPT !.body = b])
     \/ \E b \in Bodies, s \in Secrets \ {cfg.secret} :
          Begin("secret", [cfg EXCEPT !.body = b, !.secret = s])
  /\ UNCHANGED <<files, proc, key, checked, told>>

\* Mutant of ShowConfig: the handler is not behind auth.
ShowConfigOpenly ==
  /\ Unlocked
  /\ replies' = replies \cup {CopyOf(cfg)}
  /\ UNCHANGED <<files, proc, key, cfg, lock, checked, shown, claimed>>

\* getConfig, behind auth, takes its copy under the lock.
ShowConfig ==
  /\ Unlocked /\ cfg.init
  /\ replies' = replies \cup {CopyOf(cfg)}
  /\ UNCHANGED <<files, proc, key, cfg, lock, checked, shown, claimed>>

\* writeJSON, in any order and as late as the handler's other work takes
\* (UpdateConfig asks Jellyfin first); another handler may have the same copy.
Answers(copy) ==
  /\ copy \in replies
  /\ shown' = copy
  /\ replies' \in {replies, replies \ {copy}}
  /\ UNCHANGED <<files, proc, key, cfg, lock, checked, claimed>>

-----------------------------------------------------------------------------
(* saveLocked, and the end of Update.                                      *)

\* Mutant of TmpCreated: the configuration file is written in place.
SavesInPlace ==
  /\ phase = "create"
  /\ main' = Partial /\ phase' = "write"
  /\ UNCHANGED <<envKey, keyFile, tmp, proc, key, cfg, op, next, checked, told>>

\* os.WriteFile of the temporary file: created or emptied, then filled.
TmpCreated ==
  /\ phase = "create"
  /\ tmp' = Partial /\ phase' = "write"
  /\ UNCHANGED <<envKey, keyFile, main, proc, key, cfg, op, next, checked,
                 told>>

TmpWritten ==
  /\ phase = "write"
  /\ tmp' = [by |-> key, cfg |-> next] /\ phase' = "rename"
  /\ UNCHANGED <<envKey, keyFile, main, proc, key, cfg, op, next, checked,
                 told>>

TmpRenamed ==
  /\ phase = "rename"
  /\ main' = tmp /\ tmp' = Absent /\ phase' = "publish"
  /\ IF op = "secret"
     THEN /\ replies' = {Outdated(r) : r \in replies}
          /\ shown' = IF shown = NoSecret THEN NoSecret ELSE Outdated(shown)
     ELSE UNCHANGED <<replies, shown>>
  /\ UNCHANGED <<envKey, keyFile, proc, key, cfg, op, next, checked, claimed>>

Unlock == phase' = "free" /\ op' = "none" /\ next' = NoConfig

\* saveLocked returns an error: the configuration stays as it was.
SaveFails ==
  /\ phase \in {"create", "write", "rename"}
  /\ Unlock
  /\ UNCHANGED <<files, proc, key, cfg, checked, told>>

\* s.cfg = next; updateConfig and switchMode are to answer with it.
Publish ==
  /\ phase = "publish"
  /\ cfg' = next
  /\ Unlock
  /\ replies' = IF op = "setup" THEN replies ELSE replies \cup {CopyOf(next)}
  /\ claimed' = IF op = "setup" THEN claimed + 1 ELSE claimed
  /\ UNCHANGED <<files, proc, key, checked, shown>>

-----------------------------------------------------------------------------

OpenNext == OpenReadsKey \/ KeyCreated \/ KeyWritten \/ Load \/ OpenFails

HandlerNext ==
  \/ \E h \in Handlers : SetupChecks(h) \/ SetupUpdates(h) \/ SetupRefused(h)
  \/ EditConfig \/ ShowConfig \/ \E copy \in replies : Answers(copy)

SaveNext == TmpCreated \/ TmpWritten \/ TmpRenamed \/ SaveFails \/ Publish

Next == OpenNext \/ HandlerNext \/ SaveNext \/ Crash

Spec == Init /\ [][Next]_vars

\* The process is started again whenever it ends (docker's unless-stopped), and
\* the disk does not fail every time.
FairSpec ==
  /\ Spec
  /\ WF_vars(OpenReadsKey) /\ SF_vars(KeyCreated) /\ SF_vars(KeyWritten)
  /\ SF_vars(Load)

-----------------------------------------------------------------------------

\* Every variable has its type; config.enc.json is never half written: only
\* the temporary file is (store.go:150-154).
TypeOK ==
  /\ envKey \in Keys \cup {Absent} /\ key \in Keys \cup {Absent}
  /\ keyFile \in Keys \cup {Absent, Partial}
  /\ main \in Sealed \cup {Absent} /\ tmp \in Sealed \cup {Absent, Partial}
  /\ proc \in {"down", "newKey", "writeKey", "load", "up"}
  /\ cfg \in Config \cup {NoConfig} /\ next \in Config \cup {NoConfig}
  /\ phase \in {"free", "create", "write", "rename", "publish"}
  /\ op \in {"none", "setup", "edit", "secret"}
  /\ checked \subseteq Handlers
  /\ replies \subseteq Copies
  /\ shown \in Copies \cup {NoSecret} /\ claimed \in Nat

\* The webhook secret the dashboard was answered with last works until another
\* one is saved, through failing saves, kills and restarts: the default's random
\* secret is not saved (config.go:112), but nobody is shown it before setup has
\* saved it (server.go:263-275).  Answers that were overtaken on their way by a
\* change of the secret may come last (app.go:117-126, server.go:127-145).
ShownSecretWorks ==
  (proc = "up" /\ shown # NoSecret /\ ~shown.changed) => cfg.secret = shown.secret

\* Setup succeeds at most once, however many handlers passed its first test
\* (server.go:83, app.go:98-101), and no restart offers it again.
SetupOnce ==
  /\ claimed <= 1
  /\ (claimed > 0 /\ proc = "up") => cfg.init

\* Every start finds a file that opens under the key it has come by: nothing
\* is ever sealed with a key that a later start would not find (store.go:157-189).
OpensItsFile == proc = "load" => (main = Absent \/ main.by = key)

\* What is on the disk for the next start.
Stored == IF main \in {Absent, Partial} THEN NoConfig ELSE main.cfg

Durable == INSTANCE DurableConfig WITH stored <- Stored, view <- cfg

\* The store implements the durable register: no torn, lost or resurrected
\* configuration, and nothing visible that a restart could take back.
ImplementsDurable == Durable!Spec

\* With its key on the disk, the process comes up again when it is not killed
\* all the time, whatever a kill left in the files (store.go:39-54, 78-121).
ComesBack ==
  <>[][~Crash]_vars => ((keyFile \in Keys) ~> (proc = "up"))

-----------------------------------------------------------------------------
(* What the documents say and the code does not do.                        *)

\* "DISWATCH_SECRET_KEY | (generated)" (README.md:160): without the variable
\* the program starts with a key of its own.
StartsWithoutKey == <>[][~Crash]_vars => []<>(proc = "up")
=============================================================================
