----------------------------- MODULE Credentials -----------------------------
(***************************************************************************)
(* The vault, the redactor's registry of literals and the inventory of     *)
(* servers, under the operator's handlers that touch several of them:      *)
(* unlocking, adding a server with its credential, removing one.  The      *)
(* command line edits the vault file from another process, a ticker locks  *)
(* an idle vault, every write of a file can fail, the daemon can restart.  *)
(***************************************************************************)
EXTENDS Naturals, FiniteSets, Functions

CONSTANTS
    Handlers,      \* concurrent requests of the operator
    Names,         \* names of servers, and of their vault entries
    Secrets,       \* values of secrets
    NoSecret, NoHandler,
    AttemptLimit,  \* unlockAttemptLimit
    LiteralCap,    \* maxLiteralCount
    MaxServers,    \* maxServerInventory
    MaxSaveFaults, \* bound: failing writes
    MaxRestarts    \* bound: restarts of the daemon

ASSUME CredentialsAssumption ==
    /\ NoSecret \notin Secrets /\ NoHandler \notin Handlers /\ Names # {}
    /\ {AttemptLimit, LiteralCap, MaxServers} \subseteq Nat \ {0}

NoVault == [n \in {} |-> n]             \* the vault file does not exist
Empty   == [n \in Names |-> NoSecret]   \* no entry

VARIABLES
    vaultFile,   \* NoVault or the secrets in the file
    secrets,     \* Vault.secrets
    unlocked,    \* Vault.unlocked
    failed,      \* Vault.failed
    lockout,     \* now is before Vault.lockedUntil
    idle,        \* Vault.lastAccess is at least idle_relock_ms ago
    unlockMu,    \* holder of Vault.unlockMu
    relock,      \* RelockIfIdle is past its checks
    literals,    \* Redactor.literalSet: pinned values
    servers,     \* fleet.Manager.servers, the managed ones
    serverFile,  \* servers.json
    handler,     \* per request: pc, and what it holds
    tried,       \* history: wrong passphrases since the last success or lockout
    saveFaults, restarts

credVars == <<vaultFile, secrets, unlocked, failed, lockout, idle, unlockMu, relock, literals,
              servers, serverFile, handler, tried, saveFaults, restarts>>
vaultVars == <<vaultFile, secrets, unlocked, idle>>
lockVars  == <<failed, lockout, unlockMu, tried>>
fleetVars == <<servers, serverFile>>

IdleHandler == [pc |-> "idle", name |-> CHOOSE n \in Names : TRUE, values |-> {}, read |-> Empty]

CredInit ==
    /\ vaultFile \in {NoVault, Empty}
    /\ secrets = Empty /\ unlocked = FALSE /\ failed = 0 /\ lockout = FALSE /\ idle = TRUE
    /\ unlockMu = NoHandler /\ relock = FALSE /\ literals = {}
    /\ servers = {} /\ serverFile = {}
    /\ handler = [h \in Handlers |-> IdleHandler]
    /\ tried = 0 /\ saveFaults = 0 /\ restarts = 0

Values(v) == Range(v) \ {NoSecret}
Goes(h, pc) == handler' = [handler EXCEPT ![h].pc = pc]
Answers(h) == handler' = [handler EXCEPT ![h] = IdleHandler]

\* saveLocked, of the vault or of the inventory: replaces the whole file, or fails.
Saves(file, content) ==
    \/ file' = content /\ UNCHANGED saveFaults
    \/ file' = file /\ saveFaults < MaxSaveFaults /\ saveFaults' = saveFaults + 1

-----------------------------------------------------------------------------
(* hVaultUnlock.                                                           *)

\* The handler looks for the file before it takes any lock.
UnlockBegins(h) ==
    /\ handler[h].pc = "idle"
    /\ Goes(h, IF vaultFile = NoVault THEN "init" ELSE "unlock")
    /\ UNCHANGED <<vaultVars, lockVars, relock, literals, fleetVars, saveFaults, restarts>>

\* Vault.Init: what it set in memory stays when the file cannot be written.
InitVault(h) ==
    /\ handler[h].pc = "init" /\ unlockMu = NoHandler
    /\ IF vaultFile # NoVault
       THEN /\ Answers(h)
            /\ UNCHANGED <<vaultVars, saveFaults>>
       ELSE /\ secrets' = Empty /\ unlocked' = TRUE /\ idle' = FALSE
            /\ Saves(vaultFile, Empty)
            /\ IF vaultFile' = NoVault THEN Answers(h) ELSE Goes(h, "values")
    /\ UNCHANGED <<lockVars, relock, literals, fleetVars, restarts>>

\* Mutant: attempts are no longer serialized.
StartUnlock_Parallel(h) ==
    /\ handler[h].pc = "unlock"
    /\ IF lockout \/ vaultFile = NoVault
       THEN Answers(h)
       ELSE handler' = [handler EXCEPT ![h].pc = "decrypt", ![h].read = vaultFile]
    /\ UNCHANGED <<vaultVars, lockVars, relock, literals, fleetVars, saveFaults, restarts>>

\* Vault.Unlock: under unlockMu, refuses during the lockout, reads the file.
StartUnlock(h) ==
    /\ handler[h].pc = "unlock" /\ unlockMu = NoHandler
    /\ IF lockout \/ vaultFile = NoVault
       THEN Answers(h) /\ UNCHANGED unlockMu
       ELSE /\ handler' = [handler EXCEPT ![h].pc = "decrypt", ![h].read = vaultFile]
            /\ unlockMu' = h
    /\ UNCHANGED <<vaultVars, failed, lockout, tried, relock, literals, fleetVars,
                   saveFaults, restarts>>

\* The wrong passphrase: the limit trips the lockout and starts a new count.
WrongPassphrase(h) ==
    /\ handler[h].pc = "decrypt"
    /\ failed' = (failed + 1) % AttemptLimit
    /\ lockout' = (lockout \/ failed + 1 = AttemptLimit)
    /\ tried' = tried + 1
    /\ unlockMu' = NoHandler
    /\ Answers(h)
    /\ UNCHANGED <<vaultVars, relock, literals, fleetVars, saveFaults, restarts>>

\* The right one: what was read replaces what is in memory.
RightPassphrase(h) ==
    /\ handler[h].pc = "decrypt"
    /\ secrets' = handler[h].read /\ unlocked' = TRUE
    /\ failed' = 0 /\ lockout' = FALSE /\ tried' = 0
    /\ handler' = [handler EXCEPT ![h].pc = "touch", ![h].read = Empty]
    /\ UNCHANGED <<vaultFile, idle, unlockMu, relock, literals, fleetVars, saveFaults, restarts>>

\* The time of access is stored after the locks are released.
Touch(h) ==
    /\ handler[h].pc = "touch"
    /\ idle' = FALSE /\ unlockMu' = NoHandler
    /\ Goes(h, "values")
    /\ UNCHANGED <<vaultFile, secrets, unlocked, failed, lockout, tried, relock, literals,
                   fleetVars, saveFaults, restarts>>

\* Vault.Values: the handler's own copy; asking counts as access.
TakeValues(h) ==
    /\ handler[h].pc = "values"
    /\ handler' = [handler EXCEPT ![h].pc = "register", ![h].values = Values(secrets)]
    /\ idle' = (idle /\ Values(secrets) = {})
    /\ UNCHANGED <<vaultFile, secrets, unlocked, lockVars, relock, literals, fleetVars,
                   saveFaults, restarts>>

\* Redactor.AddLiteral.
HasRoomFor(value) == value \in literals \/ Cardinality(literals) < LiteralCap

\* Vault.Lock.
Locks == secrets' = Empty /\ unlocked' = FALSE

\* Mutant: a value the registry has no room for is skipped.
RegisterValue_Skips(h) ==
    /\ handler[h].pc = "register"
    /\ \/ /\ handler[h].values = {}
          /\ Answers(h) /\ UNCHANGED <<secrets, unlocked, literals>>
       \/ \E v \in handler[h].values :
             /\ handler' = [handler EXCEPT ![h].values = @ \ {v}]
             /\ literals' = IF HasRoomFor(v) THEN literals \cup {v} ELSE literals
             /\ UNCHANGED <<secrets, unlocked>>
    /\ UNCHANGED <<vaultFile, idle, lockVars, relock, fleetVars, saveFaults, restarts>>

\* One more value is registered with the redactor; without room the vault is
\* locked again and the unlock fails.
RegisterValue(h) ==
    /\ handler[h].pc = "register"
    /\ \/ /\ handler[h].values = {}
          /\ Answers(h) /\ UNCHANGED <<secrets, unlocked, literals>>
       \/ \E v \in handler[h].values :
             IF HasRoomFor(v)
             THEN /\ literals' = literals \cup {v}
                  /\ handler' = [handler EXCEPT ![h].values = @ \ {v}]
                  /\ UNCHANGED <<secrets, unlocked>>
             ELSE Locks /\ Answers(h) /\ UNCHANGED literals
    /\ UNCHANGED <<vaultFile, idle, lockVars, relock, fleetVars, saveFaults, restarts>>

-----------------------------------------------------------------------------
(* hServerAdd and hServerRemove.                                           *)

\* With a secret: the vault must be open, and the redactor must know the value
\* before the vault stores it.
AddBegins(h, name, value) ==
    /\ handler[h].pc = "idle"
    /\ \/ value = NoSecret /\ UNCHANGED literals
          /\ handler' = [handler EXCEPT ![h].pc = "inventory", ![h].name = name]
       \/ /\ value # NoSecret /\ unlocked /\ HasRoomFor(value)
          /\ literals' = literals \cup {value}
          /\ handler' = [handler EXCEPT ![h].pc = "store", ![h].name = name, ![h].values = {value}]
    /\ UNCHANGED <<vaultVars, lockVars, relock, fleetVars, saveFaults, restarts>>

\* Vault.Set and Vault.Delete: memory first, and the file if it can be written.
Store(name, value) ==
    /\ secrets' = [secrets EXCEPT ![name] = value]
    /\ idle' = FALSE
    /\ Saves(vaultFile, secrets')
    /\ UNCHANGED unlocked

StoreCredential(h) ==
    /\ handler[h].pc = "store"
    /\ IF ~unlocked
       THEN Answers(h) /\ UNCHANGED <<vaultVars, saveFaults>>
       ELSE \E v \in handler[h].values :
               /\ Store(handler[h].name, v)
               /\ IF saveFaults' = saveFaults THEN Goes(h, "inventory") ELSE Answers(h)
    /\ UNCHANGED <<lockVars, relock, literals, fleetVars, restarts>>

\* fleet.AddServer: refuses a name that is taken, and above the limit.
AddServer(h) ==
    /\ handler[h].pc = "inventory"
    /\ IF handler[h].name \in servers \/ Cardinality(servers) >= MaxServers
       THEN UNCHANGED <<servers, serverFile, saveFaults>>
       ELSE /\ servers' = servers \cup {handler[h].name}
            /\ Saves(serverFile, servers')
    /\ Answers(h)
    /\ UNCHANGED <<vaultVars, lockVars, relock, literals, restarts>>

\* fleet.RemoveServer; only if all went well the credential goes too.
RemoveServer(h, name) ==
    /\ handler[h].pc = "idle" /\ name \in servers
    /\ servers' = servers \ {name}
    /\ Saves(serverFile, servers')
    /\ handler' = IF saveFaults' = saveFaults
                  THEN [handler EXCEPT ![h].pc = "delete", ![h].name = name] ELSE handler
    /\ UNCHANGED <<vaultVars, lockVars, relock, literals, restarts>>

DeleteCredential(h) ==
    /\ handler[h].pc = "delete"
    /\ IF unlocked THEN Store(handler[h].name, NoSecret) ELSE UNCHANGED <<vaultVars, saveFaults>>
    /\ Answers(h)
    /\ UNCHANGED <<lockVars, relock, literals, fleetVars, restarts>>

-----------------------------------------------------------------------------
(* Time, the ticker, the command line and restarts.                        *)

Unused ==
    /\ ~idle /\ idle' = TRUE
    /\ UNCHANGED <<vaultFile, secrets, unlocked, lockVars, relock, literals, fleetVars, handler,
                   saveFaults, restarts>>

\* Vault.Get, by an SSH connection that logs in with the stored credential.
UseCredential(name) ==
    /\ unlocked /\ secrets[name] # NoSecret /\ name \in servers
    /\ idle' = FALSE
    /\ UNCHANGED <<vaultFile, secrets, unlocked, lockVars, relock, literals, fleetVars, handler,
                   saveFaults, restarts>>

LockoutEnds ==
    /\ lockout /\ lockout' = FALSE /\ tried' = 0
    /\ UNCHANGED <<vaultVars, failed, unlockMu, relock, literals, fleetVars, handler,
                   saveFaults, restarts>>

\* RelockIfIdle looks, and then locks whatever it finds.
CheckIdle ==
    /\ ~relock /\ unlocked /\ idle
    /\ relock' = TRUE
    /\ UNCHANGED <<vaultVars, lockVars, literals, fleetVars, handler, saveFaults, restarts>>

Relock ==
    /\ relock /\ relock' = FALSE
    /\ Locks
    /\ UNCHANGED <<vaultFile, idle, lockVars, literals, fleetVars, handler, saveFaults, restarts>>

\* termada vault set | rm | reset, from a process of its own.
CliEdits ==
    /\ vaultFile # NoVault
    /\ \/ \E n \in Names, v \in Secrets \cup {NoSecret} : vaultFile' = [vaultFile EXCEPT ![n] = v]
       \/ vaultFile' = NoVault
    /\ UNCHANGED <<secrets, unlocked, idle, lockVars, relock, literals, fleetVars, handler,
                   saveFaults, restarts>>

\* The daemon restarts; LoadStore reads the managed servers back.
RestartDaemon ==
    /\ restarts < MaxRestarts /\ restarts' = restarts + 1
    /\ Locks /\ failed' = 0 /\ lockout' = FALSE /\ idle' = TRUE /\ unlockMu' = NoHandler
    /\ relock' = FALSE /\ literals' = {} /\ tried' = 0
    /\ servers' = serverFile
    /\ handler' = [h \in Handlers |-> IdleHandler]
    /\ UNCHANGED <<vaultFile, serverFile, saveFaults>>

CredNext ==
    \/ \E h \in Handlers :
          \/ UnlockBegins(h) \/ InitVault(h) \/ StartUnlock(h) \/ WrongPassphrase(h)
          \/ RightPassphrase(h) \/ Touch(h) \/ TakeValues(h) \/ RegisterValue(h)
          \/ \E n \in Names, v \in Secrets \cup {NoSecret} : AddBegins(h, n, v)
          \/ StoreCredential(h) \/ AddServer(h)
          \/ \E n \in Names : RemoveServer(h, n)
          \/ DeleteCredential(h)
    \/ Unused \/ LockoutEnds \/ CheckIdle \/ Relock \/ CliEdits \/ RestartDaemon
    \/ \E n \in Names : UseCredential(n)

CredSpec == CredInit /\ [][CredNext]_credVars

-----------------------------------------------------------------------------
(* Properties.                                                             *)

\* Between a success, or the end of a lockout, and the lockout that follows,
\* no more than unlockAttemptLimit passphrases are tried, however many unlock
\* requests are in flight.
ThrottleHolds == tried <= AttemptLimit

\* Once no unlock is under way, every secret an open vault would hand out is
\* one the redactor masks, whatever unlocks, adds, relocks and refusals of the
\* full registry came before.
SecretsAreCovered ==
    (\A h \in Handlers : handler[h].pc \notin {"touch", "values", "register"})
        => Values(secrets) \subseteq literals

\* A request to add a server that is refused leaves the credential of the
\* server that has the name.  hServerAdd stores the credential first, so it
\* does not.
RefusedAddChangesNothing ==
    [][\A h \in Handlers :
         handler[h].pc = "store" /\ handler[h].name \in servers
            => secrets'[handler[h].name] = secrets[handler[h].name]]_credVars

\* A vault that has just been unlocked is not locked as idle.  RelockIfIdle
\* checks and locks in two steps, and Unlock stores the access time last.
UnlockSticks == [][relock /\ ~relock' => idle \/ ~unlocked]_credVars
=============================================================================
