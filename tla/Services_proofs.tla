--------------------------- MODULE Services_proofs ----------------------------
(***************************************************************************)
(* What runs beside the engine: the vault and its handlers, recipes,       *)
(* plugins, fleet runs, and the streams of what a command printed.  For    *)
(* any handlers, names, secrets, steps, plugins, runs, servers and texts,  *)
(* and any limits.                                                         *)
(***************************************************************************)
EXTENDS Credentials, Recipes, Plugins, Fleet, OutputStream,
        FiniteSetTheorems, SequenceTheorems, NaturalsInduction, WellFoundedInduction, TLAPS

-----------------------------------------------------------------------------
(* The vault: the throttle on passphrases, and what the redactor knows.    *)

Pcs == {"idle", "init", "unlock", "decrypt", "touch", "values", "register", "store", "inventory", "delete"}
Contents    == [Names -> Secrets \cup {NoSecret}]
HandlerType == [pc : Pcs, name : Names, values : SUBSET Secrets, read : Contents]

\* The part of the type invariant that the arguments need.
CredTypes ==
    /\ vaultFile \in Contents \cup {NoVault} /\ secrets \in Contents
    /\ failed \in Nat /\ tried \in Nat /\ lockout \in BOOLEAN
    /\ handler \in [Handlers -> HandlerType]

\* Only the holder of unlockMu tries a passphrase, and no lockout begins
\* between its check and its attempt.
Attempts ==
    /\ \A h \in Handlers : handler[h].pc \in {"decrypt", "touch"} => unlockMu = h
    /\ \A h \in Handlers : handler[h].pc = "decrypt" => ~lockout
    /\ IF lockout THEN failed = 0 /\ tried = AttemptLimit ELSE tried = failed /\ failed < AttemptLimit

\* Whoever may still bring a value to the redactor: an unlock that has not
\* taken the values, or holds this one.
Bringing(h, v) ==
    \/ handler[h].pc \in {"touch", "values"}
    \/ handler[h].pc = "register" /\ v \in handler[h].values

\* A value that the vault holds and the redactor does not know is on its way;
\* what a server is added with was registered first.
Coverage ==
    /\ \A v \in Values(secrets) \ literals : \E h \in Handlers : Bringing(h, v)
    /\ \A h \in Handlers : handler[h].pc = "store" => handler[h].values \subseteq literals

CredInv == CredTypes /\ Attempts /\ Coverage

\* Setting one entry adds at most the value it is set to.
LEMMA StoreValues ==
  ASSUME CredTypes, NEW name \in Names, NEW value \in Secrets \cup {NoSecret}, Store(name, value)
  PROVE  /\ secrets' \in Contents /\ vaultFile' \in Contents \cup {NoVault}
         /\ Values(secrets)' \subseteq Values(secrets) \cup ({value} \ {NoSecret})
<1>1. secrets' \in Contents /\ DOMAIN secrets' = Names /\ DOMAIN secrets = Names
  BY DEF Store, CredTypes, Contents
<1>2. \A n \in Names : secrets'[n] \in {secrets[n], value}
  BY DEF Store, CredTypes, Contents
<1>3. vaultFile' \in {secrets', vaultFile}
  BY DEF Store, Saves
<1> QED
  BY <1>1, <1>2, <1>3 DEF Values, Range, CredTypes

\* A vault that is locked, or empty, holds no value.
LEMMA NoValues == Empty \in Contents /\ Values(Empty) = {}
BY DEF Empty, Contents, Values, Range

LEMMA IdleTyped == IdleHandler \in HandlerType /\ IdleHandler.pc = "idle" /\ IdleHandler.values = {}
<1>1. (CHOOSE n \in Names : TRUE) \in Names
  BY CredentialsAssumption
<1> QED
  BY <1>1, NoValues DEF IdleHandler, HandlerType, Pcs

LEMMA CredInit_Inv == CredInit => CredInv
<1> SUFFICES ASSUME CredInit PROVE CredInv
  OBVIOUS
<1>1. CredTypes
  BY NoValues, IdleTyped DEF CredInit, CredTypes
<1>2. Attempts
  BY IdleTyped, CredentialsAssumption DEF CredInit, Attempts
<1>3. Coverage
  BY NoValues, IdleTyped DEF CredInit, Coverage
<1> QED
  BY <1>1, <1>2, <1>3 DEF CredInv

\* A handler that answers is idle again, the others are where they were.
LEMMA AnswersEffect ==
  ASSUME CredTypes, NEW h \in Handlers, Answers(h)
  PROVE  /\ handler' \in [Handlers -> HandlerType] /\ handler'[h].pc = "idle"
         /\ \A g \in Handlers : g # h => handler'[g] = handler[g]
BY IdleTyped DEF Answers, CredTypes

LEMMA GoesEffect ==
  ASSUME CredTypes, NEW h \in Handlers, NEW pc \in Pcs, Goes(h, pc)
  PROVE  /\ handler' \in [Handlers -> HandlerType] /\ handler'[h].pc = pc
         /\ handler'[h].values = handler[h].values
         /\ \A g \in Handlers : g # h => handler'[g] = handler[g]
BY DEF Goes, CredTypes, HandlerType

\* A step of a handler that brings no value and tries no passphrase, while the
\* vault changes at most by values the redactor knows.
LEMMA QuietStep ==
  ASSUME CredInv, NEW h \in Handlers,
         handler' \in [Handlers -> HandlerType],
         \A g \in Handlers : g # h => handler'[g] = handler[g],
         handler'[h].pc \notin {"decrypt", "touch"},
         \A v : Bringing(h, v) => v \in literals' \/ v \notin Values(secrets)' \/ Bringing(h, v)',
         handler'[h].pc = "store" => handler'[h].values \subseteq literals',
         literals \subseteq literals',
         secrets' \in Contents, vaultFile' \in Contents \cup {NoVault},
         Values(secrets)' \subseteq Values(secrets) \cup literals',
         UNCHANGED <<failed, lockout, tried>>,
         unlockMu' = unlockMu \/ \A g \in Handlers : g # h => unlockMu # g
  PROVE  CredInv'
<1>1. CredTypes'
  BY DEF CredInv, CredTypes
<1>2. Attempts'
  BY DEF CredInv, Attempts
<1>3. \A g \in Handlers : g # h => \A v : Bringing(g, v)' <=> Bringing(g, v)
  BY DEF Bringing
<1>4. \A v \in Values(secrets)' \ literals' : \E g \in Handlers : Bringing(g, v)'
  <2> SUFFICES ASSUME NEW v \in Values(secrets)' \ literals'
               PROVE  \E g \in Handlers : Bringing(g, v)'
    OBVIOUS
  <2>1. v \in Values(secrets) \ literals
    OBVIOUS
  <2>2. PICK g \in Handlers : Bringing(g, v)
    BY <2>1 DEF CredInv, Coverage
  <2> QED
    BY <1>3, <2>2
<1>5. Coverage'
  BY <1>4 DEF CredInv, Coverage
<1> QED
  BY <1>1, <1>2, <1>5 DEF CredInv

\* An empty vault, whatever the redactor knows.
LEMMA EmptyVault ==
  ASSUME CredInv, secrets' = Empty, handler' \in [Handlers -> HandlerType],
         vaultFile' \in Contents \cup {NoVault},
         failed' \in Nat, tried' \in Nat, lockout' \in BOOLEAN, Attempts',
         \A h \in Handlers : handler'[h].pc = "store" => handler'[h].values \subseteq literals'
  PROVE  CredInv'
<1>1. CredTypes'
  BY NoValues DEF CredTypes
<1>2. Values(secrets)' = {}
  BY NoValues DEF Values
<1> QED
  BY <1>1, <1>2 DEF CredInv, Coverage

LEMMA CredNext_Inv == CredInv /\ [CredNext]_credVars => CredInv'
<1> SUFFICES ASSUME CredInv, [CredNext]_credVars PROVE CredInv'
  OBVIOUS
<1> USE DEF vaultVars, lockVars, fleetVars
<1>t. CredTypes
  BY DEF CredInv
<1>1. ASSUME NEW h \in Handlers, UnlockBegins(h) PROVE CredInv'
  <2>1. PICK pc \in {"init", "unlock"} : Goes(h, pc)
    BY <1>1 DEF UnlockBegins
  <2>2. handler[h].pc = "idle" /\ pc \in Pcs
    BY <1>1 DEF UnlockBegins, Pcs
  <2> QED
    BY <1>1, <1>t, <2>1, <2>2, GoesEffect, QuietStep DEF UnlockBegins, Bringing, CredTypes, Values
<1>2. ASSUME NEW h \in Handlers, InitVault(h) PROVE CredInv'
  <2>1. handler[h].pc = "init" /\ UNCHANGED <<lockVars, literals>>
    BY <1>2 DEF InitVault
  <2>2. CASE vaultFile # NoVault
    BY <1>2, <1>t, <2>1, <2>2, AnswersEffect, QuietStep DEF InitVault, Bringing, CredTypes, Values
  <2>3. CASE vaultFile = NoVault
    <3>1. secrets' = Empty /\ vaultFile' \in Contents \cup {NoVault}
      BY <1>2, <1>t, <2>3, NoValues DEF InitVault, Saves, CredTypes
    <3>2. PICK pc \in {"idle", "values"} :
            /\ handler' \in [Handlers -> HandlerType] /\ handler'[h].pc = pc
            /\ \A g \in Handlers : g # h => handler'[g] = handler[g]
      <4>1. CASE Answers(h)
        BY <1>t, <4>1, AnswersEffect
      <4>2. CASE Goes(h, "values")
        BY <1>t, <4>2, GoesEffect DEF Pcs
      <4> QED
        BY <1>2, <2>3, <4>1, <4>2 DEF InitVault
    <3>3. Attempts'
      BY <2>1, <3>2 DEF CredInv, Attempts
    <3>4. \A g \in Handlers : handler'[g].pc = "store" => handler'[g].values \subseteq literals'
      BY <2>1, <3>2 DEF CredInv, Coverage
    <3> QED
      BY <1>t, <2>1, <3>1, <3>2, <3>3, <3>4, EmptyVault DEF CredTypes
  <2> QED
    BY <2>2, <2>3
<1>3. ASSUME NEW h \in Handlers, StartUnlock(h) PROVE CredInv'
  <2>1. handler[h].pc = "unlock" /\ unlockMu = NoHandler
        /\ UNCHANGED <<vaultFile, secrets, failed, lockout, tried, literals>>
    BY <1>3 DEF StartUnlock
  <2>2. CASE Answers(h) /\ UNCHANGED unlockMu
    BY <1>t, <2>1, <2>2, AnswersEffect, QuietStep DEF Bringing, CredTypes, Values
  <2>3. CASE ~lockout /\ vaultFile # NoVault /\ unlockMu' = h
             /\ handler' = [handler EXCEPT ![h].pc = "decrypt", ![h].read = vaultFile]
    <3>1. /\ handler' \in [Handlers -> HandlerType] /\ handler'[h].pc = "decrypt"
          /\ \A g \in Handlers : g # h => handler'[g] = handler[g]
      BY <1>t, <2>3 DEF CredTypes, HandlerType, Pcs
    <3>2. CredTypes'
      BY <1>t, <2>1, <3>1 DEF CredTypes
    <3>3. Attempts'
      BY <2>1, <2>3, <3>1, CredentialsAssumption DEF CredInv, Attempts
    <3>4. \A g \in Handlers, v \in Values(secrets) : Bringing(g, v) => Bringing(g, v)'
      BY <2>1, <3>1 DEF Bringing
    <3>5. Coverage'
      BY <2>1, <3>1, <3>4 DEF CredInv, Coverage, Values
    <3> QED
      BY <3>2, <3>3, <3>5 DEF CredInv
  <2> QED
    BY <1>3, <2>2, <2>3 DEF StartUnlock
<1>4. ASSUME NEW h \in Handlers, WrongPassphrase(h) PROVE CredInv'
  <2>1. /\ handler[h].pc = "decrypt" /\ unlockMu = h /\ ~lockout /\ tried = failed /\ failed < AttemptLimit
        /\ failed' = (failed + 1) % AttemptLimit /\ lockout' = (failed + 1 = AttemptLimit)
        /\ tried' = tried + 1
        /\ UNCHANGED <<vaultFile, secrets, literals>>
    BY <1>4 DEF WrongPassphrase, CredInv, Attempts
  <2>2. failed \in Nat /\ AttemptLimit \in Nat \ {0}
    BY <1>t, CredentialsAssumption DEF CredTypes
  <2>3. failed' \in Nat /\ IF lockout' THEN failed' = 0 ELSE failed' = failed + 1 /\ failed' < AttemptLimit
    <3>1. \A n \in Nat, l \in Nat \ {0} :
            n < l => /\ (n + 1 = l => (n + 1) % l = 0)
                     /\ (n + 1 # l => n + 1 < l /\ (n + 1) % l = n + 1)
      OBVIOUS
    <3>2. /\ failed + 1 = AttemptLimit => (failed + 1) % AttemptLimit = 0
          /\ failed + 1 # AttemptLimit => /\ failed + 1 < AttemptLimit
                                          /\ (failed + 1) % AttemptLimit = failed + 1
      BY <2>1, <2>2, <3>1
    <3>3. CASE failed + 1 = AttemptLimit
      <4>1. failed' = 0 /\ lockout'
        BY <2>1, <3>2, <3>3
      <4> QED
        BY <4>1
    <3>4. CASE failed + 1 # AttemptLimit
      <4>1. failed' = failed + 1 /\ ~lockout'
        BY <2>1, <3>2, <3>4
      <4> QED
        BY <2>2, <3>2, <3>4, <4>1
    <3> QED
      BY <3>3, <3>4
  <2>4. /\ handler' \in [Handlers -> HandlerType] /\ handler'[h].pc = "idle"
        /\ \A g \in Handlers : g # h => handler'[g] = handler[g]
    BY <1>4, <1>t, AnswersEffect DEF WrongPassphrase
  <2>5. CredTypes'
    BY <1>t, <2>1, <2>2, <2>3, <2>4 DEF CredTypes
  <2>6. Attempts'
    BY <2>1, <2>2, <2>3, <2>4 DEF CredInv, Attempts
  <2>7. \A g \in Handlers, v \in Values(secrets) : Bringing(g, v) => Bringing(g, v)'
    BY <2>1, <2>4 DEF Bringing
  <2>8. Coverage'
    BY <2>1, <2>4, <2>7 DEF CredInv, Coverage, Values
  <2> QED
    BY <2>5, <2>6, <2>8 DEF CredInv
<1>5. ASSUME NEW h \in Handlers, RightPassphrase(h) PROVE CredInv'
  <2>1. /\ handler' \in [Handlers -> HandlerType] /\ handler'[h].pc = "touch"
        /\ \A g \in Handlers : g # h => handler'[g] = handler[g]
    BY <1>5, <1>t, NoValues DEF RightPassphrase, CredTypes, HandlerType, Pcs
  <2>2. /\ unlockMu = h /\ unlockMu' = h /\ secrets' \in Contents
        /\ failed' = 0 /\ tried' = 0 /\ lockout' = FALSE /\ UNCHANGED <<vaultFile, literals>>
    BY <1>5, <1>t DEF RightPassphrase, CredInv, Attempts, CredTypes, HandlerType
  <2>3. CredTypes'
    BY <1>t, <2>1, <2>2 DEF CredTypes
  <2>4. Attempts'
    BY <2>1, <2>2, CredentialsAssumption DEF CredInv, Attempts
  <2>5. Coverage'
    BY <2>1, <2>2 DEF CredInv, Coverage, Bringing
  <2> QED
    BY <2>3, <2>4, <2>5 DEF CredInv
<1>6. ASSUME NEW h \in Handlers, Touch(h) PROVE CredInv'
  <2>1. /\ handler[h].pc = "touch" /\ unlockMu = h
        /\ UNCHANGED <<vaultFile, secrets, failed, lockout, tried, literals>>
    BY <1>6 DEF Touch, CredInv, Attempts
  <2> QED
    BY <1>6, <1>t, <2>1, GoesEffect, QuietStep DEF Touch, Pcs, Bringing, CredTypes, Values
<1>7. ASSUME NEW h \in Handlers, TakeValues(h) PROVE CredInv'
  <2>1. /\ handler[h].pc = "values"
        /\ UNCHANGED <<vaultFile, secrets, failed, lockout, tried, unlockMu, literals>>
    BY <1>7 DEF TakeValues
  <2>2. Values(secrets) \subseteq Secrets
    BY <1>t DEF CredTypes, Contents, Values, Range
  <2>3. /\ handler' \in [Handlers -> HandlerType] /\ handler'[h].pc = "register"
        /\ handler'[h].values = Values(secrets)
        /\ \A g \in Handlers : g # h => handler'[g] = handler[g]
    BY <1>7, <1>t, <2>2 DEF TakeValues, CredTypes, HandlerType, Pcs
  <2>4. \A v : v \notin Values(secrets)' \/ Bringing(h, v)'
    BY <2>1, <2>3 DEF Bringing, Values
  <2> QED
    BY <1>t, <2>1, <2>3, <2>4, QuietStep DEF CredTypes, Values
<1>8. ASSUME NEW h \in Handlers, RegisterValue(h) PROVE CredInv'
  <2>1. /\ handler[h].pc = "register"
        /\ UNCHANGED <<vaultFile, failed, lockout, tried, unlockMu>>
    BY <1>8 DEF RegisterValue
  <2>2. CASE handler[h].values = {} /\ Answers(h) /\ UNCHANGED <<secrets, unlocked, literals>>
    BY <1>t, <2>1, <2>2, AnswersEffect, QuietStep DEF Bringing, CredTypes, Values
  <2>3. ASSUME NEW v \in handler[h].values, literals' = literals \cup {v}, UNCHANGED <<secrets, unlocked>>,
               handler' = [handler EXCEPT ![h].values = @ \ {v}]
        PROVE CredInv'
    <3>1. /\ handler' \in [Handlers -> HandlerType] /\ handler'[h].pc = "register"
          /\ handler'[h].values = handler[h].values \ {v}
          /\ \A g \in Handlers : g # h => handler'[g] = handler[g]
      BY <1>t, <2>1, <2>3 DEF CredTypes, HandlerType
    <3>2. \A w : Bringing(h, w) => w \in literals' \/ Bringing(h, w)'
      BY <2>1, <2>3, <3>1 DEF Bringing
    <3> QED
      BY <1>t, <2>1, <2>3, <3>1, <3>2, QuietStep DEF CredTypes, Values
  <2>4. CASE Locks /\ Answers(h) /\ UNCHANGED literals
    <3>1. /\ handler' \in [Handlers -> HandlerType] /\ handler'[h].pc = "idle"
          /\ \A g \in Handlers : g # h => handler'[g] = handler[g]
      BY <1>t, <2>4, AnswersEffect
    <3>2. Attempts'
      BY <2>1, <3>1 DEF CredInv, Attempts
    <3>3. \A g \in Handlers : handler'[g].pc = "store" => handler'[g].values \subseteq literals'
      BY <2>4, <3>1 DEF CredInv, Coverage
    <3> QED
      BY <1>t, <2>1, <2>4, <3>1, <3>2, <3>3, EmptyVault DEF CredTypes, Locks
  <2> QED
    BY <1>8, <2>2, <2>3, <2>4 DEF RegisterValue
<1>9. ASSUME NEW h \in Handlers, NEW n \in Names, NEW value \in Secrets \cup {NoSecret}, AddBegins(h, n, value)
      PROVE CredInv'
  <2>1. /\ handler[h].pc = "idle" /\ UNCHANGED <<vaultFile, secrets, failed, lockout, tried, unlockMu>>
    BY <1>9 DEF AddBegins
  <2>2. CASE /\ UNCHANGED literals
             /\ handler' = [handler EXCEPT ![h].pc = "inventory", ![h].name = n]
    <3>1. /\ handler' \in [Handlers -> HandlerType] /\ handler'[h].pc = "inventory"
          /\ \A g \in Handlers : g # h => handler'[g] = handler[g]
      BY <1>t, <2>2 DEF CredTypes, HandlerType, Pcs
    <3> QED
      BY <1>t, <2>1, <2>2, <3>1, QuietStep DEF Bringing, CredTypes, Values
  <2>3. CASE /\ value # NoSecret /\ literals' = literals \cup {value}
             /\ handler' = [handler EXCEPT ![h].pc = "store", ![h].name = n, ![h].values = {value}]
    <3>1. /\ handler' \in [Handlers -> HandlerType] /\ handler'[h].pc = "store"
          /\ handler'[h].values = {value}
          /\ \A g \in Handlers : g # h => handler'[g] = handler[g]
      BY <1>t, <2>3, ZenonT(60) DEF CredTypes, HandlerType, Pcs
    <3> QED
      BY <1>t, <2>1, <2>3, <3>1, QuietStep DEF Bringing, CredTypes, Values
  <2> QED
    BY <1>9, <2>2, <2>3 DEF AddBegins
<1>10. ASSUME NEW h \in Handlers, StoreCredential(h) PROVE CredInv'
  <2>1. /\ handler[h].pc = "store" /\ UNCHANGED <<failed, lockout, tried, unlockMu, literals>>
        /\ handler[h].values \subseteq literals /\ handler[h].name \in Names /\ handler[h].values \subseteq Secrets
    BY <1>10, <1>t DEF StoreCredential, CredInv, Coverage, CredTypes, HandlerType
  <2>2. PICK pc \in {"idle", "inventory"} :
          /\ handler' \in [Handlers -> HandlerType] /\ handler'[h].pc = pc
          /\ \A g \in Handlers : g # h => handler'[g] = handler[g]
    <3>1. CASE Answers(h)
      BY <1>t, <3>1, AnswersEffect
    <3>2. CASE Goes(h, "inventory")
      BY <1>t, <3>2, GoesEffect DEF Pcs
    <3> QED
      BY <1>10, <3>1, <3>2 DEF StoreCredential
  <2>3. /\ secrets' \in Contents /\ vaultFile' \in Contents \cup {NoVault}
        /\ Values(secrets)' \subseteq Values(secrets) \cup literals
    <3>1. CASE ~unlocked
      BY <1>10, <1>t, <3>1 DEF StoreCredential, CredTypes, Values
    <3>2. CASE unlocked
      <4>1. PICK v \in handler[h].values : Store(handler[h].name, v)
        BY <1>10, <3>2 DEF StoreCredential
      <4> QED
        BY <1>t, <2>1, <4>1, StoreValues
    <3> QED
      BY <3>1, <3>2
  <2> QED
    BY <2>1, <2>2, <2>3, QuietStep DEF Bringing
<1>11. ASSUME NEW h \in Handlers, AddServer(h) PROVE CredInv'
  <2>1. handler[h].pc = "inventory" /\ Answers(h) /\ UNCHANGED <<vaultVars, lockVars, literals>>
    BY <1>11 DEF AddServer
  <2> QED
    BY <1>t, <2>1, AnswersEffect, QuietStep DEF Bringing, CredTypes, Values
<1>12. ASSUME NEW h \in Handlers, NEW n \in Names, RemoveServer(h, n) PROVE CredInv'
  <2>1. handler[h].pc = "idle" /\ UNCHANGED <<vaultVars, lockVars, literals>>
    BY <1>12 DEF RemoveServer
  <2>2. /\ handler' \in [Handlers -> HandlerType] /\ handler'[h].pc \in {"idle", "delete"}
        /\ \A g \in Handlers : g # h => handler'[g] = handler[g]
    BY <1>12, <1>t, <2>1, ZenonT(60) DEF RemoveServer, CredTypes, HandlerType, Pcs
  <2> QED
    BY <1>t, <2>1, <2>2, QuietStep DEF Bringing, CredTypes, Values
<1>13. ASSUME NEW h \in Handlers, DeleteCredential(h) PROVE CredInv'
  <2>1. /\ handler[h].pc = "delete" /\ Answers(h) /\ UNCHANGED <<lockVars, literals>>
        /\ handler[h].name \in Names
    BY <1>13, <1>t DEF DeleteCredential, CredTypes, HandlerType
  <2>2. /\ secrets' \in Contents /\ vaultFile' \in Contents \cup {NoVault}
        /\ Values(secrets)' \subseteq Values(secrets)
    <3>1. CASE ~unlocked
      BY <1>13, <1>t, <3>1 DEF DeleteCredential, CredTypes, Values
    <3>2. CASE unlocked
      BY <1>13, <1>t, <2>1, <3>2, StoreValues DEF DeleteCredential
    <3> QED
      BY <3>1, <3>2
  <2> QED
    BY <1>t, <2>1, <2>2, AnswersEffect, QuietStep DEF Bringing
<1>14. ASSUME UNCHANGED <<vaultFile, secrets, lockVars, literals, handler>> PROVE CredInv'
  BY <1>14 DEF CredInv, CredTypes, Attempts, Coverage, Bringing, Values
<1>15. ASSUME Unused \/ CheckIdle \/ \E n \in Names : UseCredential(n) PROVE CredInv'
  BY <1>14, <1>15 DEF Unused, CheckIdle, UseCredential
<1>16. ASSUME LockoutEnds PROVE CredInv'
  <2>1. CredTypes' /\ Coverage'
    BY <1>16 DEF LockoutEnds, CredInv, CredTypes, Coverage, Bringing, Values
  <2>2. Attempts'
    BY <1>16, CredentialsAssumption DEF LockoutEnds, CredInv, Attempts
  <2> QED
    BY <2>1, <2>2 DEF CredInv
<1>17. ASSUME Relock PROVE CredInv'
  <2>1. secrets' = Empty /\ UNCHANGED <<vaultFile, lockVars, literals, handler>>
    BY <1>17 DEF Relock, Locks
  <2>2. Attempts' /\ \A g \in Handlers : handler'[g].pc = "store" => handler'[g].values \subseteq literals'
    BY <2>1 DEF CredInv, Attempts, Coverage
  <2> QED
    BY <1>t, <2>1, <2>2, EmptyVault DEF CredTypes
<1>18. ASSUME CliEdits PROVE CredInv'
  <2>1. vaultFile' \in Contents \cup {NoVault} /\ UNCHANGED <<secrets, lockVars, literals, handler>>
    BY <1>18, <1>t DEF CliEdits, CredTypes, Contents
  <2> QED
    BY <2>1 DEF CredInv, CredTypes, Attempts, Coverage, Bringing, Values
<1>19. ASSUME RestartDaemon PROVE CredInv'
  <2>1. /\ secrets' = Empty /\ failed' = 0 /\ lockout' = FALSE /\ tried' = 0 /\ UNCHANGED vaultFile
        /\ handler' \in [Handlers -> HandlerType] /\ \A h \in Handlers : handler'[h].pc = "idle"
    BY <1>19, IdleTyped DEF RestartDaemon, Locks
  <2>2. Attempts'
    BY <2>1, CredentialsAssumption DEF Attempts
  <2> QED
    BY <1>t, <2>1, <2>2, EmptyVault DEF CredTypes
<1>20. ASSUME UNCHANGED credVars PROVE CredInv'
  BY <1>14, <1>20 DEF credVars
<1> QED
  BY <1>1, <1>2, <1>3, <1>4, <1>5, <1>6, <1>7, <1>8, <1>9, <1>10, <1>11, <1>12, <1>13, <1>15, <1>16, <1>17,
     <1>18, <1>19, <1>20 DEF CredNext

LEMMA CredSafety == CredSpec => []CredInv
BY CredInit_Inv, CredNext_Inv, PTL DEF CredSpec

\* Between two of success, end of a lockout, restart and lockout no more than
\* the limit of passphrases is tried, by any number of requests (Vault.Unlock).
THEOREM ThrottleIsKept == CredSpec => []ThrottleHolds
<1>1. CredInv => ThrottleHolds
  BY CredentialsAssumption DEF CredInv, CredTypes, Attempts, ThrottleHolds
<1> QED
  BY <1>1, CredSafety, PTL

\* When no unlock is under way, the redactor masks every secret that the open
\* vault would hand out (hVaultUnlock, hServerAdd, Vault.Set, RelockIfIdle).
THEOREM SecretsStayCovered == CredSpec => []SecretsAreCovered
<1>1. CredInv => SecretsAreCovered
  BY DEF CredInv, Coverage, Bringing, SecretsAreCovered
<1> QED
  BY <1>1, CredSafety, PTL

-----------------------------------------------------------------------------
(* Recipes: what one leaves behind when it answers.                        *)

Begins == {"step", "start"}
Unanswered  == {"parked", "asking"}
Stops  == {"leave", "returned"}
RunPlaces == Begins \cup Unanswered \cup Stops
    \cup {"writing", "wait", "cancel", "signal", "grace", "look", "close"}
Outcomes == {"exited", "failed", "killed", "closed", "rejected", "orphaned"}

\* The part of the type invariant that the argument needs.
RecipeTypes ==
    /\ runAt \in RunPlaces /\ step \in RSteps
    /\ jobOf \in [RSteps -> {"none"} \cup LiveStatuses \cup Outcomes]
    /\ closer \in [Closers -> [at : {"idle", "mark", "end", "done"}, jobs : SUBSET RSteps]]

Created == {n \in RSteps : jobOf[n] # "none"}

\* Jobs that somebody took from the session, or from the confirmations, to end them.
Taken == settling \cup closer["recipe"].jobs \cup closer["other"].jobs

\* Whoever holds a job holds one that was created: no approval, marker or close
\* can bring a step to life that the run has not come to.
Held ==
    /\ confirms \cup approved \cup Taken \subseteq Created
    /\ onSession # 0 => onSession \in Created

\* Nobody ends a job that is current on the session, or one that may get there.
Apart ==
    /\ confirms \cap approved = {}
    /\ (confirms \cup approved) \cap Taken = {}
    /\ onSession \notin confirms \cup approved \cup Taken

\* The session's current job is running.  The exception is the job failed under
\* it when Start answered with an error after the approval had started it.
Seated ==
    /\ onSession # 0 => \/ jobOf[onSession] = "running"
                        \/ early /\ onSession = step /\ runAt \in Stops
    /\ shut => onSession = 0
    /\ \A c \in Closers : closer[c].at \in {"end", "done"} => shut

\* The current step, once the run is past its last one, neither runs nor can.
Settled == jobOf[step] # "running" /\ (step \in confirms \cup approved => Ended(step))

\* The steps before the current one succeeded, the ones after it have no job,
\* and a step that was approved before Start answered is known to be.
Progress ==
    /\ \A n \in RSteps : n < step => jobOf[n] = "exited"
    /\ \A n \in RSteps : n > step \/ (n = step /\ runAt \in Begins) => jobOf[n] = "none"
    /\ runAt \in Unanswered /\ (step \in approved \/ jobOf[step] = "running") => early
    /\ runAt \in Stops /\ ~early => Settled

\* A session that somebody is closing, or closed, is not in the registry.
Gone ==
    /\ \A c \in Closers : closer[c].at # "idle" => ~inRegistry
    /\ runAt = "returned" /\ adHoc => ~inRegistry

RecipeInv == RecipeTypes /\ Held /\ Apart /\ Seated /\ Progress /\ Gone

\* Ending jobs that were created changes no outcome, creates no job and leaves
\* none of them live.
LEMMA EndingFacts ==
  ASSUME RecipeTypes, NEW jobs \in SUBSET Created, NEW status \in Outcomes,
         jobOf' = Ending(jobs, status)
  PROVE  /\ jobOf' \in [RSteps -> {"none"} \cup LiveStatuses \cup Outcomes]
         /\ Created' = Created
         /\ \A n \in RSteps : /\ Ended(n) => jobOf'[n] = jobOf[n]
                              /\ jobOf'[n] # jobOf[n] => n \in jobs /\ jobOf'[n] = status
                              /\ jobOf[n] \notin LiveStatuses => jobOf'[n] \notin LiveStatuses
                              /\ n \in jobs => jobOf'[n] \notin LiveStatuses
BY DEF RecipeTypes, Ending, Ended, Created, LiveStatuses, Outcomes

LEMMA RecipeInit_Inv == RecipeInit => RecipeInv
<1> SUFFICES ASSUME RecipeInit PROVE RecipeInv
  OBVIOUS
<1>1. step = 1 /\ 1 \in RSteps /\ \A n \in RSteps : ~(n < 1)
  BY RecipesAssumption DEF RecipeInit, RSteps
<1>2. RecipeTypes
  BY <1>1 DEF RecipeInit, RecipeTypes, RunPlaces, Begins
<1>3. Taken = {}
  BY DEF RecipeInit, Taken, Closers
<1>4. Held /\ Apart /\ Seated /\ Gone
  BY <1>3 DEF RecipeInit, Held, Apart, Seated, Gone
<1>5. Progress
  BY <1>1 DEF RecipeInit, Progress, Begins, Unanswered, Stops
<1> QED
  BY <1>2, <1>4, <1>5 DEF RecipeInv

\* What a step that ends jobs off the session, and leaves the run where it is, preserves.
LEMMA EndsJobs ==
  ASSUME RecipeInv, NEW jobs \in SUBSET Created, NEW status \in Outcomes, onSession \notin jobs,
         jobOf' = Ending(jobs, status), confirms' \subseteq confirms, approved' \subseteq approved,
         \A c \in Closers : closer'[c].at \in {"end", "done"} => shut,
         UNCHANGED <<runAt, step, shut, onSession, early>>
  PROVE  Progress' /\ Seated' /\ jobOf' \in [RSteps -> {"none"} \cup LiveStatuses \cup Outcomes]
         /\ Created' = Created
<1>1. RecipeTypes /\ step \in RSteps
  BY DEF RecipeInv, RecipeTypes
<1>2. /\ jobOf' \in [RSteps -> {"none"} \cup LiveStatuses \cup Outcomes]
      /\ Created' = Created
      /\ \A n \in RSteps : /\ Ended(n) => jobOf'[n] = jobOf[n]
                           /\ jobOf'[n] # jobOf[n] => n \in jobs /\ jobOf'[n] = status
                           /\ jobOf[n] \notin LiveStatuses => jobOf'[n] \notin LiveStatuses
  BY <1>1, EndingFacts
<1>3. \A n \in RSteps : /\ jobOf[n] = "exited" => Ended(n)
                        /\ Ended(n) => Ended(n)'
                        /\ jobOf'[n] = "running" => jobOf[n] = "running"
  BY <1>2 DEF Ended, LiveStatuses, Outcomes
<1>4. \A n \in RSteps : jobOf[n] = "none" => jobOf'[n] = "none"
  BY <1>2 DEF Created
<1>5. Settled => Settled'
  BY <1>1, <1>3 DEF Settled
<1>6. Progress'
  <2>1. \A n \in RSteps : n < step' => jobOf'[n] = "exited"
    BY <1>2, <1>3 DEF RecipeInv, Progress
  <2>2. \A n \in RSteps : n > step' \/ (n = step' /\ runAt' \in Begins) => jobOf'[n] = "none"
    BY <1>4 DEF RecipeInv, Progress
  <2>3. runAt' \in Unanswered /\ (step' \in approved' \/ jobOf'[step'] = "running") => early'
    BY <1>1, <1>3 DEF RecipeInv, Progress
  <2>4. runAt' \in Stops /\ ~early' => Settled'
    BY <1>5 DEF RecipeInv, Progress
  <2> QED
    BY <2>1, <2>2, <2>3, <2>4 DEF Progress
<1>7. onSession # 0 => onSession \in RSteps /\ jobOf'[onSession] = jobOf[onSession]
  BY <1>2 DEF RecipeInv, Held, Created
<1>8. Seated'
  BY <1>7 DEF RecipeInv, Seated
<1> QED
  BY <1>2, <1>6, <1>8

\* What a step that only moves the run on, between its stages or past its end,
\* preserves.
LEMMA RunMoves ==
  ASSUME RecipeInv, runAt \notin Begins \cup Stops,
         runAt' \in RunPlaces \ (Begins \cup Unanswered),
         runAt' \in Stops => Settled \/ early, runAt' = "returned" => ~adHoc,
         UNCHANGED <<step, adHoc, jobOf, confirms, approved, inRegistry, shut, onSession, settling, closer, early>>
  PROVE  RecipeInv'
<1>1. RecipeTypes' /\ Gone'
  BY DEF RecipeInv, RecipeTypes, Gone
<1>2. Taken' = Taken /\ Created' = Created /\ (Settled => Settled')
  BY DEF Taken, Created, Settled, Ended
<1>3. Held' /\ Apart'
  BY <1>2 DEF RecipeInv, Held, Apart
<1>4. Seated'
  BY DEF RecipeInv, Seated, Stops
<1>5. Progress'
  BY <1>2 DEF RecipeInv, Progress
<1> QED
  BY <1>1, <1>3, <1>4, <1>5 DEF RecipeInv

\* What ending the current step on the way out preserves, while it is not the
\* session's current job, or was approved early, or leaves the session with it.
LEMMA RunEnds ==
  ASSUME RecipeInv, NEW status \in Outcomes,
         runAt \notin Begins \cup Stops, runAt' = AfterSteps, jobOf' = Ending({step}, status),
         confirms' \subseteq confirms,
         \/ onSession' = onSession /\ (onSession = step => early)
         \/ onSession' = 0 /\ onSession = step
         \/ onSession' = onSession /\ onSession # step,
         UNCHANGED <<step, adHoc, approved, inRegistry, shut, settling, closer, early>>
  PROVE  RecipeInv'
<1>1. RecipeTypes /\ step \in RSteps /\ 0 \notin RSteps
  BY DEF RecipeInv, RecipeTypes, RSteps
<1>2. AfterSteps \in Stops /\ (AfterSteps = "returned" => ~adHoc)
  BY DEF AfterSteps, Stops
<1>3. /\ jobOf' \in [RSteps -> {"none"} \cup LiveStatuses \cup Outcomes]
      /\ Created \subseteq Created'
      /\ Ended(step)'
      /\ \A n \in RSteps : (n # step \/ Ended(n)) => jobOf'[n] = jobOf[n]
  BY <1>1 DEF Ending, Ended, Created, LiveStatuses, Outcomes, RecipeTypes
<1>4. RecipeTypes' /\ Gone'
  BY <1>1, <1>2, <1>3 DEF RecipeInv, RecipeTypes, Gone, RunPlaces, Stops
<1>5. Taken' = Taken /\ Taken \subseteq RSteps /\ confirms \cup approved \subseteq RSteps
  BY DEF Taken, RecipeInv, Held, Created
<1>6. Held' /\ Apart'
  BY <1>1, <1>3, <1>5 DEF RecipeInv, Held, Apart
<1>7. onSession # 0 => onSession \in RSteps
  BY DEF RecipeInv, Held, Created
<1>8. Seated'
  BY <1>1, <1>2, <1>3, <1>7 DEF RecipeInv, Seated
<1>9. Settled'
  BY <1>1, <1>3 DEF Settled, Ended, LiveStatuses
<1>10. Progress'
  BY <1>1, <1>2, <1>3, <1>9 DEF RecipeInv, Progress, RSteps, Begins, Unanswered, Stops
<1> QED
  BY <1>4, <1>6, <1>8, <1>10 DEF RecipeInv

LEMMA RecipeRun_Inv ==
  ASSUME RecipeInv,
         \/ FindSession \/ StartStep \/ StepWritten \/ StepParked \/ AskHuman \/ StepDone
         \/ Timeout \/ SignalJob \/ Grace \/ Look \/ ForceTerminal \/ Leave
         \/ \E ok \in BOOLEAN : CancelConfirm(ok)
  PROVE  RecipeInv'
<1> USE DEF RunGoes, sessionPart, RunPlaces, Begins, Unanswered, Stops
<1>a. AfterSteps \in Stops /\ (AfterSteps = "returned" => ~adHoc)
  BY DEF AfterSteps
<1>b. step \in RSteps /\ 0 \notin RSteps
  BY DEF RecipeInv, RecipeTypes, RSteps
<1>c. Ended(step) => Settled
  BY DEF Settled, Ended, LiveStatuses
<1>1. ASSUME runAt \in Begins, runAt' \in Begins \cup {AfterSteps},
             UNCHANGED <<step, adHoc, jobOf, confirms, approved, inRegistry, shut, onSession, settling, closer, early>>
      PROVE RecipeInv'
  <2>1. jobOf[step] = "none" /\ step \notin confirms \cup approved
    BY <1>1, <1>b DEF RecipeInv, Progress, Held, Created
  <2>2. RecipeTypes' /\ Gone'
    BY <1>1, <1>a DEF RecipeInv, RecipeTypes, Gone
  <2>3. Taken' = Taken /\ Created' = Created
    BY <1>1 DEF Taken, Created
  <2>4. Held' /\ Apart'
    BY <1>1, <2>3 DEF RecipeInv, Held, Apart
  <2>5. Seated'
    BY <1>1, <1>a DEF RecipeInv, Seated
  <2>6. Settled'
    BY <1>1, <2>1 DEF Settled
  <2>7. Progress'
    BY <1>1, <1>a, <2>1, <2>6 DEF RecipeInv, Progress
  <2> QED
    BY <2>2, <2>4, <2>5, <2>7 DEF RecipeInv
<1>2. ASSUME FindSession PROVE RecipeInv'
  BY <1>1, <1>2 DEF FindSession
<1>3. ASSUME StartStep PROVE RecipeInv'
  <2>1. /\ runAt = "start" /\ UNCHANGED <<step, adHoc, approved, inRegistry, shut, settling, closer, early>>
    BY <1>3 DEF StartStep
  <2>2. /\ jobOf[step] = "none" /\ step \notin confirms \cup approved \cup Taken
        /\ \A n \in RSteps : n < step \/ n = step \/ n > step
    BY <1>b, <2>1 DEF RecipeInv, Progress, Held, Created, RSteps
  <2>3. ASSUME NEW status \in LiveStatuses, jobOf' = [jobOf EXCEPT ![step] = status]
        PROVE  /\ jobOf' \in [RSteps -> {"none"} \cup LiveStatuses \cup Outcomes]
               /\ Created' = Created \cup {step} /\ jobOf'[step] = status
               /\ \A n \in RSteps : n # step => jobOf'[n] = jobOf[n]
    BY <1>b, <2>3 DEF RecipeInv, RecipeTypes, Created, LiveStatuses
  <2>4. CASE runAt' = AfterSteps /\ UNCHANGED <<jobOf, confirms, onSession>>
    BY <1>1, <2>1, <2>4
  <2>5. CASE /\ runAt' = "parked" /\ jobOf' = [jobOf EXCEPT ![step] = "awaiting"]
             /\ confirms' = confirms \cup {step} /\ UNCHANGED onSession
    <3>1. /\ jobOf' \in [RSteps -> {"none"} \cup LiveStatuses \cup Outcomes]
          /\ Created' = Created \cup {step} /\ jobOf'[step] = "awaiting"
          /\ \A n \in RSteps : n # step => jobOf'[n] = jobOf[n]
      BY <2>3, <2>5 DEF LiveStatuses
    <3>2. RecipeTypes' /\ Gone' /\ Taken' = Taken
      BY <2>1, <2>5, <3>1 DEF RecipeInv, RecipeTypes, Gone, Taken
    <3>3. onSession # step
      BY <2>1, <2>2, <1>b DEF RecipeInv, Held, Created
    <3>4. Held' /\ Apart'
      BY <2>1, <2>2, <2>5, <3>1, <3>2, <3>3 DEF RecipeInv, Held, Apart
    <3>5. Seated'
      BY <2>1, <2>5, <3>1, <3>3 DEF RecipeInv, Seated, Held, Created
    <3>6. Progress'
      BY <1>b, <2>1, <2>2, <2>5, <3>1 DEF RecipeInv, Progress, RSteps
    <3> QED
      BY <3>2, <3>4, <3>5, <3>6 DEF RecipeInv
  <2>6. CASE /\ runAt' = "writing" /\ ~shut /\ onSession = 0 /\ jobOf' = [jobOf EXCEPT ![step] = "running"]
             /\ onSession' = step /\ UNCHANGED confirms
    <3>1. /\ jobOf' \in [RSteps -> {"none"} \cup LiveStatuses \cup Outcomes]
          /\ Created' = Created \cup {step} /\ jobOf'[step] = "running"
          /\ \A n \in RSteps : n # step => jobOf'[n] = jobOf[n]
      BY <2>3, <2>6 DEF LiveStatuses
    <3>2. RecipeTypes' /\ Gone' /\ Taken' = Taken
      BY <2>1, <2>6, <3>1 DEF RecipeInv, RecipeTypes, Gone, Taken
    <3>3. Held' /\ Apart'
      BY <2>1, <2>2, <2>6, <3>1, <3>2 DEF RecipeInv, Held, Apart
    <3>4. Seated'
      BY <2>1, <2>6, <3>1 DEF RecipeInv, Seated
    <3>5. Progress'
      BY <1>b, <2>1, <2>2, <2>6, <3>1 DEF RecipeInv, Progress, RSteps
    <3> QED
      BY <3>2, <3>3, <3>4, <3>5 DEF RecipeInv
  <2> QED
    BY <1>3, <2>4, <2>5, <2>6 DEF StartStep
<1>4. ASSUME StepWritten PROVE RecipeInv'
  <2>1. CASE runAt' = "wait" /\ UNCHANGED <<jobOf, onSession>>
    BY <1>4, <2>1, RunMoves DEF StepWritten
  <2>2. CASE /\ jobOf' = Ending({step}, "failed") /\ runAt' = AfterSteps
             /\ onSession' = IF onSession = step THEN 0 ELSE onSession
    BY <1>4, <2>2, RunEnds DEF StepWritten, Outcomes
  <2> QED
    BY <1>4, <2>1, <2>2 DEF StepWritten
<1>5. ASSUME StepParked PROVE RecipeInv'
  <2>1. /\ runAt = "parked" /\ confirms' \subseteq confirms
        /\ UNCHANGED <<step, adHoc, jobOf, approved, inRegistry, shut, onSession, settling, closer, early>>
        /\ runAt' \in {"asking", AfterSteps}
        /\ runAt' = AfterSteps => step \notin confirms'
    BY <1>5, <1>a DEF StepParked
  <2>2. RecipeTypes' /\ Gone' /\ Taken' = Taken /\ Created' = Created
    BY <1>a, <2>1 DEF RecipeInv, RecipeTypes, Gone, Taken, Created
  <2>3. Held' /\ Apart'
    BY <2>1, <2>2 DEF RecipeInv, Held, Apart
  <2>4. Seated'
    BY <2>1 DEF RecipeInv, Seated
  <2>5. runAt' \in Stops /\ ~early' => Settled'
    BY <2>1 DEF RecipeInv, Progress, Settled
  <2>6. Progress'
    BY <1>a, <2>1, <2>5 DEF RecipeInv, Progress
  <2> QED
    BY <2>2, <2>3, <2>4, <2>6 DEF RecipeInv
<1>6. ASSUME AskHuman PROVE RecipeInv'
  <2>1. CASE runAt' = "wait" /\ early' = FALSE /\ UNCHANGED <<confirms, jobOf>>
    <3>1. /\ runAt = "asking" /\ UNCHANGED <<step, adHoc, approved, inRegistry, shut, onSession, settling, closer>>
      BY <1>6 DEF AskHuman
    <3>2. RecipeTypes' /\ Gone' /\ Taken' = Taken /\ Created' = Created
      BY <2>1, <3>1 DEF RecipeInv, RecipeTypes, Gone, Taken, Created
    <3>3. Held' /\ Apart'
      BY <2>1, <3>1, <3>2 DEF RecipeInv, Held, Apart
    <3>4. Seated' /\ Progress'
      BY <2>1, <3>1 DEF RecipeInv, Seated, Progress
    <3> QED
      BY <3>2, <3>3, <3>4 DEF RecipeInv
  <2>2. CASE /\ confirms' = confirms \ {step} /\ jobOf' = Ending({step}, "failed")
             /\ runAt' = AfterSteps /\ UNCHANGED early
    <3>1. /\ runAt = "asking" /\ UNCHANGED <<step, adHoc, approved, inRegistry, shut, onSession, settling, closer>>
      BY <1>6 DEF AskHuman
    <3>2. onSession = step => early
      BY <1>b, <3>1 DEF RecipeInv, Seated, Progress
    <3> QED
      BY <2>2, <3>1, <3>2, RunEnds DEF Outcomes
  <2> QED
    BY <1>6, <2>1, <2>2 DEF AskHuman
<1>7. ASSUME StepDone PROVE RecipeInv'
  <2>1. runAt = "wait" /\ Ended(step)
    BY <1>7 DEF StepDone
  <2>2. UNCHANGED <<adHoc, jobOf, confirms, approved, inRegistry, shut, onSession, settling, closer, early>>
    BY <1>7 DEF StepDone
  <2>3. CASE jobOf[step] = "exited" /\ step < NSteps
    <3>1. runAt' = "step" /\ step' = step + 1 /\ step' \in RSteps
      BY <1>7, <1>b, <2>3, RecipesAssumption DEF StepDone, RSteps
    <3>2. Progress'
      BY <1>b, <2>1, <2>2, <2>3, <3>1 DEF RecipeInv, Progress, RSteps
    <3>3. Taken' = Taken /\ Created' = Created
      BY <2>2 DEF Taken, Created
    <3>4. Held' /\ Apart'
      BY <2>2, <3>3 DEF RecipeInv, Held, Apart
    <3>5. Seated'
      BY <2>1, <2>2 DEF RecipeInv, Seated
    <3> QED
      BY <2>1, <2>2, <3>1, <3>2, <3>4, <3>5 DEF RecipeInv, RecipeTypes, Gone
  <2>4. CASE ~(jobOf[step] = "exited" /\ step < NSteps)
    <3>1. runAt' = AfterSteps /\ step' = step
      BY <1>7, <2>4 DEF StepDone
    <3> QED
      BY <1>a, <1>c, <2>1, <2>2, <3>1, RunMoves
  <2> QED
    BY <2>3, <2>4
<1>8. ASSUME Timeout \/ SignalJob PROVE RecipeInv'
  BY <1>8, RunMoves DEF Timeout, SignalJob
<1>9. ASSUME Grace \/ Look PROVE RecipeInv'
  <2>1. /\ runAt \in {"grace", "look"}
        /\ runAt' = "close" \/ (runAt' = AfterSteps /\ Ended(step))
        /\ UNCHANGED <<step, adHoc, jobOf, confirms, approved, inRegistry, shut, onSession, settling, closer, early>>
    BY <1>9 DEF Grace, Look
  <2> QED
    BY <1>a, <1>c, <2>1, RunMoves
<1>10. ASSUME NEW ok \in BOOLEAN, CancelConfirm(ok) PROVE RecipeInv'
  <2>1. CASE step \in confirms
    <3>1. /\ jobOf' = Ending({step}, "killed") /\ runAt' \in {"grace", "look"} /\ runAt = "cancel"
          /\ confirms' \subseteq confirms
          /\ UNCHANGED <<step, adHoc, approved, inRegistry, shut, onSession, settling, closer, early>>
      BY <1>10, <2>1 DEF CancelConfirm
    <3>2. /\ {step} \in SUBSET Created /\ "killed" \in Outcomes /\ RecipeTypes
          /\ onSession # step
      BY <2>1 DEF RecipeInv, Held, Apart, Outcomes
    <3>3. /\ jobOf' \in [RSteps -> {"none"} \cup LiveStatuses \cup Outcomes] /\ Created' = Created
          /\ \A n \in RSteps : /\ Ended(n) => jobOf'[n] = jobOf[n]
                               /\ jobOf'[n] # jobOf[n] => n \in {step} /\ jobOf'[n] = "killed"
      BY <3>1, <3>2, EndingFacts, SMTT(30)
    <3>4. Progress'
      BY <1>b, <3>1, <3>3 DEF RecipeInv, RecipeTypes, Progress, Ended, Created, LiveStatuses, RSteps
    <3>5. Taken' = Taken
      BY <3>1 DEF Taken
    <3>6. Held' /\ Apart'
      BY <3>1, <3>3, <3>5 DEF RecipeInv, Held, Apart
    <3>7. Seated'
      BY <3>1, <3>2, <3>3 DEF RecipeInv, Seated, Held, Created
    <3> QED
      BY <3>1, <3>3, <3>4, <3>6, <3>7 DEF RecipeInv, RecipeTypes, Gone
  <2>2. CASE step \notin confirms
    BY <1>10, <2>2, RunMoves DEF CancelConfirm
  <2> QED
    BY <2>1, <2>2
<1>11. ASSUME ForceTerminal PROVE RecipeInv'
  <2>1. /\ jobOf' = Ending({step}, "orphaned") /\ runAt' = AfterSteps /\ runAt = "close"
        /\ UNCHANGED <<step, adHoc, confirms, approved, inRegistry, shut, onSession, settling, closer, early>>
        /\ closer["recipe"].at = "done"
    BY <1>11 DEF ForceTerminal
  <2>2. onSession = 0
    BY <2>1 DEF RecipeInv, Seated, Closers
  <2> QED
    BY <1>b, <2>1, <2>2, RunEnds DEF Outcomes
<1>12. ASSUME Leave PROVE RecipeInv'
  <2>1. ~inRegistry
    BY <1>12 DEF Leave, Closers, RecipeInv, Gone
  <2>2. /\ runAt = "leave" /\ runAt' = "returned"
        /\ UNCHANGED <<step, adHoc, jobOf, confirms, approved, inRegistry, shut, onSession, settling, closer, early>>
    BY <1>12 DEF Leave
  <2>3. Taken' = Taken /\ Created' = Created /\ (Settled => Settled')
    BY <2>2 DEF Taken, Created, Settled, Ended
  <2>4. Held' /\ Apart'
    BY <2>2, <2>3 DEF RecipeInv, Held, Apart
  <2>5. Seated' /\ Progress'
    BY <2>2, <2>3 DEF RecipeInv, Seated, Progress
  <2> QED
    BY <2>1, <2>2, <2>4, <2>5 DEF RecipeInv, RecipeTypes, Gone
<1> QED
  BY <1>2, <1>3, <1>4, <1>5, <1>6, <1>7, <1>8, <1>9, <1>10, <1>11, <1>12

LEMMA RecipeNext_Inv == RecipeInv /\ [RecipeNext]_recipeVars => RecipeInv'
<1> SUFFICES ASSUME RecipeInv, [RecipeNext]_recipeVars PROVE RecipeInv'
  OBVIOUS
<1> USE DEF sessionPart
<1>b. step \in RSteps /\ 0 \notin RSteps
  BY DEF RecipeInv, RecipeTypes, RSteps
<1>1. ASSUME \/ FindSession \/ StartStep \/ StepWritten \/ StepParked \/ AskHuman \/ StepDone
             \/ Timeout \/ SignalJob \/ Grace \/ Look \/ ForceTerminal \/ Leave
             \/ \E ok \in BOOLEAN : CancelConfirm(ok)
      PROVE RecipeInv'
  BY <1>1, RecipeRun_Inv
<1>2. ASSUME NEW c \in Closers, Unlist(c) PROVE RecipeInv'
  <2> DEFINE cancelled == IF inRegistry THEN confirms ELSE {}
  <2>1. /\ confirms' = confirms \ cancelled /\ ~inRegistry' /\ closer[c].at = "idle"
        /\ closer' = [closer EXCEPT ![c] = [at |-> "mark", jobs |-> cancelled]]
        /\ UNCHANGED <<runAt, step, adHoc, jobOf, approved, shut, onSession, settling, early>>
    BY <1>2 DEF Unlist
  <2>2. cancelled \subseteq confirms /\ confirms \subseteq Created /\ Created \subseteq RSteps
    BY DEF RecipeInv, Held, Created
  <2>3. RecipeTypes' /\ Created' = Created
    BY <2>1, <2>2 DEF RecipeInv, RecipeTypes, Created
  <2>4. /\ closer'[c].jobs = cancelled /\ closer'[c].at = "mark"
        /\ \A d \in Closers : d # c => closer'[d] = closer[d]
    BY <2>1 DEF RecipeInv, RecipeTypes
  <2>5. Taken' \subseteq Taken \cup cancelled
    BY <2>1, <2>4 DEF Taken, Closers
  <2>6. Held' /\ Apart'
    BY <2>1, <2>2, <2>3, <2>5 DEF RecipeInv, Held, Apart
  <2>7. Seated' /\ Gone'
    BY <2>1, <2>4 DEF RecipeInv, Seated, Gone
  <2>8. confirms' \subseteq confirms /\ (Settled => Settled')
    BY <2>1 DEF Settled, Ended
  <2>9. Progress'
    BY <2>1, <2>8 DEF RecipeInv, Progress
  <2> QED
    BY <2>3, <2>6, <2>7, <2>9 DEF RecipeInv
<1>3. ASSUME NEW c \in Closers, MarkShut(c) PROVE RecipeInv'
  <2> DEFINE more == IF ~shut /\ onSession # 0 THEN {onSession} ELSE {}
  <2>1. /\ closer[c].jobs \cup more \subseteq Created /\ Created \subseteq RSteps
        /\ more \cap (confirms \cup approved) = {}
    BY DEF RecipeInv, Held, Apart, Created, Taken, Closers
  <2>2. /\ closer[c].at = "mark" /\ onSession' = 0 /\ shut'
        /\ UNCHANGED <<runAt, step, adHoc, jobOf, confirms, approved, inRegistry, settling, early>>
    BY <1>3 DEF MarkShut
  <2>3. /\ closer' \in [Closers -> [at : {"idle", "mark", "end", "done"}, jobs : SUBSET RSteps]]
        /\ closer'[c].jobs = closer[c].jobs \cup more
        /\ \A d \in Closers : d # c => closer'[d] = closer[d]
    BY <1>3, <2>1 DEF MarkShut, RecipeInv, RecipeTypes
  <2>4. RecipeTypes' /\ Created' = Created
    BY <2>2, <2>3 DEF RecipeInv, RecipeTypes, Created
  <2>5. Taken' = Taken \cup more
    BY <2>2, <2>3 DEF Taken, Closers
  <2>6. Held' /\ Apart'
    BY <1>b, <2>1, <2>2, <2>4, <2>5 DEF RecipeInv, Held, Apart
  <2>7. Settled => Settled'
    BY <2>2 DEF Settled, Ended
  <2>8. Progress'
    BY <2>2, <2>7 DEF RecipeInv, Progress
  <2>9. Seated' /\ Gone'
    BY <2>2, <2>3 DEF RecipeInv, Seated, Gone
  <2> QED
    BY <2>4, <2>6, <2>8, <2>9 DEF RecipeInv
<1>4. ASSUME NEW c \in Closers, EndJobs(c) PROVE RecipeInv'
  <2>1. /\ jobOf' = Ending(closer[c].jobs, "closed") /\ closer[c].at = "end"
        /\ closer' = [closer EXCEPT ![c] = [at |-> "done", jobs |-> {}]]
        /\ UNCHANGED <<runAt, step, adHoc, confirms, approved, inRegistry, shut, onSession, settling, early>>
    BY <1>4 DEF EndJobs
  <2>2. closer[c].jobs \in SUBSET Created /\ "closed" \in Outcomes /\ onSession \notin closer[c].jobs
    BY DEF RecipeInv, Held, Apart, Taken, Closers, Outcomes
  <2>3. /\ closer'[c].jobs = {}
        /\ \A d \in Closers : d # c => closer'[d] = closer[d]
        /\ \A d \in Closers : closer'[d].at \in {"end", "done"} => shut
    BY <2>1 DEF RecipeInv, RecipeTypes, Seated
  <2>4. Taken' \subseteq Taken
    BY <2>1, <2>3 DEF Taken, Closers
  <2>5. /\ Progress' /\ Seated' /\ jobOf' \in [RSteps -> {"none"} \cup LiveStatuses \cup Outcomes]
        /\ Created' = Created
    BY <2>1, <2>2, <2>3, EndsJobs
  <2>6. Held' /\ Apart'
    BY <2>1, <2>4, <2>5 DEF RecipeInv, Held, Apart
  <2> QED
    BY <2>1, <2>5, <2>6 DEF RecipeInv, RecipeTypes, Gone
<1>5. ASSUME ShellFinishes PROVE RecipeInv'
  <2>1. /\ onSession # 0 /\ settling' = settling \cup {onSession} /\ onSession' = 0
        /\ UNCHANGED <<runAt, step, adHoc, jobOf, confirms, approved, inRegistry, shut, closer, early>>
    BY <1>5 DEF ShellFinishes
  <2>2. Taken' = Taken \cup {onSession} /\ Created' = Created /\ (Settled => Settled')
    BY <2>1 DEF Taken, Created, Settled, Ended
  <2>3. Created \subseteq RSteps
    BY DEF Created
  <2>4. Held' /\ Apart'
    BY <1>b, <2>1, <2>2, <2>3 DEF RecipeInv, Held, Apart
  <2>5. Seated' /\ Progress'
    BY <2>1, <2>2 DEF RecipeInv, Seated, Progress
  <2> QED
    BY <2>1, <2>4, <2>5 DEF RecipeInv, RecipeTypes, Gone
<1>6. ASSUME NEW n \in RSteps, ShellReports(n) PROVE RecipeInv'
  <2>1. PICK status \in {"exited", "failed"} : jobOf' = Ending({n}, status)
    BY <1>6 DEF ShellReports
  <2>2. /\ n \in settling /\ settling' \subseteq settling
        /\ UNCHANGED <<runAt, step, adHoc, confirms, approved, inRegistry, shut, onSession, closer, early>>
    BY <1>6 DEF ShellReports
  <2>3. {n} \in SUBSET Created /\ status \in Outcomes /\ onSession \notin {n}
    BY <2>2 DEF RecipeInv, Held, Apart, Taken, Outcomes
  <2>4. \A c \in Closers : closer'[c].at \in {"end", "done"} => shut
    BY <2>2 DEF RecipeInv, Seated
  <2>5. /\ Progress' /\ Seated' /\ jobOf' \in [RSteps -> {"none"} \cup LiveStatuses \cup Outcomes]
        /\ Created' = Created
    BY <2>1, <2>2, <2>3, <2>4, EndsJobs
  <2>6. Taken' \subseteq Taken
    BY <2>2 DEF Taken
  <2>7. Held' /\ Apart'
    BY <2>2, <2>5, <2>6 DEF RecipeInv, Held, Apart
  <2> QED
    BY <2>2, <2>5, <2>7 DEF RecipeInv, RecipeTypes, Gone
<1>7. ASSUME NEW n \in RSteps, Resolve(n) PROVE RecipeInv'
  <2>1. /\ n \in confirms /\ confirms' = confirms \ {n}
        /\ UNCHANGED <<runAt, step, adHoc, inRegistry, shut, onSession, settling, closer>>
    BY <1>7 DEF Resolve
  <2>2. {n} \in SUBSET Created /\ "rejected" \in Outcomes /\ onSession \notin {n}
    BY <2>1 DEF RecipeInv, Held, Apart, Outcomes
  <2>3. Taken' = Taken
    BY <2>1 DEF Taken
  <2>4. CASE /\ approved' = approved \cup {n} /\ UNCHANGED jobOf
             /\ early' = (early \/ runAt \in {"parked", "asking"})
    <3>1. Created' = Created /\ (Settled => Settled')
      BY <2>1, <2>4 DEF Created, Settled, Ended
    <3>2. Held' /\ Apart'
      BY <2>1, <2>2, <2>3, <2>4, <3>1 DEF RecipeInv, Held, Apart
    <3>3. Seated'
      BY <2>1, <2>4 DEF RecipeInv, Seated
    <3>4. Progress'
      BY <2>1, <2>4, <3>1 DEF RecipeInv, Progress, Unanswered
    <3> QED
      BY <2>1, <2>4, <3>2, <3>3, <3>4 DEF RecipeInv, RecipeTypes, Gone
  <2>5. CASE jobOf' = Ending({n}, "rejected") /\ UNCHANGED <<approved, early>>
    <3>1. \A c \in Closers : closer'[c].at \in {"end", "done"} => shut
      BY <2>1 DEF RecipeInv, Seated
    <3>2. /\ Progress' /\ Seated' /\ jobOf' \in [RSteps -> {"none"} \cup LiveStatuses \cup Outcomes]
          /\ Created' = Created
      BY <2>1, <2>2, <2>5, <3>1, EndsJobs
    <3>3. Held' /\ Apart'
      BY <2>1, <2>3, <2>5, <3>2 DEF RecipeInv, Held, Apart
    <3> QED
      BY <2>1, <3>2, <3>3 DEF RecipeInv, RecipeTypes, Gone
  <2> QED
    BY <1>7, <2>4, <2>5 DEF Resolve
<1>8. ASSUME NEW n \in RSteps, StartApproved(n) PROVE RecipeInv'
  <2>1. /\ n \in Created /\ n \in approved /\ approved' = approved \ {n} /\ onSession # n
        /\ UNCHANGED <<runAt, step, adHoc, confirms, inRegistry, shut, settling, closer, early>>
    BY <1>8 DEF StartApproved, RecipeInv, Held, Apart
  <2>2. Taken' = Taken
    BY <2>1 DEF Taken
  <2>3. CASE /\ ~shut /\ ~Ended(n) /\ onSession' = n /\ jobOf' = [jobOf EXCEPT ![n] = "running"]
    <3>1. jobOf[n] \in LiveStatuses
      BY <2>1, <2>3 DEF Ended, Created
    <3>2. /\ jobOf' \in [RSteps -> {"none"} \cup LiveStatuses \cup Outcomes] /\ Created' = Created
          /\ jobOf'[n] = "running" /\ \A m \in RSteps : m # n => jobOf'[m] = jobOf[m]
      BY <2>3, <3>1 DEF RecipeInv, RecipeTypes, Created, LiveStatuses
    <3>3. Settled => Settled'
      <4> SUFFICES ASSUME Settled PROVE Settled'
        OBVIOUS
      <4>1. n # step
        BY <2>1, <2>3 DEF Settled
      <4>2. jobOf'[step] = jobOf[step]
        BY <1>b, <3>2, <4>1
      <4> QED
        BY <2>1, <4>2 DEF Settled, Ended
    <3>4. Progress'
      BY <1>b, <2>1, <3>1, <3>2, <3>3 DEF RecipeInv, RecipeTypes, Progress, LiveStatuses
    <3>5. Held' /\ Apart'
      BY <2>1, <2>2, <2>3, <3>2 DEF RecipeInv, Held, Apart
    <3>6. Seated'
      BY <2>1, <2>3, <3>2 DEF RecipeInv, Seated
    <3> QED
      BY <2>1, <3>2, <3>4, <3>5, <3>6 DEF RecipeInv, RecipeTypes, Gone
  <2>4. CASE jobOf' = Ending({n}, "failed") /\ UNCHANGED onSession
    <3>1. {n} \in SUBSET Created /\ "failed" \in Outcomes
      BY <2>1 DEF Outcomes
    <3>2. \A c \in Closers : closer'[c].at \in {"end", "done"} => shut
      BY <2>1 DEF RecipeInv, Seated
    <3>3. /\ Progress' /\ Seated' /\ jobOf' \in [RSteps -> {"none"} \cup LiveStatuses \cup Outcomes]
          /\ Created' = Created
      BY <2>1, <2>4, <3>1, <3>2, EndsJobs
    <3>4. Held' /\ Apart'
      BY <2>1, <2>2, <2>4, <3>3 DEF RecipeInv, Held, Apart
    <3> QED
      BY <2>1, <3>3, <3>4 DEF RecipeInv, RecipeTypes, Gone
  <2> QED
    BY <1>8, <2>3, <2>4 DEF StartApproved
<1>9. ASSUME UNCHANGED recipeVars PROVE RecipeInv'
  <2>1. Taken' = Taken /\ Created' = Created /\ (Settled => Settled')
    BY <1>9 DEF recipeVars, Taken, Created, Settled, Ended
  <2> QED
    BY <1>9, <2>1 DEF recipeVars, RecipeInv, RecipeTypes, Held, Apart, Seated, Progress, Gone
<1> QED
  BY <1>1, <1>2, <1>3, <1>4, <1>5, <1>6, <1>7, <1>8, <1>9 DEF RecipeNext

\* However the approver, the shell and other closers interleave with it, a
\* recipe of any length returns with no step holding its session, live or able
\* to start, except one that was approved before its Start answered with an
\* error; with its own session closed; and with only its last step other than a
\* success (RunRecipe, registerPending, enqueueConfirm, interruptRecipeJob).
THEOREM NothingLeft == RecipeSpec => []RecipeLeavesNothing
<1>1. RecipeInv => RecipeLeavesNothing
  <2> SUFFICES ASSUME RecipeInv, runAt = "returned" PROVE RecipeLeavesNothing
    BY DEF RecipeLeavesNothing
  <2>1. step \in RSteps /\ RSteps \subseteq Nat
    BY DEF RecipeInv, RecipeTypes, RSteps
  <2>2. ASSUME NEW n \in RSteps, Loose(n) PROVE n = step /\ early
    <3>0. n # 0
      BY DEF RSteps
    <3>1. jobOf[n] # "none"
      BY <2>2, <3>0 DEF Loose, RecipeInv, Held, Created
    <3>2. onSession = n => jobOf[n] = "running" \/ (early /\ n = step)
      BY <3>0 DEF RecipeInv, Seated
    <3>3. n = step
      <4>1. jobOf[n] = "exited" => Ended(n)
        BY DEF Ended, LiveStatuses
      <4>2. n = step \/ jobOf[n] # "exited"
        BY <2>2, <3>2, <4>1 DEF Loose
      <4> QED
        BY <2>1, <3>1, <4>2 DEF RecipeInv, Progress
    <3>4. early
      BY <2>2, <3>2, <3>3 DEF Loose, RecipeInv, Progress, Settled, Stops
    <3> QED
      BY <3>3, <3>4
  <2>3. \A n \in 1..(step - 1) : n \in RSteps /\ n < step
    BY <2>1, RecipesAssumption DEF RSteps
  <2> QED
    BY <2>2, <2>3 DEF RecipeInv, Progress, Gone, RecipeLeavesNothing
<1> QED
  BY RecipeInit_Inv, RecipeNext_Inv, <1>1, PTL DEF RecipeSpec

-----------------------------------------------------------------------------
(* Plugins: what an agent is offered, and answered, is the pinned file's.  *)

Loading == [pc : {"idle", "pinned", "described"}, plug : Plugs \cup {NoPlug}, pinned : Nat, ran : Nat]
Calling == [pc : {"idle", "recorded", "slot", "checked", "ran", "ok"}, plug : Plugs \cup {NoPlug}, ran : Nat]

\* The part of the type invariant that the argument needs.
PlugTypes ==
    /\ installed \in [Plugs -> Nat \ {0}]
    /\ loaded \in [Plugs -> Nat] /\ describedBy \in [Plugs -> Nat]
    /\ loader \in Loading /\ serving \in BOOLEAN
    /\ invocation \in [PlugCalls -> Calling]
    /\ putBack \in [loads : SUBSET Plugs, calls : SUBSET PlugCalls]

\* Once the file is away from what was pinned, it stays away until the history
\* says that it was put back: so what ran is the pinned version, or the check that
\* follows fails, or the history knows.
LoaderInv ==
    /\ loader.pc # "idle" => loader.plug \in Plugs /\ ~serving
    /\ loader.pc = "described" /\ loader.plug \notin putBack.loads =>
          loader.ran = loader.pinned \/ installed[loader.plug] # loader.pinned

LoadedInv(p) == loaded[p] # NotPinned /\ p \notin putBack.loads => describedBy[p] = loaded[p]

CallInv(c) ==
    /\ invocation[c].pc # "idle" => serving /\ invocation[c].plug \in Plugs
    /\ invocation[c].pc = "ran" /\ c \notin putBack.calls =>
          \/ invocation[c].ran = loaded[invocation[c].plug]
          \/ installed[invocation[c].plug] # loaded[invocation[c].plug]
    /\ invocation[c].pc = "ok" /\ c \notin putBack.calls => invocation[c].ran = loaded[invocation[c].plug]

PlugInv ==
    /\ PlugTypes /\ LoaderInv
    /\ \A p \in Plugs : LoadedInv(p)
    /\ \A c \in PlugCalls : CallInv(c)

LEMMA PlugInit_Inv == PlugInit => PlugInv
<1> SUFFICES ASSUME PlugInit PROVE PlugInv
  OBVIOUS
<1>1. PlugTypes
  <2>1. installed \in [Plugs -> Nat \ {0}]
    BY DEF PlugInit
  <2>2. loaded \in [Plugs -> Nat] /\ describedBy \in [Plugs -> Nat]
    BY DEF PlugInit, NotPinned
  <2>3. AtRest \in Loading /\ Quiet \in Calling
    BY DEF AtRest, Quiet, Loading, Calling, NotPinned
  <2>4. loader \in Loading /\ serving \in BOOLEAN /\ invocation \in [PlugCalls -> Calling]
    BY <2>3 DEF PlugInit
  <2>5. putBack \in [loads : SUBSET Plugs, calls : SUBSET PlugCalls]
    BY DEF PlugInit
  <2> QED
    BY <2>1, <2>2, <2>4, <2>5 DEF PlugTypes
<1>2. LoaderInv /\ \A p \in Plugs : LoadedInv(p)
  BY DEF PlugInit, LoaderInv, LoadedInv, AtRest, NotPinned
<1>3. \A c \in PlugCalls : CallInv(c)
  BY DEF PlugInit, CallInv, Quiet
<1> QED
  BY <1>1, <1>2, <1>3 DEF PlugInv

\* A request's own step cannot hurt what is loaded, or another request.
LEMMA OwnStep ==
  ASSUME PlugInv, NEW c \in PlugCalls,
         NEW i \in Calling,
         invocation' = [invocation EXCEPT ![c] = i],
         UNCHANGED <<installed, loader, loaded, describedBy, serving>>,
         \/ UNCHANGED putBack
         \/ putBack' = [putBack EXCEPT !.calls = @ \ {c}],
         CallInv(c)'
  PROVE  PlugInv'
<1>1. PlugTypes' /\ LoaderInv' /\ \A p \in Plugs : LoadedInv(p)'
  BY DEF PlugInv, PlugTypes, LoaderInv, LoadedInv, Loading
<1>2. \A d \in PlugCalls : CallInv(d)'
  BY DEF PlugInv, PlugTypes, CallInv, Calling
<1> QED
  BY <1>1, <1>2 DEF PlugInv

LEMMA PlugNext_Inv == PlugInv /\ [PlugNext]_plugVars => PlugInv'
<1> SUFFICES ASSUME PlugInv, [PlugNext]_plugVars PROVE PlugInv'
  OBVIOUS
<1> USE DEF PlugInv, Loading, Calling
<1>1. ASSUME NEW p \in Plugs, NEW v \in 1..MaxBuilds, Replace(p, v) PROVE PlugInv'
  <2>1. /\ installed' = [installed EXCEPT ![p] = v]
        /\ putBack'.loads = putBack.loads \cup {q \in {p} : LoadWindow(q) /\ loader.pinned = v}
        /\ putBack'.calls = putBack.calls \cup {c \in PlugCalls : CallWindow(c, p) /\ loaded[p] = v}
        /\ UNCHANGED <<loader, loaded, describedBy, serving, sink, trail, invocation>>
    BY <1>1 DEF Replace
  <2>2. v \in Nat \ {0}
    BY PluginsAssumption
  <2>3. PlugTypes'
    <3>1. putBack' \in [loads : SUBSET Plugs, calls : SUBSET PlugCalls]
      BY <1>1 DEF Replace, PlugTypes
    <3> QED
      BY <2>1, <2>2, <3>1 DEF PlugTypes
  <2>4. LoaderInv'
    BY <2>1 DEF PlugTypes, LoaderInv, LoadWindow
  <2>5. \A q \in Plugs : LoadedInv(q)'
    BY <2>1 DEF LoadedInv
  <2>6. \A c \in PlugCalls : CallInv(c)'
    BY <2>1 DEF PlugTypes, CallInv, CallWindow
  <2> QED
    BY <2>3, <2>4, <2>5, <2>6
<1>2. ASSUME NEW p \in Plugs, Pin(p) PROVE PlugInv'
  <2>1. installed[p] \in Nat /\ loader' = [pc |-> "pinned", plug |-> p, pinned |-> installed[p], ran |-> 0]
    BY <1>2 DEF Pin, AtRest, NotPinned, PlugTypes
  <2>2. PlugTypes'
    BY <1>2, <2>1 DEF Pin, PlugTypes
  <2>3. LoaderInv'
    BY <1>2, <2>1 DEF Pin, LoaderInv
  <2>4. \A q \in Plugs : LoadedInv(q)'
    BY <1>2 DEF Pin, LoadedInv, PlugTypes
  <2>5. \A c \in PlugCalls : CallInv(c)'
    BY <1>2 DEF Pin, CallInv, PlugTypes
  <2> QED
    BY <2>2, <2>3, <2>4, <2>5
<1>3. ASSUME Describe PROVE PlugInv'
  <2>1. /\ loader.plug \in Plugs /\ installed[loader.plug] \in Nat
        /\ loader'.pc = "described" /\ loader'.plug = loader.plug
        /\ loader'.pinned = loader.pinned /\ loader'.ran = installed[loader.plug]
    BY <1>3 DEF Describe, PlugTypes, LoaderInv
  <2>2. PlugTypes'
    BY <1>3, <2>1 DEF Describe, PlugTypes
  <2>3. LoaderInv'
    BY <1>3, <2>1 DEF Describe, LoaderInv, PlugTypes
  <2> QED
    BY <1>3, <2>2, <2>3 DEF Describe, LoadedInv, CallInv
<1>4. ASSUME DescribeFails PROVE PlugInv'
  BY <1>4 DEF DescribeFails, AtRest, NotPinned, PlugTypes, LoaderInv, LoadedInv, CallInv
<1>5. ASSUME Keep PROVE PlugInv'
  <2>1. loader.plug \in Plugs /\ ~serving
    BY <1>5 DEF Keep, LoaderInv
  <2>2. \A c \in PlugCalls : invocation[c].pc = "idle" /\ invocation' = invocation
    BY <1>5, <2>1 DEF Keep, CallInv, PlugTypes
  <2>3. \A q \in Plugs : LoadedInv(q)'
    <3>1. CASE installed[loader.plug] = loader.pinned
      <4>1. loader.plug \notin putBack.loads => loader.ran = loader.pinned
        BY <1>5, <2>1, <3>1 DEF Keep, LoaderInv, PlugTypes
      <4> QED
        BY <1>5, <2>1, <3>1, <4>1 DEF Keep, LoadedInv, PlugTypes
    <3>2. CASE installed[loader.plug] # loader.pinned
      BY <1>5, <3>2 DEF Keep, LoadedInv
    <3> QED
      BY <3>1, <3>2
  <2>4. PlugTypes' /\ LoaderInv'
    BY <1>5, <2>1 DEF Keep, AtRest, NotPinned, PlugTypes, LoaderInv
  <2>5. \A c \in PlugCalls : CallInv(c)'
    BY <1>5, <2>2 DEF Keep, CallInv
  <2> QED
    BY <2>3, <2>4, <2>5
<1>6. ASSUME Serve PROVE PlugInv'
  BY <1>6 DEF Serve, PlugTypes, LoaderInv, LoadedInv, CallInv
<1>7. ASSUME SinkGone PROVE PlugInv'
  BY <1>7 DEF SinkGone, PlugTypes, LoaderInv, LoadedInv, CallInv
<1>8. ASSUME NEW c \in PlugCalls, NEW p \in Plugs, RecordCall(c, p) PROVE PlugInv'
  <2> DEFINE i == [pc |-> "recorded", plug |-> p, ran |-> NotPinned]
  <2>1. CallInv(c)'
    BY <1>8 DEF RecordCall, CallInv, PlugTypes
  <2> QED
    BY <1>8, <2>1, OwnStep DEF RecordCall, NotPinned
<1>9. ASSUME NEW c \in PlugCalls, Reply(c), UNCHANGED <<installed, loader, loaded, describedBy, serving>>,
             \/ UNCHANGED putBack
             \/ putBack' = [putBack EXCEPT !.calls = @ \ {c}]
      PROVE PlugInv'
  <2>1. CallInv(c)'
    BY <1>9 DEF Reply, Quiet, CallInv, PlugTypes
  <2> QED
    BY <1>9, <2>1, OwnStep DEF Reply, Quiet, NotPinned
<1>10. ASSUME NEW c \in PlugCalls, NEW to \in {"slot", "checked"},
              invocation[c].pc \in {"recorded", "slot"},
              invocation' = [invocation EXCEPT ![c].pc = to],
              UNCHANGED <<installed, loader, loaded, describedBy, serving>>,
              \/ UNCHANGED putBack
              \/ putBack' = [putBack EXCEPT !.calls = @ \ {c}]
       PROVE PlugInv'
  <2> DEFINE i == [invocation[c] EXCEPT !.pc = to]
  <2>1. CallInv(c)'
    BY <1>10 DEF CallInv, PlugTypes
  <2>2. i \in Calling
    BY DEF PlugTypes
  <2>3. invocation' = [invocation EXCEPT ![c] = i]
    BY <1>10 DEF PlugTypes
  <2> QED
    BY <1>10, <2>1, <2>2, <2>3, OwnStep
<1>11. ASSUME NEW c \in PlugCalls, TakeSlot(c) PROVE PlugInv'
  BY <1>9, <1>10, <1>11 DEF TakeSlot
<1>12. ASSUME NEW c \in PlugCalls, CheckBefore(c) PROVE PlugInv'
  BY <1>9, <1>10, <1>12 DEF CheckBefore
<1>13. ASSUME NEW c \in PlugCalls, Run(c) PROVE PlugInv'
  <2> DEFINE i == [invocation[c] EXCEPT !.pc = "ran", !.ran = installed[invocation[c].plug]]
  <2>1. invocation[c].plug \in Plugs /\ LoadedInv(invocation[c].plug)
    BY <1>13 DEF Run, CallInv
  <2>2. i \in Calling
    BY <2>1, ZenonT(60) DEF PlugTypes
  <2>3. invocation' = [invocation EXCEPT ![c] = i]
    BY <1>13 DEF Run, PlugTypes
  <2>4. CallInv(c)'
    BY <1>13, <2>1, <2>3 DEF Run, CallInv, LoadedInv, PlugTypes
  <2> QED
    BY <1>13, <2>2, <2>3, <2>4, OwnStep DEF Run
<1>14. ASSUME NEW c \in PlugCalls, CheckAfter(c) PROVE PlugInv'
  <2>1. CASE Unchanged(c)
    <3> DEFINE i == [invocation[c] EXCEPT !.pc = "ok"]
    <3>1. c \notin putBack.calls => invocation[c].ran = loaded[invocation[c].plug]
      BY <1>14, <2>1 DEF CheckAfter, Unchanged, CallInv
    <3>2. i \in Calling
      BY DEF PlugTypes
    <3>3. invocation' = [invocation EXCEPT ![c] = i]
      BY <1>14, <2>1 DEF CheckAfter, PlugTypes
    <3>4. CallInv(c)'
      BY <1>14, <3>1, <3>3 DEF CheckAfter, CallInv, PlugTypes
    <3> QED
      BY <1>14, <3>2, <3>3, <3>4, OwnStep DEF CheckAfter
  <2>2. CASE ~Unchanged(c)
    BY <1>9, <1>14, <2>2 DEF CheckAfter
  <2> QED
    BY <2>1, <2>2
<1>15. ASSUME NEW c \in PlugCalls, Finish(c) \/ RunFails(c) PROVE PlugInv'
  BY <1>9, <1>15 DEF Finish, RunFails
<1>16. ASSUME UNCHANGED plugVars PROVE PlugInv'
  BY <1>16 DEF plugVars, PlugTypes, LoaderInv, LoadedInv, CallInv
<1> QED
  BY <1>1, <1>2, <1>3, <1>4, <1>5, <1>6, <1>7, <1>8, <1>11, <1>12, <1>13, <1>14, <1>15, <1>16 DEF PlugNext

\* The description on offer, and every answer, were produced by the very file
\* that Load pinned, although the processes run whatever is at the path, and
\* whatever anybody puts there: only a load or a call during which the pinned
\* file was taken away and put back is not spoken of (Manager.Load, Manager.Call).
THEOREM PinnedAnswers == PlugSpec => []AnswerIsPinned
<1>1. PlugInv => AnswerIsPinned
  BY DEF PlugInv, LoadedInv, CallInv, AnswerIsPinned
<1> QED
  BY PlugInit_Inv, PlugNext_Inv, <1>1, PTL DEF PlugSpec

-----------------------------------------------------------------------------
(* Fleet runs: the ceiling is kept, and no slot is lost.                   *)

InFlight == {"running", "leaving"}
Looping  == {"request", "manager", "wait"}

\* The part of the type invariant that the argument needs.
FleetTypes ==
    /\ runTokens \in Nat
    /\ fleetAt \in [FleetRuns -> FleetSteps]
    /\ asker \in [FleetRuns -> {"agent", "health"}]
    /\ targets \in [FleetRuns -> SUBSET Servers]
    /\ work \in [FleetRuns -> [Servers -> Results \cup InFlight \cup {"none"}]]
    /\ inventory \subseteq Servers

\* A server is in `targets' or has a goroutine, never both; goroutines exist
\* between the loop and wg.Wait only; an agent's run gets there by its record.
FleetInv ==
    /\ FleetTypes
    /\ runTokens = Cardinality(OnServers) /\ runTokens <= Parallelism
    /\ \A r \in FleetRuns :
         /\ \A s \in targets[r] : work[r][s] = "none"
         /\ Dialling(r) # {} => fleetAt[r] \in Looping
         /\ asker[r] = "agent" /\ fleetAt[r] \in {"select", "finish"} \cup Looping => r \in recorded
         /\ fleetAt[r] \in {"idle", "record", "select"} => \A s \in Servers : work[r][s] = "none"

\* There are only so many goroutines to count.
LEMMA OnServersFinite == IsFiniteSet(OnServers)
<1>1. IsFiniteSet(FleetRuns \X Servers)
  BY FleetAssumption, FS_Product
<1> QED
  BY <1>1, FS_Subset DEF OnServers

\* A step that leaves every goroutine where it was, or replaces one result by
\* nothing the count sees, keeps the count.
LEMMA SameWork ==
  ASSUME FleetInv, UNCHANGED <<work, runTokens>>
  PROVE  /\ OnServers' = OnServers
         /\ \A r \in FleetRuns : Dialling(r)' = Dialling(r)
BY DEF OnServers, Dialling

LEMMA FleetInit_Inv == FleetInit => FleetInv
<1> SUFFICES ASSUME FleetInit PROVE FleetInv
  OBVIOUS
<1>1. OnServers = {} /\ \A r \in FleetRuns : Dialling(r) = {}
  BY DEF FleetInit, OnServers, Dialling
<1>2. Cardinality(OnServers) = 0
  BY <1>1, FS_EmptySet
<1>3. FleetTypes
  BY DEF FleetInit, FleetTypes, FleetSteps
<1>4. \A r \in FleetRuns : fleetAt[r] = "idle" /\ targets[r] = {} /\ \A s \in Servers : work[r][s] = "none"
  BY DEF FleetInit
<1>5. runTokens = 0 /\ Parallelism \in Nat
  BY FleetAssumption DEF FleetInit
<1> QED
  BY <1>1, <1>2, <1>3, <1>4, <1>5 DEF FleetInv, Looping

LEMMA FleetNext_Inv == FleetInv /\ [FleetNext]_fleetRunVars => FleetInv'
<1> SUFFICES ASSUME FleetInv, [FleetNext]_fleetRunVars PROVE FleetInv'
  OBVIOUS
<1> USE DEF FleetSteps, Looping, InFlight
<1>1. ASSUME NEW r \in FleetRuns, GateFleet(r) PROVE FleetInv'
  <2>1. UNCHANGED <<inventory, targets, runTokens, work, recorded>>
    BY <1>1 DEF GateFleet, slots
  <2>2. \A q \in FleetRuns : q # r => fleetAt'[q] = fleetAt[q] /\ asker'[q] = asker[q]
    BY <1>1 DEF GateFleet, FleetGoes, FleetInv, FleetTypes
  <2>t. r \in DOMAIN fleetAt /\ r \in DOMAIN asker /\ fleetAt[r] = "idle"
    BY <1>1 DEF GateFleet, FleetInv, FleetTypes
  <2>3. fleetAt'[r] \in {"record", "done"} \/ (fleetAt'[r] = "select" /\ asker'[r] = "health")
    <3>1. ASSUME FleetGoes(r, "record") \/ FleetGoes(r, "done") PROVE fleetAt'[r] \in {"record", "done"}
      BY <2>t, <3>1 DEF FleetGoes
    <3>2. ASSUME FleetGoes(r, "select"), asker' = [asker EXCEPT ![r] = "health"]
          PROVE  fleetAt'[r] = "select" /\ asker'[r] = "health"
      BY <2>t, <3>2 DEF FleetGoes
    <3> QED
      BY <1>1, <3>1, <3>2 DEF GateFleet
  <2>a. asker' \in [FleetRuns -> {"agent", "health"}]
    BY <1>1 DEF GateFleet, FleetInv, FleetTypes
  <2>f. fleetAt' \in [FleetRuns -> FleetSteps]
    <3>1. PICK at \in FleetSteps : FleetGoes(r, at)
      BY <1>1 DEF GateFleet
    <3> QED
      BY <3>1 DEF FleetGoes, FleetInv, FleetTypes
  <2>4. FleetTypes'
    BY <2>1, <2>a, <2>f DEF FleetInv, FleetTypes
  <2> QED
    BY <2>1, <2>2, <2>t, <2>3, <2>4, SameWork DEF FleetInv
<1>2. ASSUME NEW r \in FleetRuns, RecordFleet(r) PROVE FleetInv'
  BY <1>2, SameWork DEF RecordFleet, slots, FleetGoes, FleetInv, FleetTypes
<1>3. ASSUME NEW r \in FleetRuns, SelectServers(r) PROVE FleetInv'
  <2>1. UNCHANGED <<inventory, asker, runTokens, work, recorded>>
    BY <1>3 DEF SelectServers
  <2>2. /\ fleetAt[r] = "select" /\ fleetAt'[r] \in {"done", "request"}
        /\ \A q \in FleetRuns : q # r => fleetAt'[q] = fleetAt[q] /\ targets'[q] = targets[q]
    BY <1>3 DEF SelectServers, FleetGoes, FleetInv, FleetTypes
  <2>3. fleetAt' \in [FleetRuns -> FleetSteps] /\ targets' \in [FleetRuns -> SUBSET Servers]
    <3>1. PICK chosen \in SUBSET inventory :
            \/ FleetGoes(r, "done") /\ UNCHANGED targets
            \/ FleetGoes(r, "request") /\ targets' = [targets EXCEPT ![r] = chosen]
      BY <1>3 DEF SelectServers
    <3>2. chosen \in SUBSET Servers
      BY DEF FleetInv, FleetTypes
    <3> QED
      BY <3>1, <3>2, ZenonT(60) DEF FleetGoes, FleetInv, FleetTypes
  <2>4. FleetTypes' /\ OnServers' = OnServers /\ \A q \in FleetRuns : Dialling(q)' = Dialling(q)
    BY <2>1, <2>3, SameWork DEF FleetInv, FleetTypes
  <2>5. \A s \in targets'[r] : work'[r][s] = "none"
    BY <2>1, <2>2, <2>3 DEF FleetInv
  <2> QED
    BY <2>1, <2>2, <2>4, <2>5 DEF FleetInv
<1>4. ASSUME NEW r \in FleetRuns, TakeRequestSlot(r) PROVE FleetInv'
  BY <1>4, SameWork DEF TakeRequestSlot, FleetGoes, FleetInv, FleetTypes
<1>5. ASSUME NEW r \in FleetRuns, NEW s \in Servers, Launch(r, s) PROVE FleetInv'
  <2>1. work[r][s] = "none"
    BY <1>5 DEF Launch, FleetInv
  <2>2. OnServers' = OnServers \cup {<<r, s>>} /\ <<r, s>> \notin OnServers
    BY <1>5, <2>1 DEF Launch, OnServers, FleetInv, FleetTypes
  <2>3. Cardinality(OnServers') = runTokens'
    BY <1>5, <2>2, OnServersFinite, FS_AddElement DEF Launch, FleetInv, FleetTypes
  <2>4. FleetTypes' /\ runTokens' <= Parallelism
    BY <1>5, FleetAssumption DEF Launch, FleetGoes, FleetInv, FleetTypes
  <2>5. \A q \in FleetRuns : q # r => Dialling(q)' = Dialling(q)
    BY <1>5 DEF Launch, Dialling, FleetInv, FleetTypes
  <2> QED
    BY <1>5, <2>3, <2>4, <2>5 DEF Launch, FleetGoes, FleetInv, FleetTypes
<1>6. ASSUME NEW r \in FleetRuns, NEW s \in Servers, CommandReturns(r, s) PROVE FleetInv'
  <2>1. OnServers' = OnServers /\ \A q \in FleetRuns : Dialling(q)' = Dialling(q)
    BY <1>6 DEF CommandReturns, OnServers, Dialling, FleetInv, FleetTypes
  <2>2. s \in Dialling(r)
    BY <1>6 DEF CommandReturns, Dialling
  <2> QED
    BY <1>6, <2>1, <2>2 DEF CommandReturns, FleetInv, FleetTypes
<1>7. ASSUME NEW r \in FleetRuns, NEW s \in Servers, LeaveSlot(r, s) PROVE FleetInv'
  <2>1. OnServers' = OnServers \ {<<r, s>>} /\ <<r, s>> \in OnServers
    BY <1>7 DEF LeaveSlot, Results, OnServers, FleetInv, FleetTypes
  <2>2. Cardinality(OnServers') = runTokens' /\ runTokens' \in Nat
    <3>1. Cardinality(OnServers \ {<<r, s>>}) = Cardinality(OnServers) - 1
      BY <2>1, OnServersFinite, FS_RemoveElement
    <3>2. Cardinality(OnServers \ {<<r, s>>}) \in Nat
      BY OnServersFinite, FS_RemoveElement, FS_CardinalityType
    <3> QED
      BY <1>7, <2>1, <3>1, <3>2 DEF LeaveSlot, FleetInv
  <2>3. \A q \in FleetRuns : Dialling(q)' \subseteq Dialling(q)
    BY <1>7 DEF LeaveSlot, Results, Dialling, FleetInv, FleetTypes
  <2>4. s \in Dialling(r)
    BY <1>7 DEF LeaveSlot, Dialling
  <2>5. FleetTypes'
    BY <1>7, <2>2 DEF LeaveSlot, FleetInv, FleetTypes
  <2>6. runTokens' <= Parallelism
    BY <1>7, FleetAssumption DEF LeaveSlot, FleetInv, FleetTypes
  <2> QED
    BY <1>7, <2>2, <2>3, <2>4, <2>5, <2>6 DEF LeaveSlot, FleetInv, FleetTypes
<1>8. ASSUME NEW r \in FleetRuns, Aggregate(r) PROVE FleetInv'
  <2>1. Dialling(r) = {}
    BY <1>8 DEF Aggregate, Asked, Results, Dialling
  <2> QED
    BY <1>8, <2>1, SameWork DEF Aggregate, slots, FleetGoes, FleetInv, FleetTypes
<1>9. ASSUME NEW r \in FleetRuns, FinishFleet(r) PROVE FleetInv'
  <2>1. Dialling(r) = {}
    BY <1>9 DEF FinishFleet, FleetInv
  <2> QED
    BY <1>9, <2>1, SameWork DEF FinishFleet, slots, FleetGoes, FleetInv, FleetTypes
<1>10. ASSUME ChangeInventory PROVE FleetInv'
  BY <1>10, SameWork DEF ChangeInventory, slots, FleetInv, FleetTypes
<1>11. ASSUME UNCHANGED fleetRunVars PROVE FleetInv'
  BY <1>11, SameWork DEF fleetRunVars, FleetInv, FleetTypes
<1> QED
  BY <1>1, <1>2, <1>3, <1>4, <1>5, <1>6, <1>7, <1>8, <1>9, <1>10, <1>11 DEF FleetNext

\* The ceiling on commands running on servers is never exceeded, every one of
\* an agent's is on record, and every slot is held by a command that will give
\* it back (Manager.Run, hFleetRun).
THEOREM PoolBounded == FleetSpec => []FleetPoolBounded
<1>1. FleetInv => FleetPoolBounded
  BY DEF FleetInv, FleetPoolBounded, Looping
<1> QED
  BY FleetInit_Inv, FleetNext_Inv, <1>1, PTL DEF FleetSpec

-----------------------------------------------------------------------------
(* Output streams.  Lemmas: least and greatest numbers.                    *)

LEMMA LeastNat == \A T \in SUBSET Nat : T # {} => \E x \in T : \A y \in T : x <= y
<1>r. PICK R : R = {p \in Nat \X Nat : p[1] < p[2]}
  OBVIOUS
<1>w. R = OpToRel(<, Nat)
  BY <1>r DEF OpToRel
<1>v. IsWellFoundedOn(R, Nat)
  BY <1>w, NatLessThanWellFounded
<1> SUFFICES ASSUME NEW T \in SUBSET Nat, T # {} PROVE \E x \in T : \A y \in T : x <= y
  OBVIOUS
<1>1. \E x \in T : \A y \in T : ~ (<<y, x>> \in R)
  BY <1>v, WFMin
<1>2. \A x, y \in Nat : x < y => <<x, y>> \in R
  BY <1>r
<1>3. PICK x \in T : \A y \in T : ~ (<<y, x>> \in R)
  BY <1>1
<1>4. \A y \in T : x <= y
  <2> SUFFICES ASSUME NEW y \in T PROVE x <= y
    OBVIOUS
  <2>1. ~ (<<y, x>> \in R) /\ x \in Nat /\ y \in Nat
    BY <1>3
  <2>2. ~(y < x)
    BY <2>1, <1>2
  <2> QED
    BY <2>1, <2>2
<1> QED
  BY <1>4

LEMMA MinIs == \A T \in SUBSET Nat : T # {} => Min(T) \in T /\ \A y \in T : Min(T) <= y
<1> SUFFICES ASSUME NEW T \in SUBSET Nat, T # {} PROVE Min(T) \in T /\ \A y \in T : Min(T) <= y
  OBVIOUS
<1>1. \E x \in T : \A y \in T : x <= y
  BY LeastNat
<1> QED
  BY <1>1 DEF Min

LEMMA MaxIs ==
  ASSUME NEW B \in Nat, NEW T \in SUBSET (0..B), T # {}
  PROVE  Max(T) \in T /\ \A y \in T : Max(T) >= y
<1>1. PICK U : U = {x \in 0..B : B - x \in T}
  OBVIOUS
<1>2. U \in SUBSET Nat /\ U # {}
  <2>1. PICK x \in T : TRUE
    OBVIOUS
  <2>2. x \in 0..B
    BY <2>1
  <2>3. B - x \in 0..B /\ B - (B - x) = x
    BY <2>2
  <2>4. B - x \in U
    BY <1>1, <2>1, <2>3
  <2>5. U \in SUBSET Nat
    BY <1>1
  <2> QED
    BY <2>4, <2>5
<1>3. PICK u \in U : \A v \in U : u <= v
  BY <1>2, LeastNat
<1>4. B - u \in T /\ \A y \in T : B - u >= y
  <2>1. B - u \in T /\ u \in 0..B
    BY <1>1
  <2>2. ASSUME NEW y \in T PROVE B - u >= y
    <3>1. B - y \in 0..B /\ B - (B - y) = y
      OBVIOUS
    <3>2. B - y \in U
      BY <1>1, <3>1
    <3> QED
      BY <1>3, <2>1, <3>1, <3>2
  <2> QED
    BY <2>1, <2>2
<1> QED
  BY <1>4 DEF Max

LEMMA MinOfTwo == \A a, b \in Nat : Min({a, b}) = IF a <= b THEN a ELSE b
<1> SUFFICES ASSUME NEW a \in Nat, NEW b \in Nat PROVE Min({a, b}) = IF a <= b THEN a ELSE b
  OBVIOUS
<1>1. Min({a, b}) \in {a, b} /\ Min({a, b}) <= a /\ Min({a, b}) <= b
  BY MinIs
<1> QED
  BY <1>1

LEMMA MaxOfTwo == \A a, b \in Nat : Max({a, b}) = IF a >= b THEN a ELSE b
<1> SUFFICES ASSUME NEW a \in Nat, NEW b \in Nat PROVE Max({a, b}) = IF a >= b THEN a ELSE b
  OBVIOUS
<1>1. {a, b} \in SUBSET (0..(a + b))
  OBVIOUS
<1>2. Max({a, b}) \in {a, b} /\ Max({a, b}) >= a /\ Max({a, b}) >= b
  BY <1>1, MaxIs
<1> QED
  BY <1>2

LEMMA MaxOfThree == \A a, b, c \in Nat : Max({a, b, c}) \in Nat /\ Max({a, b, c}) >= c
<1> SUFFICES ASSUME NEW a \in Nat, NEW b \in Nat, NEW c \in Nat PROVE Max({a, b, c}) \in Nat /\ Max({a, b, c}) >= c
  OBVIOUS
<1>1. {a, b, c} \in SUBSET (0..(a + b + c)) /\ a + b + c \in Nat
  OBVIOUS
<1>2. Max({a, b, c}) \in {a, b, c} /\ Max({a, b, c}) >= c
  BY <1>1, MaxIs
<1> QED
  BY <1>2

-----------------------------------------------------------------------------
(* The ring.                                                               *)

Buffers == [data : Seq(Int), start : Nat, size : Nat, discarded : Nat, closed : BOOLEAN]

\* The retained bytes are the ones from `discarded` on, oldest first.
Ring(f) ==
    /\ f \in Buffers
    /\ Len(f.data) <= Cap /\ f.size <= Len(f.data)
    /\ f.start < Len(f.data) \/ (f.data = <<>> /\ f.start = 0)
    /\ \A i \in 0..(f.size - 1) : ByteAt(f, i) = f.discarded + i

LEMMA RingRec ==
  ASSUME NEW f \in Buffers
  PROVE  /\ f = [data |-> f.data, start |-> f.start, size |-> f.size, discarded |-> f.discarded, closed |-> f.closed]
         /\ f.data \in Seq(Int) /\ f.start \in Nat /\ f.size \in Nat /\ f.discarded \in Nat /\ f.closed \in BOOLEAN
         /\ Len(f.data) \in Nat
  BY DEF Buffers

LEMMA TotalIsNat == \A f : Ring(f) => Total(f) \in Nat
BY RingRec DEF Ring, Total

LEMMA ModIs ==
  ASSUME NEW L \in Nat \ {0}, NEW x \in Int
  PROVE  /\ 0 <= x /\ x < L => x % L = x
         /\ L <= x /\ x < L + L => x % L = x - L
         /\ -L <= x /\ x < 0 => x % L = x + L
         /\ -(L + L) <= x /\ x < -L => x % L = x + L + L
<1>1. 0 <= x /\ x < L => x % L = x
  OBVIOUS
<1>2. L <= x /\ x < L + L => x % L = x - L
  OBVIOUS
<1>3. -L <= x /\ x < 0 => x % L = x + L
  OBVIOUS
<1>4. -(L + L) <= x /\ x < -L => x % L = x + L + L
  OBVIOUS
<1> QED
  BY <1>1, <1>2, <1>3, <1>4

\* Where the i-th byte of a ring lies, and how far a slot is from its end.
LEMMA AroundTheRing ==
  ASSUME NEW L \in Nat \ {0}, NEW st \in 0..(L - 1), NEW i \in 0..(L - 1), NEW sz \in 0..L
  PROVE  /\ (st + i) % L \in 0..(L - 1)
         /\ (st + i) % L = IF st + i < L THEN st + i ELSE st + i - L
         /\ (((st + i) % L) - st - sz) % L = IF i >= sz THEN i - sz ELSE i - sz + L
<1>0. PICK y \in Nat : y = st + i
  OBVIOUS
<1>1. y % L = IF y < L THEN y ELSE y - L
  <2>1. y < L + L
    BY <1>0
  <2>2. y < L => y % L = y
    BY ModIs
  <2>3. ASSUME L <= y PROVE y % L = y - L
    <3>1. y \in Int
      OBVIOUS
    <3>2. L <= y /\ y < L + L => y % L = y - L
      BY <3>1, ModIs
    <3> QED
      BY <2>1, <2>3, <3>2
  <2>4. CASE y < L
    BY <2>2, <2>4
  <2>5. CASE L <= y
    BY <2>3, <2>5
  <2> QED
    BY <2>4, <2>5
<1>p. PICK z \in Int : z = y % L
  BY <1>1
<1>2. PICK x \in Int : x = z - st - sz
  OBVIOUS
<1>3. x = IF st + i < L THEN i - sz ELSE i - sz - L
  BY <1>0, <1>1, <1>p, <1>2
<1>4. x % L = IF i >= sz THEN i - sz ELSE i - sz + L
  <2>1. CASE 0 <= x
    <3>1. x % L = x
      BY <2>1, <1>3, ModIs
    <3> QED
      BY <3>1, <2>1, <1>3
  <2>2. CASE -L <= x /\ x < 0
    <3>1. x % L = x + L
      BY <2>2, ModIs
    <3> QED
      BY <3>1, <2>2, <1>3
  <2>3. CASE x < -L
    <3>1. -(L + L) <= x
      BY <1>3
    <3>2. x % L = x + L + L
      BY <2>3, <3>1, ModIs
    <3> QED
      BY <3>2, <2>3, <1>3
  <2>4. 0 <= x \/ (-L <= x /\ x < 0) \/ x < -L
    OBVIOUS
  <2> QED
    BY <2>1, <2>2, <2>3, <2>4
<1>5. (y % L) \in 0..(L - 1)
  BY <1>0, <1>1
<1>6. (((st + i) % L) - st - sz) % L = x % L
  BY <1>0, <1>p, <1>2
<1> QED
  BY <1>0, <1>1, <1>4, <1>5, <1>6

LEMMA CopiedIs ==
  ASSUME NEW f, Ring(f), NEW i \in Nat, NEW n \in Nat, i + n <= f.size
  PROVE  /\ Copied(f, i, n) \in Seq(Nat) /\ Len(Copied(f, i, n)) = n
         /\ \A k \in 1..n : Copied(f, i, n)[k] = f.discarded + i + k - 1
<1>c. PICK c : c = Copied(f, i, n)
  OBVIOUS
<1>1. f.size \in Nat /\ f.discarded \in Nat
  BY RingRec DEF Ring
<1>2. \A k \in 1..n : ByteAt(f, i + k - 1) = f.discarded + i + k - 1
  <2> SUFFICES ASSUME NEW k \in 1..n PROVE ByteAt(f, i + k - 1) = f.discarded + i + k - 1
    OBVIOUS
  <2>1. PICK m \in 0..(f.size - 1) : m = i + k - 1
    BY <1>1
  <2>2. ByteAt(f, m) = f.discarded + m
    BY DEF Ring
  <2> QED
    BY <1>1, <2>1, <2>2
<1>3. c = [k \in 1..n |-> ByteAt(f, i + k - 1)]
  BY <1>c DEF Copied
<1>4. \A k \in 1..n : c[k] = f.discarded + i + k - 1
  BY <1>2, <1>3
<1>5. \A k \in 1..n : c[k] \in Nat
  BY <1>1, <1>4
<1>6. c \in [1..n -> Nat]
  BY <1>3, <1>5
<1> QED
  BY <1>c, <1>4, <1>6

LEMMA CopiedAt ==
  \A f : Ring(f) => \A i, n \in Nat : i + n <= f.size =>
     \A k \in 1..n : Copied(f, i, n)[k] = f.discarded + i + k - 1
BY CopiedIs, Zenon

\* Where the bytes of a ring are, without the modulus.
LEMMA ByteIs ==
  ASSUME NEW f, f \in Buffers, NEW i \in Nat, i < Len(f.data), f.start < Len(f.data)
  PROVE  /\ f.start + i < Len(f.data) => ByteAt(f, i) = f.data[1 + f.start + i]
         /\ f.start + i >= Len(f.data) => ByteAt(f, i) = f.data[1 + f.start + i - Len(f.data)]
<1>1. PICK L, st : L = Len(f.data) /\ st = f.start
  OBVIOUS
<1>2. L \in Nat \ {0} /\ st \in 0..(L - 1) /\ i \in 0..(L - 1) /\ 0 \in 0..L
  BY <1>1, RingRec
<1>3. (st + i) % L = IF st + i < L THEN st + i ELSE st + i - L
  BY <1>2, AroundTheRing
<1>4. ByteAt(f, i) = f.data[1 + ((st + i) % L)]
  BY <1>1 DEF ByteAt, Slot
<1>5. ASSUME st + i < L PROVE ByteAt(f, i) = f.data[1 + st + i]
  BY <1>2, <1>3, <1>4, <1>5
<1>6. ASSUME st + i >= L PROVE ByteAt(f, i) = f.data[1 + st + i - L]
  <2>1. (st + i) % L = st + i - L
    BY <1>2, <1>3, <1>6
  <2>2. 1 + (st + i - L) = 1 + st + i - L
    BY <1>2
  <2> QED
    BY <1>4, <2>1, <2>2
<1> QED
  BY <1>1, <1>5, <1>6

LEMMA GrownIs ==
  ASSUME OutputAssumption, NEW f, Ring(f), NEW needed \in Nat \ {0}, needed <= Cap, NEW g, g = Grown(f, needed)
  PROVE  /\ Ring(g) /\ needed <= Len(g.data) /\ g.start < Len(g.data)
         /\ g.size = f.size /\ g.discarded = f.discarded /\ g.closed = f.closed
<1>r. f \in Buffers /\ Len(f.data) <= Cap /\ f.size <= Len(f.data) /\ Cap \in Nat /\ MinCapacity \in Nat
  BY DEF Ring, OutputAssumption
<1>1. CASE Len(f.data) >= needed
  <2>1. g = f
    BY <1>1 DEF Grown
  <2>2. f.data # <<>>
    BY <1>1
  <2> QED
    BY <1>1, <2>1, <2>2 DEF Ring
<1>2. CASE ~(Len(f.data) >= needed)
  <2>1. PICK L, kept, c : /\ L = Len(f.data) /\ kept = Copied(f, 0, f.size)
                          /\ c = Min({Cap, Max({2 * L, MinCapacity, needed})})
    OBVIOUS
  <2>2. L \in Nat /\ L < needed /\ f.size \in Nat /\ f.discarded \in Nat /\ f.size <= L
    BY <1>r, <1>2, <2>1, RingRec
  <2>3. c \in Nat /\ needed <= c /\ c <= Cap
    <3>1. PICK x : x = Max({2 * L, MinCapacity, needed})
      OBVIOUS
    <3>2. PICK w \in Nat : w = 2 * L
      BY <2>2
    <3>3. x \in Nat /\ x >= needed
      BY <3>1, <3>2, <1>r, MaxOfThree
    <3>p. c = Min({Cap, x})
      BY <2>1, <3>1, Zenon
    <3>4. c = IF Cap <= x THEN Cap ELSE x
      BY <3>p, <3>3, <1>r, MinOfTwo
    <3> QED
      BY <3>3, <3>4, <1>r
  <2>4. g = [f EXCEPT !.start = 0, !.data = [k \in 1..c |-> IF k <= f.size THEN kept[k] ELSE -1]]
    BY <1>2, <2>1 DEF Grown
  <2>5. PICK d : d = [k \in 1..c |-> IF k <= f.size THEN kept[k] ELSE -1]
    OBVIOUS
  <2>6. g = [data |-> d, start |-> 0, size |-> f.size, discarded |-> f.discarded, closed |-> f.closed]
    BY <1>r, <2>4, <2>5, RingRec
  <2>7. \A k \in 1..f.size : kept[k] = f.discarded + k - 1
    <3>1. PICK o \in Nat : o = 0
      OBVIOUS
    <3>2. o + f.size <= f.size /\ kept = Copied(f, o, f.size)
      BY <2>1, <2>2, <3>1
    <3>3. \A k \in 1..f.size : kept[k] = f.discarded + o + k - 1
      <4>1. PICK m \in Nat : m = f.size
        BY <2>2
      <4>0. o + m <= f.size /\ kept = Copied(f, o, m)
        BY <3>2, <4>1
      <4>1a. kept = Copied(f, o, m) /\ o + m <= f.size
        BY <4>0
      <4>1b. \A k \in 1..m : Copied(f, o, m)[k] = f.discarded + o + k - 1
        BY <4>1a, CopiedAt
      <4>2. \A k \in 1..m : kept[k] = f.discarded + o + k - 1
        BY <4>1a, <4>1b
      <4> QED
        BY <4>1, <4>2
    <3> QED
      BY <2>2, <3>1, <3>3
  <2>8. d \in Seq(Int) /\ Len(d) = c
    <3>1. \A k \in 1..c : (IF k <= f.size THEN kept[k] ELSE -1) \in Int
      BY <2>2, <2>3, <2>7
    <3>2. d \in [1..c -> Int]
      BY <2>5, <3>1
    <3> QED
      BY <2>3, <3>2
  <2>9. g \in Buffers
    BY <2>2, <2>6, <2>8, <1>r, RingRec DEF Buffers
  <2>10. \A i \in 0..(f.size - 1) : ByteAt(g, i) = g.discarded + i
    <3> SUFFICES ASSUME NEW i \in 0..(f.size - 1) PROVE ByteAt(g, i) = f.discarded + i
      BY <2>6
    <3>1. i \in Nat /\ i < c /\ 0 < c
      BY <2>2, <2>3
    <3>2. ByteAt(g, i) = d[1 + 0 + i]
      <4>1. g.data = d /\ g.start = 0 /\ Len(d) = c
        BY <2>6, <2>8
      <4>2. PICK o : o = g.start
        OBVIOUS
      <4>3. o + i < Len(g.data) /\ i < Len(g.data) /\ g.start < Len(g.data)
        BY <3>1, <4>1, <4>2
      <4>4. ByteAt(g, i) = g.data[1 + o + i]
        BY <2>9, <3>1, <4>2, <4>3, ByteIs
      <4> QED
        BY <4>1, <4>2, <4>4
    <3>3. 1 + 0 + i = i + 1 /\ i + 1 \in 1..c /\ i + 1 <= f.size /\ i + 1 \in 1..f.size
      BY <2>2, <2>3
    <3>4. d[i + 1] = kept[i + 1]
      BY <2>5, <3>3
    <3>5. kept[i + 1] = f.discarded + (i + 1) - 1
      BY <2>7, <3>3
    <3> QED
      BY <2>2, <3>1, <3>2, <3>3, <3>4, <3>5
  <2>11. g.size <= Len(g.data) /\ Len(g.data) = c /\ g.start = 0 /\ 0 < c
    BY <2>2, <2>3, <2>6, <2>8
  <2> QED
    BY <2>2, <2>3, <2>6, <2>9, <2>10, <2>11 DEF Ring
<1> QED
  BY <1>1, <1>2

LEMMA DroppedIs ==
  ASSUME NEW f, Ring(f), NEW n \in 0..f.size, NEW g, g = Dropped(f, n)
  PROVE  /\ Ring(g) /\ g.data = f.data
         /\ f.start < Len(f.data) => g.start < Len(f.data)
         /\ g.size = f.size - n /\ g.discarded = f.discarded + n /\ g.closed = f.closed
<1>r. /\ f \in Buffers /\ Len(f.data) <= Cap /\ f.size <= Len(f.data)
      /\ f.size \in Nat /\ f.discarded \in Nat /\ f.start \in Nat /\ Len(f.data) \in Nat
  BY RingRec DEF Ring
<1>1. CASE n = 0
  BY <1>1, <1>r DEF Dropped
<1>2. CASE n # 0
  <2>1. PICK L, st : L = Len(f.data) /\ st = f.start
    OBVIOUS
  <2>2. L \in Nat \ {0} /\ st \in 0..(L - 1) /\ n \in Nat /\ n <= L /\ f.size >= 1
    <3>1. f.data # <<>>
      BY <1>2, <1>r
    <3> QED
      BY <1>2, <1>r, <2>1, <3>1 DEF Ring
  <2>3. g = [f EXCEPT !.start = (st + n) % L, !.size = f.size - n, !.discarded = f.discarded + n]
    BY <1>2, <2>1 DEF Dropped
  <2>4. PICK s : s = (st + n) % L
    OBVIOUS
  <2>5. s \in 0..(L - 1) /\ s = IF st + n < L THEN st + n ELSE st + n - L
    <3>1. CASE n < L
      <4>1. n \in 0..(L - 1) /\ 0 \in 0..L
        BY <3>1, <2>2
      <4> QED
        BY <2>2, <2>4, <4>1, AroundTheRing
    <3>2. CASE n = L
      <4>1. PICK x \in Int : x = st + n
        BY <2>2
      <4>2. L <= x /\ x < L + L
        BY <2>2, <3>2, <4>1
      <4>3. x % L = x - L
        BY <2>2, <4>2, ModIs
      <4> QED
        BY <2>2, <2>4, <3>2, <4>1, <4>3
    <3> QED
      BY <2>2, <3>1, <3>2
  <2>6. g = [data |-> f.data, start |-> s, size |-> f.size - n, discarded |-> f.discarded + n, closed |-> f.closed]
    BY <1>r, <2>3, <2>4, RingRec
  <2>7. g \in Buffers
    <3>1. s \in Nat /\ f.size - n \in Nat /\ f.discarded + n \in Nat
      BY <1>r, <2>2, <2>5
    <3> QED
      BY <1>r, <2>6, <3>1, RingRec DEF Buffers
  <2>8. \A i \in 0..(g.size - 1) : ByteAt(g, i) = g.discarded + i
    <3> SUFFICES ASSUME NEW i \in 0..(g.size - 1) PROVE ByteAt(g, i) = g.discarded + i
      OBVIOUS
    <3>1. i \in Nat /\ i < L /\ i + n < L /\ i + n \in 0..(f.size - 1) /\ i + n \in Nat
      BY <1>r, <2>1, <2>2, <2>6
    <3>2. ByteAt(f, i + n) = f.discarded + (i + n)
      BY <3>1 DEF Ring
    <3>3. PICK x, y \in Int : x = s + i /\ y = st + (i + n)
      BY <2>2, <2>5, <3>1
    <3>4. /\ x < L => ByteAt(g, i) = f.data[1 + x]
          /\ x >= L => ByteAt(g, i) = f.data[1 + x - L]
      <4>1. g.start < Len(g.data) /\ g.start = s /\ Len(g.data) = L /\ g.data = f.data
        BY <2>1, <2>5, <2>6
      <4>2. /\ s + i < L => ByteAt(g, i) = f.data[1 + s + i]
            /\ s + i >= L => ByteAt(g, i) = f.data[1 + s + i - L]
        BY <2>7, <3>1, <4>1, ByteIs
      <4>3. 1 + s + i = 1 + x /\ 1 + s + i - L = 1 + x - L
        BY <2>2, <2>5, <3>1, <3>3
      <4>4. ASSUME x < L PROVE ByteAt(g, i) = f.data[1 + x]
        BY <3>3, <4>2, <4>3, <4>4
      <4>5. ASSUME x >= L PROVE ByteAt(g, i) = f.data[1 + x - L]
        BY <3>3, <4>2, <4>3, <4>5
      <4> QED
        BY <4>4, <4>5
    <3>5. /\ y < L => ByteAt(f, i + n) = f.data[1 + y]
          /\ y >= L => ByteAt(f, i + n) = f.data[1 + y - L]
      <4>1. /\ st + (i + n) < L => ByteAt(f, i + n) = f.data[1 + st + (i + n)]
            /\ st + (i + n) >= L => ByteAt(f, i + n) = f.data[1 + st + (i + n) - L]
        <5>1. PICK m \in Nat : m = i + n
          BY <3>1
        <5>2. m < Len(f.data) /\ f.start < Len(f.data)
          BY <2>1, <2>2, <3>1, <5>1
        <5>3. /\ f.start + m < Len(f.data) => ByteAt(f, m) = f.data[1 + f.start + m]
              /\ f.start + m >= Len(f.data) => ByteAt(f, m) = f.data[1 + f.start + m - Len(f.data)]
          BY <1>r, <5>2, ByteIs
        <5> QED
          BY <2>1, <5>1, <5>3
      <4>2. 1 + st + (i + n) = 1 + y /\ 1 + st + (i + n) - L = 1 + y - L
        BY <2>2, <3>1, <3>3
      <4>3. ASSUME y < L PROVE ByteAt(f, i + n) = f.data[1 + y]
        BY <3>3, <4>1, <4>2, <4>3
      <4>4. ASSUME y >= L PROVE ByteAt(f, i + n) = f.data[1 + y - L]
        BY <3>3, <4>1, <4>2, <4>4
      <4> QED
        BY <4>3, <4>4
    <3>6. ByteAt(g, i) = ByteAt(f, i + n)
      <4>1. CASE st + n < L
        <5>1. x = y
          BY <2>2, <2>5, <3>1, <3>3, <4>1
        <5> QED
          BY <2>2, <3>3, <3>4, <3>5, <5>1
      <4>2. CASE st + n >= L
        <5>1. x = y - L /\ x < L /\ y >= L /\ 1 + x = 1 + y - L
          BY <2>2, <2>5, <3>1, <3>3, <4>2
        <5> QED
          BY <3>4, <3>5, <5>1
      <4> QED
        BY <2>2, <4>1, <4>2
    <3> QED
      BY <1>r, <2>2, <2>6, <3>1, <3>2, <3>6
  <2>9. g.size <= Len(g.data) /\ Len(g.data) <= Cap /\ g.start < Len(g.data)
    BY <1>r, <2>1, <2>2, <2>5, <2>6
  <2> QED
    BY <2>1, <2>6, <2>7, <2>8, <2>9 DEF Ring
<1> QED
  BY <1>1, <1>2

-----------------------------------------------------------------------------
(* The text.                                                               *)

\* A byte of the text is where a rune begins.
Starts(o) == ~Continuation(o)

\* What follows a whole rune is the next one.
LEMMA RuneEnds ==
  ASSUME OutputAssumption, text \in Texts, NEW j \in 1..MaxBytes, text[j] # 0, j + text[j] <= MaxBytes
  PROVE  text[j + text[j]] # 0
<1>t. /\ text \in [1..MaxBytes -> Widths \cup {0}] /\ MaxBytes \in Nat /\ Widths \subseteq 1..Cap /\ Cap \in Nat
      /\ \A i \in 1..MaxBytes : text[i] = 0 <=> \E h \in 1..(i - 1) : text[h] > i - h
  BY DEF Texts, OutputAssumption
<1>v. \A i \in 1..MaxBytes : text[i] \in Nat
  <2> SUFFICES ASSUME NEW i \in 1..MaxBytes PROVE text[i] \in Nat
    OBVIOUS
  <2>1. PICK w : w = text[i]
    OBVIOUS
  <2>2. w \in Widths \cup {0} /\ Widths \subseteq 1..Cap /\ Cap \in Nat
    BY <1>t, <2>1
  <2>3. w \in Nat
    BY <2>2
  <2> QED
    BY <2>1, <2>3
<1>1. PICK e : e = j + text[j]
  OBVIOUS
<1>2. text[j] \in Nat /\ text[j] > 0
  BY <1>v
<1>3. e \in 1..MaxBytes /\ j < e /\ e \in Nat
  BY <1>1, <1>2, <1>t
<1> SUFFICES ASSUME text[e] = 0 PROVE FALSE
  BY <1>1
<1>4. PICK h \in 1..(e - 1) : text[h] > e - h
  BY <1>t, <1>3
<1>5. h \in 1..MaxBytes /\ text[h] \in Nat /\ h \in Nat
  <2>1. h \in 1..MaxBytes
    BY <1>3
  <2> QED
    BY <2>1, <1>v
<1>6. CASE h < j
  <2>1. text[h] > j - h /\ h \in 1..(j - 1)
    BY <1>3, <1>4, <1>5, <1>6
  <2> QED
    BY <2>1, <1>t
<1>7. CASE h = j
  BY <1>1, <1>2, <1>4, <1>7
<1>8. CASE h > j
  <2>1. text[j] > h - j /\ j \in 1..(h - 1)
    BY <1>1, <1>2, <1>3, <1>4, <1>8
  <2>2. text[h] = 0
    BY <2>1, <1>t, <1>5
  <2> QED
    BY <2>2, <1>3, <1>4
<1> QED
  BY <1>5, <1>6, <1>7, <1>8

\* Wherever one looks, a rune begins within the length of a buffer.
LEMMA StartsNear ==
  ASSUME OutputAssumption, text \in Texts, NEW o \in Nat, o + Cap <= MaxBytes
  PROVE  \E k \in o..(o + Cap - 1) : Starts(k)
<1>t. /\ text \in [1..MaxBytes -> Widths \cup {0}] /\ MaxBytes \in Nat /\ Widths \subseteq 1..Cap /\ Cap \in Nat \ {0}
      /\ \A i \in 1..MaxBytes : text[i] = 0 <=> \E h \in 1..(i - 1) : text[h] > i - h
  BY DEF Texts, OutputAssumption
<1>1. CASE text[o + 1] # 0
  <2>1. o \in o..(o + Cap - 1)
    BY <1>t
  <2> QED
    BY <1>1, <2>1 DEF Starts, Continuation
<1>2. CASE text[o + 1] = 0
  <2>1. o + 1 \in 1..MaxBytes
    BY <1>t
  <2>2. PICK j \in 1..((o + 1) - 1) : text[j] > (o + 1) - j
    BY <1>2, <1>t, <2>1
  <2>a. j \in 1..MaxBytes /\ j <= o /\ (o + 1) - j \in Nat /\ (o + 1) - j > 0
    BY <1>t, <2>1
  <2>b. PICK w : w = text[j]
    OBVIOUS
  <2>d. w \in Widths \cup {0} /\ Widths \subseteq 1..Cap /\ Cap \in Nat
    BY <1>t, <2>a, <2>b
  <2>c. text[j] \in 0..Cap
    <3>1. w \in 0..Cap
      BY <2>d
    <3> QED
      BY <2>b, <3>1
  <2>3. j \in 1..MaxBytes /\ text[j] \in Nat /\ text[j] # 0 /\ j <= o
    BY <1>t, <2>2, <2>a, <2>c
  <2>4. text[j] <= Cap
    BY <1>t, <2>c
  <2>5. PICK e \in Nat : e = j + text[j]
    BY <2>3
  <2>6. e > o + 1 /\ e <= o + Cap /\ e <= MaxBytes
    BY <2>2, <2>3, <2>4, <2>5, <1>t
  <2>7. text[e] # 0
    BY <2>3, <2>5, <2>6, RuneEnds
  <2>8. e - 1 \in o..(o + Cap - 1) /\ (e - 1) + 1 = e
    BY <2>6, <1>t
  <2> QED
    BY <2>7, <2>8 DEF Starts, Continuation
<1> QED
  BY <1>1, <1>2

-----------------------------------------------------------------------------
(* Writing.                                                                *)

\* Only bytes inside a rune are trimmed.
LEMMA TrimmedIs ==
  ASSUME NEW f, Ring(f)
  PROVE  \E n \in 0..f.size :
            /\ Trimmed(f) = Dropped(f, n)
            /\ \A i \in 0..(n - 1) : ~Starts(f.discarded + i)
            /\ n < f.size => Starts(f.discarded + n)
<1>r. f.size \in Nat /\ f.discarded \in Nat /\ \A i \in 0..(f.size - 1) : ByteAt(f, i) = f.discarded + i
  BY RingRec DEF Ring
<1>1. PICK lead : lead = {i \in 0..(f.size - 1) : ~Continuation(ByteAt(f, i))}
  OBVIOUS
<1>2. lead = {i \in 0..(f.size - 1) : Starts(f.discarded + i)}
  BY <1>1, <1>r DEF Starts
<1>3. CASE lead = {}
  <2>1. Trimmed(f) = Dropped(f, f.size)
    BY <1>1, <1>3 DEF Trimmed
  <2>2. f.size \in 0..f.size /\ ~(f.size < f.size)
    BY <1>r
  <2>3. \A i \in 0..(f.size - 1) : ~Starts(f.discarded + i)
    BY <1>2, <1>3
  <2> QED
    BY <2>1, <2>2, <2>3
<1>4. CASE lead # {}
  <2>1. lead \in SUBSET Nat
    BY <1>2, <1>r
  <2>2. PICK n : n = Min(lead)
    OBVIOUS
  <2>3. n \in lead /\ \A y \in lead : n <= y
    BY <1>4, <2>1, <2>2, MinIs
  <2>4. n \in 0..f.size /\ n \in Nat /\ n <= f.size - 1 /\ Starts(f.discarded + n)
    BY <1>2, <2>3, <1>r
  <2>5. \A i \in 0..(n - 1) : ~Starts(f.discarded + i)
    <3> SUFFICES ASSUME NEW i \in 0..(n - 1), Starts(f.discarded + i) PROVE FALSE
      OBVIOUS
    <3>1. i \in 0..(f.size - 1)
      BY <2>4, <1>r
    <3>2. i \in lead
      BY <1>2, <3>1
    <3>3. n <= i
      BY <2>3, <3>2
    <3> QED
      BY <2>4, <3>3
  <2>6. Trimmed(f) = Dropped(f, n)
    BY <1>1, <1>4, <2>2 DEF Trimmed
  <2> QED
    BY <2>4, <2>5, <2>6
<1> QED
  BY <1>3, <1>4

\* A buffer that lost its oldest bytes still holds the beginning of a rune.
Led(f) == f.discarded = 0 \/ \E o \in f.discarded..(Total(f) - 1) : Starts(o)

\* Trimming a buffer in which a rune begins leaves that rune at its front.
LEMMA TrimKeeps ==
  ASSUME NEW f, Ring(f), NEW g, g = Trimmed(f)
  PROVE  /\ Ring(g) /\ g.data = f.data /\ Total(g) = Total(f) /\ g.closed = f.closed /\ g.size <= f.size
         /\ f.discarded <= g.discarded
         /\ f.start < Len(f.data) => g.start < Len(f.data)
         /\ \A o \in f.discarded..(g.discarded - 1) : ~Starts(o)
         /\ g.size > 0 => Starts(g.discarded)
<1>r. f.size \in Nat /\ f.discarded \in Nat
  BY RingRec DEF Ring
<1>1. PICK n \in 0..f.size : /\ Trimmed(f) = Dropped(f, n)
                             /\ \A i \in 0..(n - 1) : ~Starts(f.discarded + i)
                             /\ n < f.size => Starts(f.discarded + n)
  BY TrimmedIs
<1>2. g = Dropped(f, n)
  BY <1>1
<1>3. Ring(g) /\ g.data = f.data /\ g.closed = f.closed
  BY <1>2, DroppedIs
<1>4. f.start < Len(f.data) => g.start < Len(f.data)
  BY <1>2, DroppedIs
<1>5. g.size = f.size - n /\ g.discarded = f.discarded + n
  BY <1>2, DroppedIs
<1>6. Total(g) = Total(f) /\ g.size <= f.size /\ f.discarded <= g.discarded
  BY <1>r, <1>5 DEF Total
<1>7. ASSUME NEW o \in f.discarded..(g.discarded - 1) PROVE ~Starts(o)
  <2>1. PICK i \in 0..(n - 1) : f.discarded + i = o
    <3>1. o - f.discarded \in 0..(n - 1) /\ f.discarded + (o - f.discarded) = o
      BY <1>r, <1>5
    <3> QED
      BY <3>1
  <2> QED
    BY <1>1, <2>1
<1>8. g.size > 0 => Starts(g.discarded)
  BY <1>r, <1>1, <1>5
<1> QED
  BY <1>3, <1>4, <1>6, <1>7, <1>8

\* Appending to a ring with room for what is appended.
LEMMA AppendedIs ==
  ASSUME NEW h, Ring(h), NEW p \in Seq(Int), h.size + Len(p) <= Len(h.data), p # <<>>,
         \A k \in 1..Len(p) : p[k] = Total(h) + k - 1,
         NEW g, g = Appended(h, p)
  PROVE  /\ Ring(g) /\ Total(g) = Total(h) + Len(p)
         /\ g.discarded = h.discarded /\ g.closed = h.closed
<1>r. /\ h \in Buffers /\ Len(h.data) <= Cap /\ h.size \in Nat /\ h.discarded \in Nat /\ h.start \in Nat
      /\ Len(h.data) \in Nat /\ h.data \in Seq(Int) /\ h.closed \in BOOLEAN
  BY RingRec DEF Ring
<1>1. PICK L, st, sz, n : L = Len(h.data) /\ st = h.start /\ sz = h.size /\ n = Len(p)
  OBVIOUS
<1>2. n \in Nat /\ n > 0
  BY <1>1
<1>3. L \in Nat \ {0} /\ st \in 0..(L - 1) /\ sz \in 0..L /\ sz + n <= L
  <2>1. L \in Nat /\ L > 0
    BY <1>r, <1>1, <1>2
  <2>2. h.data # <<>>
    BY <1>1, <2>1
  <2> QED
    BY <1>r, <1>1, <1>2, <2>1, <2>2 DEF Ring
<1>4. PICK d : d = [s \in DOMAIN h.data |->
                      IF ((s - 1 - st - sz) % L) < n THEN p[((s - 1 - st - sz) % L) + 1] ELSE h.data[s]]
  OBVIOUS
<1>5. g = [h EXCEPT !.size = @ + n, !.data = d]
  BY <1>1, <1>4 DEF Appended
<1>6. g = [data |-> d, start |-> st, size |-> sz + n, discarded |-> h.discarded, closed |-> h.closed]
  BY <1>r, <1>1, <1>5, RingRec
<1>f. g.data = d /\ g.start = st /\ g.size = sz + n /\ g.discarded = h.discarded /\ g.closed = h.closed
  BY <1>6
<1>7. DOMAIN h.data = 1..L
  BY <1>r, <1>1
\* What lies i bytes from the front.
<1>8. ASSUME NEW i \in 0..(L - 1)
      PROVE  d[1 + ((st + i) % L)] = IF i >= sz /\ i < sz + n THEN p[i - sz + 1] ELSE h.data[1 + ((st + i) % L)]
  <2>1. PICK m : m = (st + i) % L
    OBVIOUS
  <2>a. /\ (st + i) % L \in 0..(L - 1)
        /\ (st + i) % L = IF st + i < L THEN st + i ELSE st + i - L
        /\ (((st + i) % L) - st - sz) % L = IF i >= sz THEN i - sz ELSE i - sz + L
    <3>1. L \in Nat \ {0} /\ st \in 0..(L - 1) /\ sz \in 0..L
      BY <1>3
    <3> QED
      BY <3>1, AroundTheRing, ZenonT(30)
  <2>2. m \in 0..(L - 1) /\ (m - st - sz) % L = IF i >= sz THEN i - sz ELSE i - sz + L
    BY <2>1, <2>a, Zenon
  <2>3. 1 + m \in 1..L /\ (1 + m) - 1 - st - sz = m - st - sz
    BY <1>3, <2>2
  <2>4. d[1 + m] = IF ((m - st - sz) % L) < n THEN p[((m - st - sz) % L) + 1] ELSE h.data[1 + m]
    BY <1>4, <1>7, <2>3
  <2>5. CASE i >= sz
    <3>1. (m - st - sz) % L = i - sz
      BY <2>2, <2>5
    <3>2. d[1 + m] = IF i - sz < n THEN p[i - sz + 1] ELSE h.data[1 + m]
      BY <2>4, <3>1
    <3> QED
      BY <1>2, <1>3, <2>1, <2>5, <3>2
  <2>6. CASE ~(i >= sz)
    <3>1. (m - st - sz) % L = i - sz + L
      BY <2>2, <2>6
    <3>2. ~(i - sz + L < n)
      BY <1>2, <1>3, <2>6
    <3>3. d[1 + m] = h.data[1 + m]
      BY <2>4, <3>1, <3>2
    <3> QED
      BY <2>1, <2>6, <3>3
  <2> QED
    BY <2>5, <2>6
<1>9. d \in Seq(Int) /\ Len(d) = L
  <2>1. ASSUME NEW s \in 1..L
        PROVE  (IF ((s - 1 - st - sz) % L) < n THEN p[((s - 1 - st - sz) % L) + 1] ELSE h.data[s]) \in Int
    <3>1. PICK x \in Int : x = s - 1 - st - sz
      BY <1>3
    <3>2. PICK k : k = x % L
      OBVIOUS
    <3>3. k \in 0..(L - 1)
      BY <1>3, <3>2
    <3>4. k < n => p[k + 1] \in Int
      BY <1>1, <1>2, <3>3
    <3>5. h.data[s] \in Int
      BY <1>r, <1>1
    <3> QED
      BY <3>1, <3>2, <3>4, <3>5
  <2>2. d \in [1..L -> Int]
    BY <1>4, <1>7, <2>1
  <2> QED
    BY <1>3, <2>2
<1>10. g \in Buffers
  BY <1>r, <1>1, <1>2, <1>3, <1>6, <1>9 DEF Buffers
<1>11. ASSUME NEW i \in 0..(g.size - 1) PROVE ByteAt(g, i) = g.discarded + i
  <2>1. i \in 0..(L - 1) /\ i < sz + n
    <3>1. i \in 0..((sz + n) - 1)
      BY <1>f
    <3> QED
      BY <1>2, <1>3, <3>1
  <2>2. ByteAt(g, i) = d[1 + ((st + i) % L)]
    BY <1>f, <1>9 DEF ByteAt, Slot
  <2>3. CASE i >= sz
    <3>1. PICK k \in Nat : k = i - sz + 1
      BY <1>3, <2>1, <2>3
    <3>a. d[1 + ((st + i) % L)] = p[i - sz + 1]
      BY <1>8, <2>1, <2>3
    <3>b. k \in 1..n
      BY <1>2, <1>3, <2>1, <2>3, <3>1
    <3>2. ByteAt(g, i) = p[k] /\ k \in 1..Len(p)
      BY <1>1, <2>2, <3>1, <3>a, <3>b
    <3>3. p[k] = h.discarded + sz + k - 1
      BY <1>1, <3>2 DEF Total
    <3>4. h.discarded + sz + k - 1 = h.discarded + i
      BY <1>r, <1>3, <3>1, <2>1
    <3> QED
      BY <1>f, <3>2, <3>3, <3>4
  <2>4. CASE ~(i >= sz)
    <3>1. ByteAt(g, i) = ByteAt(h, i)
      BY <1>1, <1>8, <2>1, <2>2, <2>4 DEF ByteAt, Slot
    <3>2. i \in 0..(h.size - 1)
      BY <1>1, <1>3, <2>1, <2>4
    <3> QED
      BY <1>f, <3>1, <3>2 DEF Ring
  <2> QED
    BY <2>3, <2>4
<1>12. Total(g) = Total(h) + n
  BY <1>r, <1>1, <1>2, <1>6 DEF Total
<1>13. Len(g.data) = L /\ g.size <= L /\ g.start < L
  BY <1>3, <1>9, <1>f
<1>14. Ring(g)
  BY <1>r, <1>1, <1>10, <1>11, <1>13 DEF Ring
<1> QED
  BY <1>1, <1>f, <1>12, <1>14

LEMMA ReplacedIs ==
  ASSUME OutputAssumption, NEW f, Ring(f), Len(f.data) = Cap, NEW p \in Seq(Int), Len(p) >= Cap,
         \A k \in 1..Len(p) : p[k] = Total(f) + k - 1,
         NEW g, g = Replaced(f, p)
  PROVE  /\ Ring(g) /\ Total(g) = Total(f) + Len(p) /\ g.size = Cap
         /\ f.discarded <= g.discarded /\ g.closed = f.closed
<1>r. /\ f \in Buffers /\ f.size \in Nat /\ f.discarded \in Nat /\ f.closed \in BOOLEAN
      /\ f.data \in Seq(Int) /\ Cap \in Nat \ {0} /\ f.size <= Cap
  BY RingRec DEF Ring, OutputAssumption
<1>1. PICK n, t \in Nat : n = Len(p) /\ t = Total(f)
  BY <1>r DEF Total
<1>n. n >= Cap /\ t = f.discarded + f.size
  BY <1>1 DEF Total
<1>2. PICK d : d = [k \in DOMAIN f.data |-> IF k <= Cap THEN p[n - Cap + k] ELSE f.data[k]]
  OBVIOUS
<1>3. g = [f EXCEPT !.data = d, !.start = 0, !.size = Cap, !.discarded = t + n - Cap]
  BY <1>1, <1>2 DEF Replaced
<1>4. g = [data |-> d, start |-> 0, size |-> Cap, discarded |-> t + n - Cap, closed |-> f.closed]
  BY <1>r, <1>3, RingRec
<1>f. g.data = d /\ g.start = 0 /\ g.size = Cap /\ g.discarded = t + n - Cap /\ g.closed = f.closed
  BY <1>4
<1>5. \A k \in 1..Cap : d[k] = t + n - Cap + k - 1
  <2> SUFFICES ASSUME NEW k \in 1..Cap PROVE d[k] = t + n - Cap + k - 1
    OBVIOUS
  <2>1. k \in DOMAIN f.data /\ k <= Cap
    BY <1>r
  <2>2. d[k] = p[n - Cap + k]
    BY <1>2, <2>1
  <2>3. PICK j \in 1..n : j = n - Cap + k
    <3>1. n - Cap + k \in 1..n
      BY <1>r, <1>n
    <3> QED
      BY <3>1
  <2>4. p[j] = t + j - 1
    BY <1>1, <2>3
  <2>5. t + j - 1 = t + n - Cap + k - 1
    BY <1>r, <2>3
  <2> QED
    BY <2>2, <2>3, <2>4, <2>5
<1>6. d \in Seq(Int) /\ Len(d) = Cap
  <2>1. DOMAIN f.data = 1..Cap
    BY <1>r
  <2>2. DOMAIN d = 1..Cap /\ \A k \in 1..Cap : d[k] \in Int
    <3>1. ASSUME NEW k \in 1..Cap PROVE d[k] \in Int
      <4>1. d[k] = t + n - Cap + k - 1
        BY <1>5
      <4> QED
        BY <1>r, <4>1
    <3> QED
      BY <1>2, <2>1, <3>1
  <2>3. d = [k \in 1..Cap |-> d[k]]
    BY <1>2, <2>1
  <2>4. d \in [1..Cap -> Int]
    BY <2>2, <2>3
  <2> QED
    BY <1>r, <2>4
<1>7. t + n - Cap \in Nat /\ f.discarded <= t + n - Cap
  <2>1. PICK a, z \in Nat : a = f.discarded /\ z = f.size
    BY <1>r
  <2>2. t = a + z /\ n >= Cap /\ Cap \in Nat
    BY <1>r, <1>n, <2>1
  <2>3. t + n - Cap \in Nat /\ a <= t + n - Cap
    BY <2>2
  <2> QED
    BY <2>1, <2>3
<1>8. g \in Buffers
  BY <1>r, <1>4, <1>6, <1>7 DEF Buffers
<1>9. ASSUME NEW i \in 0..(g.size - 1) PROVE ByteAt(g, i) = g.discarded + i
  <2>1. i \in 0..(Cap - 1)
    BY <1>f
  <2>2. i \in Nat /\ i < Cap /\ 0 < Cap
    BY <1>r, <2>1
  <2>3. PICK o : o = g.start
    OBVIOUS
  <2>4. o + i < Len(g.data) /\ i < Len(g.data) /\ g.start < Len(g.data)
    BY <1>f, <1>6, <2>2, <2>3
  <2>5. ByteAt(g, i) = g.data[1 + o + i]
    BY <1>8, <2>2, <2>3, <2>4, ByteIs
  <2>6. PICK j \in 1..Cap : j = 1 + o + i
    BY <1>f, <2>2, <2>3
  <2>7. d[j] = t + n - Cap + j - 1
    BY <1>5
  <2>8. t + n - Cap + j - 1 = t + n - Cap + i
    BY <1>f, <1>7, <2>2, <2>3, <2>6
  <2> QED
    BY <1>f, <2>5, <2>6, <2>7, <2>8
<1>10. Len(g.data) = Cap /\ g.start < Len(g.data) /\ g.size <= Len(g.data) /\ Len(g.data) <= Cap
  BY <1>f, <1>r, <1>6
<1>11. Ring(g)
  BY <1>8, <1>9, <1>10 DEF Ring
<1>12. Total(g) = t + n
  BY <1>f, <1>r, <1>1 DEF Total
<1> QED
  BY <1>f, <1>1, <1>7, <1>11, <1>12

\* After a trim, the bytes from the cap before the end on still hold a rune's
\* beginning.
LEMMA TrimLeads ==
  ASSUME OutputAssumption, text \in Texts, NEW f, Ring(f), NEW g, g = Trimmed(f),
         NEW end \in Nat, end <= MaxBytes, f.discarded + Cap = end
  PROVE  \E o \in g.discarded..(end - 1) : Starts(o)
<1>1. f.discarded \in Nat /\ g.discarded \in Nat /\ Cap \in Nat
  <2>1. Ring(g)
    BY TrimKeeps
  <2> QED
    BY <2>1, RingRec DEF Ring, OutputAssumption
<1>2. PICK o \in f.discarded..(f.discarded + Cap - 1) : Starts(o)
  BY <1>1, StartsNear
<1>3. ~(o \in f.discarded..(g.discarded - 1))
  BY <1>2, TrimKeeps
<1>4. o \in g.discarded..(end - 1)
  BY <1>1, <1>3
<1> QED
  BY <1>2, <1>4

LEMMA BytesAre ==
  ASSUME NEW from \in Nat, NEW to \in Nat, from < to
  PROVE  /\ Bytes(from, to) \in Seq(Int) /\ Len(Bytes(from, to)) = to - from /\ Bytes(from, to) # <<>>
         /\ \A k \in 1..Len(Bytes(from, to)) : Bytes(from, to)[k] = from + k - 1
<1>1. PICK n \in Nat : n = to - from
  OBVIOUS
<1>2. PICK p : p = Bytes(from, to)
  OBVIOUS
<1>3. p = [k \in 1..n |-> from + k - 1]
  BY <1>1, <1>2 DEF Bytes
<1>4. p \in [1..n -> Int]
  BY <1>3
<1>5. p \in Seq(Int) /\ Len(p) = n /\ n > 0
  BY <1>1, <1>3, <1>4
<1>6. p # <<>>
  BY <1>5
<1> QED
  BY <1>1, <1>2, <1>3, <1>5, <1>6

LEMMA NoBytes ==
  ASSUME NEW from \in Nat, NEW to \in Nat, ~(from < to)
  PROVE  Bytes(from, to) = <<>>
<1>1. 1..(to - from) = {}
  OBVIOUS
<1>2. Bytes(from, to) = [k \in {} |-> from + k - 1]
  BY <1>1 DEF Bytes
<1> QED
  BY <1>2

\* Buffer.Write, of the bytes that follow what the buffer has.
LEMMA WrittenIs ==
  ASSUME OutputAssumption, text \in Texts, NEW f, Ring(f), Led(f), NEW to \in Nat, to <= MaxBytes,
         NEW g, g = BufferWith(f, Bytes(Total(f), to))
  PROVE  /\ Ring(g) /\ Led(g) /\ g.closed = f.closed
         /\ Total(g) = IF Total(f) < to THEN to ELSE Total(f)
<1>r. /\ f.size \in Nat /\ f.discarded \in Nat /\ Cap \in Nat \ {0} /\ Len(f.data) \in Nat
      /\ f.size <= Len(f.data) /\ Len(f.data) <= Cap
  BY RingRec DEF Ring, OutputAssumption
<1>t. Total(f) \in Nat /\ Total(f) = f.discarded + f.size
  BY <1>r DEF Total
<1>1. CASE ~(Total(f) < to)
  <2>1. Bytes(Total(f), to) = <<>>
    BY <1>t, <1>1, NoBytes
  <2>2. g = f
    BY <2>1 DEF BufferWith
  <2> QED
    BY <1>1, <2>2
<1>2. CASE Total(f) < to
  <2>1. PICK p, n, t : p = Bytes(Total(f), to) /\ n = Len(p) /\ t = Total(f)
    OBVIOUS
  <2>2. p \in Seq(Int) /\ n = to - t /\ p # <<>> /\ \A k \in 1..Len(p) : p[k] = Total(f) + k - 1
    BY <1>t, <1>2, <2>1, BytesAre, ZenonT(60)
  <2>3. n \in Nat /\ n > 0 /\ t \in Nat /\ t + n = to /\ t = f.discarded + f.size
    BY <1>t, <1>2, <2>1, <2>2
  <2>4. CASE n >= Cap
    <3>1. PICK e, h : e = Grown(f, Cap) /\ h = Replaced(e, p)
      OBVIOUS
    <3>2. g = Trimmed(h)
      BY <2>1, <2>2, <2>4, <3>1 DEF BufferWith
    <3>3. Cap <= Cap
      BY <1>r
    <3>4. Ring(e) /\ Cap <= Len(e.data) /\ e.size = f.size /\ e.discarded = f.discarded /\ e.closed = f.closed
      BY <1>r, <3>1, <3>3, GrownIs
    <3>5. Len(e.data) = Cap /\ Total(e) = t
      <4>1. Len(e.data) <= Cap /\ Len(e.data) \in Nat
        BY <3>4, RingRec DEF Ring
      <4> QED
        BY <1>r, <2>1, <3>4, <4>1 DEF Total
    <3>6. /\ Ring(h) /\ Total(h) = Total(e) + Len(p) /\ h.size = Cap
          /\ e.discarded <= h.discarded /\ h.closed = e.closed
      <4>1. \A k \in 1..Len(p) : p[k] = Total(e) + k - 1
        BY <2>1, <2>2, <3>5
      <4>2. Len(p) >= Cap
        BY <2>1, <2>4
      <4> QED
        BY <2>2, <3>1, <3>4, <3>5, <4>1, <4>2, ReplacedIs
    <3>7. Total(h) = to /\ h.discarded + Cap = to
      <4>1. h.discarded \in Nat
        BY <3>6, RingRec DEF Ring
      <4>2. Total(h) = to
        BY <2>1, <2>3, <3>5, <3>6
      <4>3. Total(h) = h.discarded + h.size
        BY DEF Total
      <4> QED
        BY <3>6, <4>2, <4>3
    <3>8. Ring(g) /\ Total(g) = Total(h) /\ g.closed = h.closed
      BY <3>2, <3>6, TrimKeeps
    <3>9. \E o \in g.discarded..(to - 1) : Starts(o)
      BY <3>2, <3>6, <3>7, TrimLeads
    <3>10. Led(g)
      BY <3>7, <3>8, <3>9 DEF Led
    <3> QED
      BY <1>2, <3>4, <3>6, <3>7, <3>8, <3>10
  <2>5. CASE n < Cap
    <3>1. PICK needed, drop : needed = Min({Cap, f.size + Len(p)}) /\ drop = f.size + Len(p) - Cap
      OBVIOUS
    <3>2. needed = (IF Cap <= f.size + n THEN Cap ELSE f.size + n) /\ drop = f.size + n - Cap
      <4>1. PICK x \in Nat : x = f.size + n
        BY <1>r, <2>3
      <4>2. Min({Cap, x}) = IF Cap <= x THEN Cap ELSE x
        BY <1>r, MinOfTwo
      <4>3. needed = Min({Cap, x}) /\ drop = f.size + n - Cap
        BY <2>1, <3>1, <4>1
      <4> QED
        BY <4>1, <4>2, <4>3
    <3>3. needed \in Nat \ {0} /\ needed <= Cap
      <4>1. PICK x \in Nat : x = f.size + n
        BY <1>r, <2>3
      <4>2. needed = IF Cap <= x THEN Cap ELSE x
        BY <3>2, <4>1
      <4>3. x > 0
        BY <1>r, <2>3, <4>1
      <4> QED
        BY <1>r, <4>2, <4>3
    <3>4. PICK e, h : e = Grown(f, needed) /\ h = IF drop > 0 THEN Trimmed(Dropped(e, drop)) ELSE e
      OBVIOUS
    <3>5. g = Appended(h, p)
      <4>1. ~(Len(p) >= Cap)
        BY <1>r, <2>1, <2>3, <2>5
      <4> QED
        BY <2>1, <2>2, <3>1, <3>4, <4>1 DEF BufferWith
    <3>6. Ring(e) /\ needed <= Len(e.data) /\ e.size = f.size /\ e.discarded = f.discarded /\ e.closed = f.closed
      BY <3>3, <3>4, GrownIs
    <3>7. Len(e.data) \in Nat
      BY <3>6, RingRec DEF Ring
    \* What the room for the new bytes costs.
    <3>8. /\ Ring(h) /\ Total(h) = t /\ h.closed = f.closed /\ h.size + n <= Len(h.data)
          /\ h.discarded = 0 \/ \E o \in h.discarded..(to - 1) : Starts(o)
      <4>1. CASE drop > 0
        <5>1. PICK k : k = Dropped(e, drop)
          OBVIOUS
        <5>2. drop \in 0..e.size
          <6>1. PICK z \in Nat : z = f.size
            BY <1>r
          <6>2. drop = z + n - Cap /\ drop > 0 /\ n < Cap /\ Cap \in Nat
            BY <1>r, <2>5, <3>2, <4>1, <6>1
          <6>3. drop \in 0..z
            BY <2>3, <6>2
          <6> QED
            BY <3>6, <6>1, <6>3
        <5>3. Ring(k) /\ k.data = e.data /\ k.size = e.size - drop /\ k.discarded = e.discarded + drop /\ k.closed = e.closed
          BY <3>6, <5>1, <5>2, DroppedIs
        <5>4. h = Trimmed(k)
          BY <3>4, <4>1, <5>1
        <5>5. Ring(h) /\ h.data = k.data /\ Total(h) = Total(k) /\ h.closed = k.closed /\ h.size <= k.size
          BY <5>3, <5>4, TrimKeeps
        <5>6. k.discarded + Cap = to /\ Total(k) = t /\ k.size + n = Cap /\ needed = Cap
          <6>1. k.size = f.size - drop /\ k.discarded = f.discarded + drop /\ drop = f.size + n - Cap
            BY <3>2, <3>6, <5>3
          <6>2. Total(k) = k.discarded + k.size
            BY DEF Total
          <6>3. PICK a, z \in Nat : a = f.discarded /\ z = f.size
            BY <1>r
          <6>4. drop = z + n - Cap /\ drop > 0 /\ k.size = z - drop /\ k.discarded = a + drop /\ t = a + z /\ Cap \in Nat
            BY <1>r, <2>3, <3>2, <4>1, <6>1, <6>3
          <6>5. k.discarded + Cap = to /\ k.size + n = Cap
            BY <2>3, <6>4
          <6>6. k.discarded + k.size = t
            BY <2>3, <6>4
          <6>7. Cap <= f.size + n
            BY <2>3, <6>3, <6>4
          <6> QED
            BY <3>2, <6>2, <6>5, <6>6, <6>7
        <5>7. \E o \in h.discarded..(to - 1) : Starts(o)
          BY <5>3, <5>4, <5>6, TrimLeads
        <5>8. h.size + n <= Len(h.data)
          <6>1. h.size \in Nat /\ k.size \in Nat
            BY <5>3, <5>5, RingRec DEF Ring
          <6>2. Len(h.data) = Len(e.data)
            BY <5>3, <5>5
          <6>3. PICK x, y, z \in Nat : x = h.size /\ y = k.size /\ z = Len(e.data)
            BY <3>7, <6>1
          <6>4. x <= y /\ y + n = Cap /\ Cap <= z
            BY <3>6, <5>5, <5>6, <6>3
          <6>5. x + n <= z
            BY <2>3, <6>4
          <6> QED
            BY <6>2, <6>3, <6>5
        <5> QED
          BY <3>6, <5>3, <5>5, <5>6, <5>7, <5>8
      <4>2. CASE ~(drop > 0)
        <5>1. h = e
          BY <3>4, <4>2
        <5>2. Total(e) = t
          BY <1>t, <2>1, <3>6 DEF Total
        <5>3. f.size + n <= needed
          <6>1. PICK z \in Nat : z = f.size
            BY <1>r
          <6>2. drop = z + n - Cap /\ needed = IF Cap <= z + n THEN Cap ELSE z + n
            BY <3>2, <6>1
          <6>3. z + n <= Cap
            BY <1>r, <2>3, <4>2, <6>2
          <6>4. z + n <= needed
            BY <1>r, <2>3, <6>2, <6>3
          <6> QED
            BY <6>1, <6>4
        <5>4. f.size + n <= Len(e.data)
          BY <1>r, <2>3, <3>3, <3>6, <3>7, <5>3
        <5>5. e.discarded = 0 \/ \E o \in e.discarded..(to - 1) : Starts(o)
          <6>1. CASE f.discarded = 0
            BY <3>6, <6>1
          <6>2. CASE f.discarded # 0
            <7>1. PICK o \in f.discarded..(t - 1) : Starts(o)
              BY <2>1, <6>2 DEF Led
            <7>2. o \in e.discarded..(to - 1)
              BY <1>r, <2>3, <3>6, <7>1
            <7> QED
              BY <7>1, <7>2
          <6> QED
            BY <6>1, <6>2
        <5> QED
          BY <3>6, <5>1, <5>2, <5>4, <5>5
      <4> QED
        BY <4>1, <4>2
    <3>9. /\ Ring(g) /\ Total(g) = Total(h) + Len(p)
          /\ g.discarded = h.discarded /\ g.closed = h.closed
      <4>1. \A k \in 1..Len(p) : p[k] = Total(h) + k - 1
        BY <2>1, <2>2, <3>8
      <4>2. h.size + Len(p) <= Len(h.data)
        BY <2>1, <3>8
      <4> QED
        BY <2>2, <3>5, <3>8, <4>1, <4>2, AppendedIs
    <3>10. Total(g) = to
      BY <2>1, <2>3, <3>8, <3>9
    <3>11. Led(g)
      BY <3>8, <3>9, <3>10 DEF Led
    <3> QED
      BY <1>2, <3>8, <3>9, <3>10, <3>11
  <2> QED
    BY <1>r, <2>3, <2>4, <2>5
<1> QED
  BY <1>1, <1>2

-----------------------------------------------------------------------------
(* Reading.                                                                *)

LEMMA FirstStarts == ASSUME OutputAssumption, text \in Texts PROVE Starts(0)
<1>1. 1 \in 1..MaxBytes /\ ~ \E j \in 1..(1 - 1) : text[j] > 1 - j
  BY DEF OutputAssumption
<1>2. text[1] # 0
  BY <1>1 DEF Texts
<1> QED
  BY <1>2 DEF Starts, Continuation

\* What a read leaves of a buffer, and where it begins.
LEMMA AlignedIs ==
  ASSUME OutputAssumption, text \in Texts, NEW f, Ring(f), Led(f), NEW offset,
         NEW g, g = Aligned(f, offset)
  PROVE  /\ Ring(g) /\ Led(g) /\ Total(g) = Total(f) /\ g.closed = f.closed
         /\ \/ g.size > 0 => Starts(g.discarded)
            \/ ReadStart(g, offset) # g.discarded
<1>1. CASE ReadStart(f, offset) = f.discarded
  <2>1. g = Trimmed(f)
    BY <1>1 DEF Aligned
  <2>2. /\ Ring(g) /\ Total(g) = Total(f) /\ g.closed = f.closed
        /\ f.discarded <= g.discarded
        /\ \A o \in f.discarded..(g.discarded - 1) : ~Starts(o)
        /\ g.size > 0 => Starts(g.discarded)
    BY <2>1, TrimKeeps
  <2>3. PICK a, b, t \in Nat : a = f.discarded /\ b = g.discarded /\ t = Total(g)
    <3>1. f.discarded \in Nat /\ g.discarded \in Nat /\ g.size \in Nat
      BY <2>2, RingRec DEF Ring
    <3>2. Total(g) \in Nat
      BY <3>1 DEF Total
    <3> QED
      BY <3>1, <3>2
  <2>4. b <= t
    <3>1. g.size \in Nat /\ Total(g) = g.discarded + g.size
      BY <2>2, RingRec DEF Ring, Total
    <3> QED
      BY <2>3, <3>1
  <2>5. CASE a = 0
    <3>1. CASE b = 0
      BY <2>2, <2>3, <3>1 DEF Led
    <3>2. CASE b # 0
      <4>1. 0 \in f.discarded..(g.discarded - 1)
        BY <2>3, <2>5, <3>2
      <4> QED
        BY <2>2, <4>1, FirstStarts
    <3> QED
      BY <3>1, <3>2
  <2>6. CASE a # 0
    <3>1. PICK o \in f.discarded..(Total(f) - 1) : Starts(o)
      BY <2>3, <2>6 DEF Led
    <3>2. ~(o \in f.discarded..(g.discarded - 1))
      BY <2>2, <3>1
    <3>3. o \in a..(t - 1) /\ ~(o \in a..(b - 1))
      BY <2>2, <2>3, <3>1, <3>2
    <3>4. o \in b..(t - 1)
      BY <3>3
    <3>5. o \in g.discarded..(Total(g) - 1)
      BY <2>3, <3>4
    <3> QED
      BY <2>2, <3>1, <3>5 DEF Led
  <2> QED
    BY <2>5, <2>6
<1>2. CASE ReadStart(f, offset) # f.discarded
  BY <1>2 DEF Aligned
<1> QED
  BY <1>1, <1>2

\* Reading begins where the reader stands, or else behind a gap, at a rune.
LEMMA ReadStartIs ==
  ASSUME OutputAssumption, text \in Texts, NEW g, Ring(g), Led(g), NEW offset \in Nat, offset <= Total(g),
         offset < Total(g) => Starts(offset),
         \/ g.size > 0 => Starts(g.discarded)
         \/ ReadStart(g, offset) # g.discarded,
         NEW at, at = ReadStart(g, offset)
  PROVE  /\ at \in Nat /\ g.discarded <= at /\ offset <= at /\ at <= Total(g)
         /\ at < Total(g) => Starts(at)
         /\ at = Total(g) => at = offset
<1>1. PICK d, z, t \in Nat : d = g.discarded /\ z = g.size /\ t = Total(g)
  BY RingRec DEF Ring, Total
<1>2. t = d + z
  BY <1>1 DEF Total
<1>3. PICK inside : inside = Max({g.discarded, Min({offset, Total(g)})})
  OBVIOUS
<1>4. inside = IF d >= offset THEN d ELSE offset
  <2>1. Min({offset, t}) = offset
    BY <1>1, MinOfTwo
  <2>2. inside = Max({d, offset})
    BY <1>1, <1>3, <2>1
  <2>3. Max({d, offset}) = IF d >= offset THEN d ELSE offset
    BY MaxOfTwo
  <2> QED
    BY <2>2, <2>3
<1>o. offset <= t
  BY <1>1
<1>5. CASE inside = t
  <2>1. at = t
    BY <1>1, <1>3, <1>5 DEF ReadStart
  <2>2. at = offset
    <3>1. CASE d >= offset
      <4>1. d = t
        BY <1>4, <1>5, <3>1
      <4>2. ~ \E o \in g.discarded..(Total(g) - 1) : Starts(o)
        BY <1>1, <4>1
      <4>3. d = 0
        BY <1>1, <4>2 DEF Led
      <4> QED
        BY <1>o, <2>1, <4>1, <4>3
    <3>2. CASE ~(d >= offset)
      BY <1>4, <1>5, <2>1, <3>2
    <3> QED
      BY <3>1, <3>2
  <2> QED
    BY <1>1, <1>2, <2>1, <2>2
<1>6. CASE inside # t
  <2>1. inside \in Nat /\ d <= inside /\ inside < t /\ offset <= inside
    BY <1>2, <1>4, <1>o, <1>6
  <2>2. PICK S : S = {g.discarded} \cup {o \in g.discarded..inside : ~Continuation(ByteAt(g, o - g.discarded))}
    OBVIOUS
  <2>3. at = Max(S)
    BY <1>1, <1>3, <1>6, <2>2 DEF ReadStart
  <2>4. \A o \in d..inside : ByteAt(g, o - d) = o
    <3> SUFFICES ASSUME NEW o \in d..inside PROVE ByteAt(g, o - d) = o
      OBVIOUS
    <3>1. PICK i \in 0..(z - 1) : i = o - d
      BY <1>2, <2>1
    <3>2. ByteAt(g, i) = d + i
      BY <1>1 DEF Ring
    <3> QED
      BY <3>1, <3>2
  <2>5. S = {d} \cup {o \in d..inside : Starts(o)}
    BY <1>1, <2>2, <2>4 DEF Starts
  <2>6. S \in SUBSET (0..inside) /\ S # {}
    BY <2>1, <2>5
  <2>7. at \in S /\ \A y \in S : at >= y
    BY <2>1, <2>3, <2>6, MaxIs
  <2>8. at \in Nat /\ d <= at /\ at <= inside
    BY <2>1, <2>5, <2>7
  <2>9. CASE d >= offset
    <3>1. at = d
      BY <1>4, <2>8, <2>9
    <3>2. Starts(at)
      <4>1. g.size > 0
        BY <1>1, <1>2, <2>1
      <4> QED
        BY <1>1, <3>1, <4>1
    <3> QED
      BY <1>1, <2>1, <2>8, <2>9, <3>1, <3>2
  <2>10. CASE ~(d >= offset)
    <3>1. inside = offset /\ Starts(offset)
      BY <1>1, <1>4, <2>1, <2>10
    <3>2. offset \in S
      BY <2>1, <2>5, <3>1
    <3>3. at = offset
      BY <2>7, <2>8, <3>1, <3>2
    <3> QED
      BY <1>1, <2>1, <2>8, <3>1, <3>3
  <2> QED
    BY <2>9, <2>10
<1> QED
  BY <1>5, <1>6

\* A page cut after its last whole rune ends where a rune begins.
LEMMA CompletePrefixIs ==
  ASSUME OutputAssumption, text \in Texts, NEW at \in Nat, NEW n \in Nat \ {0}, at + n <= MaxBytes, Starts(at),
         NEW p \in Seq(Nat), Len(p) = n, \A k \in 1..n : p[k] = at + k - 1,
         NEW safe, safe = CompletePrefix(p)
  PROVE  safe \in 0..n /\ (at + safe < MaxBytes => Starts(at + safe))
<1>1. PICK starts, last : starts = {k \in 1..Len(p) : ~Continuation(p[k])} \cup {1} /\ last = Max(starts)
  OBVIOUS
<1>2. starts = {k \in 1..n : Starts(at + k - 1)}
  <2>1. 1 \in 1..n /\ Starts(at + 1 - 1)
    <3>1. at + 1 - 1 = at
      OBVIOUS
    <3> QED
      BY <3>1
  <2>2. \A k \in 1..n : ~Continuation(p[k]) <=> Starts(at + k - 1)
    BY DEF Starts
  <2> QED
    BY <1>1, <2>1, <2>2
<1>3. starts \in SUBSET (0..n) /\ 1 \in starts
  <2>1. starts \in SUBSET (0..n)
    BY <1>2
  <2>2. 1 \in starts
    BY <1>1
  <2> QED
    BY <2>1, <2>2
<1>4. last \in starts /\ \A k \in starts : last >= k
  BY <1>1, <1>3, MaxIs
<1>5. last \in 1..n /\ Starts(at + last - 1)
  BY <1>2, <1>4
<1>6. PICK j \in Nat : j = at + last
  BY <1>5
<1>7. j \in 1..MaxBytes /\ text[j] # 0 /\ text[j] \in Nat
  <2>0. MaxBytes \in Nat /\ Widths \subseteq 1..Cap /\ Cap \in Nat /\ text \in [1..MaxBytes -> Widths \cup {0}]
    BY DEF OutputAssumption, Texts
  <2>1. j \in 1..MaxBytes
    BY <1>5, <1>6, <2>0
  <2>2. (at + last - 1) + 1 = j
    BY <1>5, <1>6
  <2>3. text[j] # 0
    BY <1>5, <2>2 DEF Starts, Continuation
  <2>4. PICK w : w = text[j]
    OBVIOUS
  <2>5. w \in Widths \cup {0}
    BY <2>0, <2>1, <2>4
  <2>6. w \in Nat
    BY <2>0, <2>5
  <2> QED
    BY <2>1, <2>3, <2>4, <2>6
<1>8. safe = IF text[j] > n - last + 1 THEN last - 1 ELSE n
  <2>1. p[last] = at + last - 1
    BY <1>5
  <2>2. p[last] + 1 = j
    BY <1>5, <1>6, <2>1
  <2> QED
    BY <1>1, <2>2 DEF CompletePrefix
<1>9. CASE text[j] > n - last + 1
  <2>1. safe = last - 1 /\ at + safe = at + last - 1 /\ safe \in 0..n
    BY <1>5, <1>8, <1>9
  <2> QED
    BY <1>5, <2>1
<1>10. CASE ~(text[j] > n - last + 1)
  <2>1. safe = n
    BY <1>8, <1>10
  <2>2. PICK w \in Nat : w = text[j]
    BY <1>7
  <2>3. w # 0 /\ w <= n - last + 1
    BY <1>5, <1>7, <1>10, <2>2
  <2>4. ASSUME at + n < MaxBytes PROVE Starts(at + n)
    <3>0. MaxBytes \in Nat
      BY DEF OutputAssumption
    <3>1. j + w <= at + n + 1 /\ j + w <= MaxBytes
      BY <1>5, <1>6, <2>3, <2>4, <3>0
    <3>2. text[j + w] # 0
      BY <1>7, <2>2, <3>1, RuneEnds
    <3>3. CASE j + w = at + n + 1
      <4>1. (at + n) + 1 = j + w
        BY <3>3
      <4> QED
        BY <3>2, <4>1 DEF Starts, Continuation
    <3>4. CASE j + w # at + n + 1
      <4>0. PICK m \in Nat : m = last
        BY <1>5
      <4>a. j = at + m /\ m >= 1 /\ n \in Nat
        BY <1>5, <1>6, <4>0
      <4>b. PICK x, y \in Nat : x = j + w /\ y = at + n
        BY <4>a
      <4>c. x <= y
        <5>1. x <= y + 1 /\ x # y + 1
          BY <3>1, <3>4, <4>b
        <5> QED
          BY <5>1
      <4>1. PICK k \in 1..n : k = m + w
        <5>1. m + w <= n /\ m + w >= 1
          BY <4>a, <4>b, <4>c
        <5>2. m + w \in 1..n
          BY <4>a, <5>1
        <5> QED
          BY <5>2
      <4>2. (at + k - 1) + 1 = j + w
        BY <4>a, <4>1
      <4>3. Starts(at + k - 1)
        BY <3>2, <4>2 DEF Starts, Continuation
      <4>4. last >= k
        BY <1>2, <1>4, <4>3
      <4> QED
        <5>1. m >= m + w
          BY <4>0, <4>1, <4>4
        <5>2. w # 0
          BY <2>3
        <5> QED
          BY <5>1, <5>2
    <3> QED
      BY <3>3, <3>4
  <2> QED
    BY <2>1, <2>4
<1> QED
  BY <1>9, <1>10

\* n bytes of the output, from `at` on.
Piece(chunk, at, n) == chunk \in Seq(Nat) /\ Len(chunk) = n /\ \A k \in 1..n : chunk[k] = at + k - 1

\* A page for a reader at `offset` of f: the n bytes from `at` on, what it says
\* of a gap and of more, and where it ends.
Tells(page, f, offset, at, n) ==
    /\ Piece(page.chunk, at, n)
    /\ page.next = at + n /\ offset <= at /\ at + n <= Total(f)
    /\ page.gap \in BOOLEAN /\ (at # offset => page.gap)
    /\ page.more \in BOOLEAN /\ (~page.more => at + n = Total(f))
    /\ \/ at + n < MaxBytes => Starts(at + n)
       \/ at + n = Total(f) /\ (f.closed \/ at + n = offset)

\* What one page tells a reader that stands at `offset`.
LEMMA PageIs ==
  ASSUME OutputAssumption, text \in Texts, NEW f, Ring(f), Led(f), Total(f) <= MaxBytes,
         NEW offset \in Nat, offset <= Total(f), offset < Total(f) => Starts(offset),
         NEW page, page = Page(Aligned(f, offset), offset)
  PROVE  \E at \in Nat, n \in Nat : Tells(page, f, offset, at, n)
<1>1. PICK g, at : g = Aligned(f, offset) /\ at = ReadStart(g, offset)
  OBVIOUS
<1>2. /\ Ring(g) /\ Led(g) /\ Total(g) = Total(f) /\ g.closed = f.closed
      /\ \/ g.size > 0 => Starts(g.discarded)
         \/ ReadStart(g, offset) # g.discarded
  BY <1>1, AlignedIs
<1>3. PICK d, z, t \in Nat : d = g.discarded /\ z = g.size /\ t = Total(g)
  <2>1. g.discarded \in Nat /\ g.size \in Nat
    BY <1>2, RingRec DEF Ring
  <2>2. Total(g) \in Nat
    BY <2>1 DEF Total
  <2> QED
    BY <2>1, <2>2
<1>4. t = d + z /\ t = Total(f) /\ t <= MaxBytes /\ offset <= t /\ g.closed \in BOOLEAN /\ PageLimit \in Nat \ {0}
  <2>1. t = d + z
    BY <1>3 DEF Total
  <2>2. g.closed \in BOOLEAN
    BY <1>2, RingRec DEF Ring
  <2> QED
    BY <1>2, <1>3, <2>1, <2>2 DEF OutputAssumption
<1>5. /\ at \in Nat /\ d <= at /\ offset <= at /\ at <= t
      /\ at < t => Starts(at)
      /\ at = t => at = offset
  <2>1. offset <= Total(g) /\ (offset < Total(g) => Starts(offset))
    BY <1>2
  <2>2. /\ at \in Nat /\ g.discarded <= at /\ offset <= at /\ at <= Total(g)
        /\ at < Total(g) => Starts(at)
        /\ at = Total(g) => at = offset
    BY <1>1, <1>2, <2>1, ReadStartIs
  <2> QED
    BY <1>3, <2>2
<1>6. PICK n, out : n = Min({Total(g) - at, PageLimit}) /\ out = Copied(g, at - g.discarded, n)
  OBVIOUS
<1>7. n \in Nat /\ n <= t - at /\ (~(t - at > n) => n = t - at) /\ (n = 0 => at = t)
  <2>1. PICK r \in Nat : r = t - at
    BY <1>5
  <2>2. Min({r, PageLimit}) = IF r <= PageLimit THEN r ELSE PageLimit
    BY <1>4, MinOfTwo
  <2>3. n = IF r <= PageLimit THEN r ELSE PageLimit
    BY <1>3, <1>6, <2>1, <2>2
  <2>4. n \in Nat /\ n <= r /\ (n = 0 => r = 0)
    BY <1>4, <2>3
  <2>5. ~(r > n) => n = r
    BY <2>1, <2>4
  <2> QED
    BY <1>5, <2>1, <2>4, <2>5
<1>8. out \in Seq(Nat) /\ Len(out) = n /\ \A k \in 1..n : out[k] = at + k - 1
  <2>1. PICK i \in Nat : i = at - d
    BY <1>5
  <2>2. i + n <= g.size /\ out = Copied(g, i, n) /\ d + i = at
    BY <1>3, <1>4, <1>5, <1>6, <1>7, <2>1
  <2>3. /\ Copied(g, i, n) \in Seq(Nat) /\ Len(Copied(g, i, n)) = n
        /\ \A k \in 1..n : Copied(g, i, n)[k] = g.discarded + i + k - 1
    <3>1. Ring(g) /\ i \in Nat /\ n \in Nat /\ i + n <= g.size
      BY <1>2, <1>7, <2>2
    <3>2. Copied(g, i, n) \in Seq(Nat) /\ Len(Copied(g, i, n)) = n
      BY <3>1, CopiedIs
    <3>3. \A k \in 1..n : Copied(g, i, n)[k] = g.discarded + i + k - 1
      BY <3>1, CopiedAt
    <3> QED
      BY <3>2, <3>3
  <2>4. \A k \in 1..n : g.discarded + i + k - 1 = at + k - 1
    BY <1>3, <2>2
  <2> QED
    BY <2>2, <2>3, <2>4
<1>9. PICK safe : safe = IF out # <<>> /\ (Total(g) - at > n \/ ~g.closed) THEN CompletePrefix(out) ELSE n
  OBVIOUS
<1>c. PICK chunk : chunk = SubSeq(out, 1, safe)
  OBVIOUS
<1>10. page = [chunk |-> chunk, next |-> at + safe, gap |-> at # Min({offset, Total(g)}),
               more |-> Total(g) - at > n \/ safe < n]
  BY <1>1, <1>6, <1>9, <1>c DEF Page
<1>11. /\ page.chunk = chunk /\ page.next = at + safe /\ (page.gap <=> at # offset)
       /\ (page.more <=> Total(g) - at > n \/ safe < n) /\ page.gap \in BOOLEAN /\ page.more \in BOOLEAN
  <2>1. Min({offset, t}) = offset
    BY <1>4, MinOfTwo
  <2>2. Min({offset, Total(g)}) = offset
    BY <1>3, <2>1
  <2>3. at # Min({offset, Total(g)}) <=> at # offset
    BY <2>2
  <2>c. page.chunk = chunk /\ page.next = at + safe
    BY <1>10
  <2>g. page.gap = (at # Min({offset, Total(g)}))
    BY <1>10
  <2>m. page.more = (Total(g) - at > n \/ safe < n)
    BY <1>10
  <2>5. page.gap \in BOOLEAN /\ page.more \in BOOLEAN
    BY <2>g, <2>m, Zenon
  <2> QED
    BY <2>3, <2>c, <2>g, <2>m, <2>5, Zenon
<1>12. /\ safe \in 0..n
       /\ \/ at + safe < MaxBytes => Starts(at + safe)
          \/ at + safe = t /\ (g.closed \/ at + safe = offset)
  <2>1. CASE n = 0
    <3>1. out = <<>>
      BY <1>8, <2>1
    <3>2. safe = 0
      BY <1>9, <2>1, <3>1
    <3> QED
      BY <1>5, <1>7, <2>1, <3>2
  <2>2. CASE n # 0 /\ ~(t - at > n \/ ~g.closed)
    <3>1. safe = n
      BY <1>3, <1>9, <2>2
    <3>2. at + safe = t
      BY <1>5, <1>7, <2>2, <3>1
    <3> QED
      BY <1>7, <2>2, <3>1, <3>2
  <2>3. CASE n # 0 /\ (t - at > n \/ ~g.closed)
    <3>1. out # <<>>
      BY <1>8, <2>3
    <3>2. safe = CompletePrefix(out)
      BY <1>3, <1>9, <2>3, <3>1
    <3>3. at + n <= MaxBytes /\ at < t /\ n \in Nat \ {0} /\ Starts(at)
      <4>1. MaxBytes \in Nat
        BY DEF OutputAssumption
      <4>2. at + n <= t /\ n > 0
        BY <1>5, <1>7, <2>3
      <4>3. at < t /\ at + n <= MaxBytes
        BY <1>4, <1>5, <1>7, <4>1, <4>2
      <4> QED
        BY <1>5, <1>7, <2>3, <4>3
    <3>4. safe \in 0..n /\ (at + safe < MaxBytes => Starts(at + safe))
      BY <1>5, <1>8, <3>2, <3>3, CompletePrefixIs
    <3> QED
      BY <3>4
  <2> QED
    BY <2>1, <2>2, <2>3
<1>13. /\ chunk \in Seq(Nat) /\ Len(chunk) = safe
       /\ \A k \in 1..safe : chunk[k] = at + k - 1
  <2>1. safe \in Nat /\ safe <= n /\ safe <= Len(out)
    BY <1>7, <1>8, <1>12
  <2>2. \A k \in 1..safe : k \in 1..n /\ k \in 1..Len(out)
    BY <1>7, <1>8, <2>1
  <2>4. chunk = [k \in 1..safe |-> out[k]]
    BY <1>8, <1>c, <2>1
  <2>5. \A k \in 1..safe : chunk[k] = at + k - 1
    BY <1>8, <2>2, <2>4
  <2>6. \A k \in 1..safe : chunk[k] \in Nat
    BY <1>8, <2>2, <2>4
  <2>7. chunk \in [1..safe -> Nat]
    BY <2>4, <2>6
  <2>8. chunk \in Seq(Nat) /\ Len(chunk) = safe
    BY <2>1, <2>4, <2>7
  <2> QED
    BY <2>5, <2>8
<1>14. safe \in Nat /\ at + safe <= t /\ (~page.more => at + safe = t)
  <2>1. safe \in Nat /\ safe <= n
    BY <1>7, <1>12
  <2>2. at + safe <= t
    BY <1>5, <1>7, <2>1
  <2>3. ASSUME ~page.more PROVE at + safe = t
    <3>1. ~(t - at > n) /\ ~(safe < n)
      BY <1>3, <1>11, <2>3
    <3>2. n = t - at /\ safe = n
      BY <1>7, <2>1, <3>1
    <3> QED
      BY <1>5, <3>2
  <2> QED
    BY <2>1, <2>2, <2>3
<1>15. page.gap \in BOOLEAN /\ page.more \in BOOLEAN /\ (at # offset => page.gap)
  BY <1>7, <1>11
<1>16. Piece(page.chunk, at, safe)
  BY <1>11, <1>13, <1>14 DEF Piece
<1>17. \/ at + safe < MaxBytes => Starts(at + safe)
       \/ at + safe = Total(f) /\ (f.closed \/ at + safe = offset)
  BY <1>2, <1>4, <1>12
<1>18. Tells(page, f, offset, at, safe)
  BY <1>4, <1>5, <1>11, <1>14, <1>15, <1>16, <1>17 DEF Tells
<1> QED
  BY <1>5, <1>14, <1>18

-----------------------------------------------------------------------------
(* The invariant.                                                          *)

OutputEnded == over["job"] \/ over["session"]

Target == IF who = "agent" THEN "job" ELSE who

Readers == [cursor : Nat, got : Seq(Nat), gap : BOOLEAN, done : BOOLEAN, pc : {"idle", "reading", "lost"}]

StreamTypes ==
    /\ text \in Texts /\ printed \in 0..MaxBytes
    /\ over \in [Bufs -> BOOLEAN] /\ who \in Bufs \cup {"agent"}
    /\ buf \in [Bufs -> Buffers]
    /\ follower \in Readers

\* A buffer has what was printed, up to the line the cleaner still holds, and
\* all of it once its writer is done.
BufferInv ==
    /\ \A b \in Bufs : /\ Ring(buf[b]) /\ Led(buf[b]) /\ Total(buf[b]) <= printed
                       /\ buf[b].closed => over[b]
    /\ over["job"] => Total(buf["job"]) = printed
    /\ OutputEnded => Total(buf["session"]) = printed

\* A reader stands where a rune begins, or where the output ended.
AtRune(o) == o < MaxBytes => Starts(o) \/ (OutputEnded /\ o = printed)

\* What it got goes up, without a hole unless it was told of one.
InOrder(got, gap, cursor) ==
    /\ \A k \in 1..(Len(got) - 1) :
         IF gap THEN got[k] < got[k + 1] ELSE got[k] + 1 = got[k + 1]
    /\ got # <<>> => IF gap THEN cursor > got[Len(got)]
                     ELSE cursor = got[Len(got)] + 1 /\ got[1] = 0
    /\ got = <<>> /\ ~gap => cursor = 0

ReaderInv ==
    /\ follower.cursor <= Total(buf[Target]) /\ AtRune(follower.cursor)
    /\ InOrder(follower.got, follower.gap, follower.cursor)
    /\ follower.done => OutputEnded /\ follower.cursor = printed
    /\ follower.pc = "reading" => who = "agent"

StreamInv == StreamTypes /\ BufferInv /\ ReaderInv

LEMMA StreamInit == ASSUME OutputAssumption PROVE OutputInit => StreamInv
<1> SUFFICES ASSUME OutputInit PROVE StreamInv
  OBVIOUS
<1>1. NewBuffer \in Buffers
  BY DEF NewBuffer, Buffers
<1>2. NewBuffer.data = <<>> /\ NewBuffer.start = 0 /\ NewBuffer.size = 0 /\ NewBuffer.discarded = 0 /\ NewBuffer.closed = FALSE
  BY DEF NewBuffer
<1>3. Ring(NewBuffer) /\ Led(NewBuffer) /\ Total(NewBuffer) = 0
  <2>1. \A i \in 0..(NewBuffer.size - 1) : ByteAt(NewBuffer, i) = NewBuffer.discarded + i
    BY <1>2
  <2>2. Len(NewBuffer.data) = 0 /\ Cap \in Nat
    BY <1>2 DEF OutputAssumption
  <2> QED
    BY <1>1, <1>2, <2>1, <2>2 DEF Ring, Led, Total
<1>4. NewReader \in Readers /\ NewReader.cursor = 0 /\ NewReader.got = <<>> /\ ~NewReader.done /\ NewReader.pc = "idle"
  BY DEF NewReader, Readers
<1>5. StreamTypes
  BY <1>1, <1>4 DEF OutputInit, StreamTypes, OutputAssumption, Bufs
<1>6. \A b \in Bufs : buf[b] = NewBuffer /\ over[b] = FALSE
  BY DEF OutputInit
<1>7. BufferInv
  BY <1>2, <1>3, <1>6 DEF BufferInv, OutputInit, Bufs, OutputEnded
<1>8. Target \in Bufs
  BY DEF OutputInit, Target, Bufs
<1>9. ReaderInv
  <2>1. follower.cursor = 0 /\ follower.got = <<>> /\ ~follower.done /\ follower.pc = "idle"
    BY <1>4 DEF OutputInit
  <2>2. Starts(0)
    BY FirstStarts DEF OutputInit
  <2>3. AtRune(follower.cursor)
    BY <2>1, <2>2 DEF AtRune
  <2>4. InOrder(follower.got, follower.gap, follower.cursor)
    BY <2>1 DEF InOrder
  <2> QED
    BY <1>3, <1>6, <1>8, <2>1, <2>3, <2>4 DEF ReaderInv
<1> QED
  BY <1>5, <1>7, <1>9 DEF StreamInv

\* What the writers do leaves a reader where it stands.
LEMMA ReaderKept ==
  ASSUME StreamInv, UNCHANGED <<text, who, follower>>,
         printed' \in Nat, printed <= printed', OutputEnded => OutputEnded' /\ printed' = printed,
         \A b \in Bufs : Total(buf[b]) <= Total(buf'[b]) /\ Total(buf[b]) \in Nat /\ Total(buf'[b]) \in Nat
  PROVE  ReaderInv'
<1>1. Target' = Target /\ Target \in Bufs
  BY DEF StreamInv, StreamTypes, Target, Bufs
<1>2. follower.cursor \in Nat /\ follower.cursor <= Total(buf[Target])
  BY DEF StreamInv, StreamTypes, ReaderInv, Readers
<1>3. follower.cursor <= Total(buf'[Target])
  BY <1>1, <1>2
<1>4. AtRune(follower.cursor)'
  BY DEF StreamInv, ReaderInv, AtRune, Starts, Continuation
<1>5. InOrder(follower.got, follower.gap, follower.cursor)'
  BY DEF StreamInv, ReaderInv, InOrder
<1> QED
  BY <1>1, <1>3, <1>4, <1>5 DEF StreamInv, ReaderInv

\* Closing a buffer.
LEMMA ClosedIs ==
  ASSUME NEW f, Ring(f), Led(f), NEW g, g = [f EXCEPT !.closed = TRUE]
  PROVE  Ring(g) /\ Led(g) /\ Total(g) = Total(f) /\ g.closed = TRUE
<1>1. g.data = f.data /\ g.start = f.start /\ g.size = f.size /\ g.discarded = f.discarded /\ g.closed = TRUE /\ g \in Buffers
  BY RingRec DEF Ring, Buffers
<1>2. \A i \in 0..(f.size - 1) : ByteAt(g, i) = ByteAt(f, i)
  BY <1>1 DEF ByteAt, Slot
<1>3. Ring(g)
  BY <1>1, <1>2 DEF Ring
<1>4. Total(g) = Total(f)
  BY <1>1 DEF Total
<1> QED
  BY <1>1, <1>3, <1>4 DEF Led

LEMMA FlushedIs ==
  ASSUME OutputAssumption, StreamInv, NEW b \in Bufs
  PROVE  /\ Ring(Flushed(buf[b])) /\ Led(Flushed(buf[b])) /\ Flushed(buf[b]).closed = buf[b].closed
         /\ Total(Flushed(buf[b])) = printed
<1>1. Ring(buf[b]) /\ Led(buf[b]) /\ Total(buf[b]) <= printed /\ printed \in Nat /\ printed <= MaxBytes /\ text \in Texts
  BY DEF StreamInv, BufferInv, StreamTypes, OutputAssumption
<1>2. Flushed(buf[b]) = BufferWith(buf[b], Bytes(Total(buf[b]), printed))
  BY DEF Flushed
<1>3. /\ Ring(Flushed(buf[b])) /\ Led(Flushed(buf[b])) /\ Flushed(buf[b]).closed = buf[b].closed
      /\ Total(Flushed(buf[b])) = IF Total(buf[b]) < printed THEN printed ELSE Total(buf[b])
  BY <1>1, <1>2, WrittenIs
<1>4. Total(buf[b]) \in Nat
  BY <1>1, TotalIsNat
<1> QED
  BY <1>1, <1>3, <1>4

\* A step of the writers keeps the invariant when each buffer it leaves is one.
LEMMA WriterStep ==
  ASSUME OutputAssumption, StreamInv, UNCHANGED <<text, who, follower>>,
         buf' \in [Bufs -> Buffers], over' \in [Bufs -> BOOLEAN],
         printed' \in printed..MaxBytes, OutputEnded => OutputEnded' /\ printed' = printed,
         \A b \in Bufs : /\ Ring(buf'[b]) /\ Led(buf'[b]) /\ Total(buf[b]) <= Total(buf'[b])
                         /\ Total(buf'[b]) <= printed' /\ (buf'[b].closed => over'[b]),
         over'["job"] => Total(buf'["job"]) = printed',
         OutputEnded' => Total(buf'["session"]) = printed'
  PROVE  StreamInv'
<1>1. printed \in Nat /\ printed' \in Nat /\ printed <= printed' /\ printed' \in 0..MaxBytes
  BY DEF StreamInv, StreamTypes, OutputAssumption
<1>2. StreamTypes'
  BY <1>1 DEF StreamInv, StreamTypes
<1>3. \A b \in Bufs : Led(buf[b])'
  BY DEF Led, Starts, Continuation, Total
<1>4. BufferInv'
  <2>1. \A b \in Bufs : (Ring(buf[b]))' /\ (Total(buf[b]) <= printed)' /\ (buf[b].closed => over[b])'
    BY DEF Ring, Total, ByteAt, Slot
  <2> QED
    BY <1>3, <2>1 DEF BufferInv, Total
<1>5. \A b \in Bufs : Total(buf[b]) \in Nat /\ Total(buf'[b]) \in Nat
  BY TotalIsNat DEF StreamInv, BufferInv
<1>6. ReaderInv'
  BY <1>1, <1>5, ReaderKept
<1> QED
  BY <1>2, <1>4, <1>6 DEF StreamInv

LEMMA FeedStep ==
  ASSUME OutputAssumption, StreamInv, NEW n \in 1..MaxBytes, NEW released \in 0..MaxBytes, Feed(n, released)
  PROVE  StreamInv'
<1>1. /\ ~over["job"] /\ ~over["session"] /\ printed + n <= MaxBytes /\ printed' = printed + n
      /\ released \in Total(buf["job"])..printed' /\ UNCHANGED <<text, over, listed, held, who, follower>>
      /\ buf' = [b \in Bufs |-> BufferWith(buf[b], Bytes(Total(buf[b]), released))]
  BY DEF Feed
<1>2. printed \in Nat /\ printed' \in printed..MaxBytes /\ released \in Nat /\ released <= printed' /\ released <= MaxBytes
  <2>1. printed \in 0..MaxBytes /\ MaxBytes \in Nat
    BY DEF StreamInv, StreamTypes, OutputAssumption
  <2>2. Total(buf["job"]) \in Nat
    BY TotalIsNat DEF StreamInv, BufferInv, Bufs
  <2>3. printed \in Nat /\ printed' \in printed..MaxBytes
    BY <1>1, <2>1
  <2>4. released \in Nat /\ released <= printed' /\ released <= MaxBytes
    BY <1>1, <2>1, <2>2, <2>3
  <2> QED
    BY <2>3, <2>4
<1>3. ASSUME NEW b \in Bufs
      PROVE  /\ Ring(buf'[b]) /\ Led(buf'[b]) /\ Total(buf[b]) <= Total(buf'[b])
             /\ Total(buf'[b]) <= printed' /\ (buf'[b].closed => over'[b]) /\ buf'[b] \in Buffers
  <2>1. Ring(buf[b]) /\ Led(buf[b]) /\ Total(buf[b]) <= printed /\ (buf[b].closed => over[b]) /\ text \in Texts
    BY DEF StreamInv, StreamTypes, BufferInv
  <2>2. PICK g : g = BufferWith(buf[b], Bytes(Total(buf[b]), released))
    OBVIOUS
  <2>3. /\ Ring(g) /\ Led(g) /\ g.closed = buf[b].closed
        /\ Total(g) = IF Total(buf[b]) < released THEN released ELSE Total(buf[b])
    <3>1. released \in Nat /\ released <= MaxBytes
      BY <1>2
    <3>2. PICK f : f = buf[b]
      OBVIOUS
    <3>3. Ring(f) /\ Led(f) /\ text \in Texts /\ g = BufferWith(f, Bytes(Total(f), released))
      BY <2>1, <2>2, <3>2
    <3>4. /\ Ring(g) /\ Led(g) /\ g.closed = f.closed
          /\ Total(g) = IF Total(f) < released THEN released ELSE Total(f)
      BY <3>1, <3>3, WrittenIs
    <3> QED
      BY <3>2, <3>4
  <2>4. buf'[b] = g
    BY <1>1, <2>2
  <2>5. PICK t \in Nat : t = Total(buf[b])
    BY <2>1, TotalIsNat
  <2>6. Total(buf[b]) <= Total(g) /\ Total(g) <= printed'
    BY <1>1, <1>2, <2>1, <2>3, <2>5
  <2> QED
    BY <1>1, <2>1, <2>3, <2>4, <2>6 DEF Ring
<1>4. buf' \in [Bufs -> Buffers]
  BY <1>1, <1>3
<1>5. over' \in [Bufs -> BOOLEAN] /\ ~OutputEnded /\ ~OutputEnded' /\ ~over'["job"]
  BY <1>1 DEF OutputEnded, StreamInv, StreamTypes
<1> QED
  BY <1>1, <1>2, <1>3, <1>4, <1>5, WriterStep

LEMMA CompleteStep == ASSUME OutputAssumption, StreamInv, Complete PROVE StreamInv'
<1>1. /\ ~over["job"] /\ ~over["session"] /\ UNCHANGED <<text, printed, listed, held, who, follower>>
      /\ buf' = [buf EXCEPT !["session"] = Flushed(buf["session"]), !["job"] = [Flushed(buf["job"]) EXCEPT !.closed = TRUE]]
      /\ over' = [over EXCEPT !["job"] = TRUE]
  BY DEF Complete
<1>2. printed \in Nat /\ printed' = printed /\ printed' \in printed..MaxBytes
  BY <1>1 DEF StreamInv, StreamTypes, OutputAssumption
<1>3. /\ Ring(Flushed(buf["session"])) /\ Led(Flushed(buf["session"]))
      /\ Flushed(buf["session"]).closed = buf["session"].closed /\ Total(Flushed(buf["session"])) = printed
  BY FlushedIs DEF Bufs
<1>4. PICK g : g = [Flushed(buf["job"]) EXCEPT !.closed = TRUE]
  OBVIOUS
<1>5. Ring(g) /\ Led(g) /\ Total(g) = printed
  <2>1. Ring(Flushed(buf["job"])) /\ Led(Flushed(buf["job"])) /\ Total(Flushed(buf["job"])) = printed
    BY FlushedIs DEF Bufs
  <2> QED
    BY <1>4, <2>1, ClosedIs
<1>6. buf'["session"] = Flushed(buf["session"]) /\ buf'["job"] = g
  BY <1>1, <1>4 DEF StreamInv, StreamTypes, Bufs
<1>7. over'["job"] = TRUE /\ over'["session"] = over["session"] /\ over' \in [Bufs -> BOOLEAN]
  BY <1>1 DEF StreamInv, StreamTypes, Bufs
<1>8. ASSUME NEW b \in Bufs
      PROVE  /\ Ring(buf'[b]) /\ Led(buf'[b]) /\ Total(buf[b]) <= Total(buf'[b])
             /\ Total(buf'[b]) <= printed' /\ (buf'[b].closed => over'[b])
  <2>1. Total(buf[b]) <= printed /\ (buf[b].closed => over[b])
    BY DEF StreamInv, BufferInv
  <2>2. b = "job" \/ b = "session"
    BY DEF Bufs
  <2>4. CASE b = "job"
    BY <1>2, <1>5, <1>6, <1>7, <2>1, <2>4
  <2>5. CASE b = "session"
    BY <1>2, <1>3, <1>6, <1>7, <2>1, <2>5
  <2> QED
    BY <2>2, <2>4, <2>5
<1>9. buf' \in [Bufs -> Buffers]
  <2>1. PICK f : f = Flushed(buf["session"])
    OBVIOUS
  <2>2. f \in Buffers /\ g \in Buffers
    BY <1>3, <1>5, <2>1 DEF Ring
  <2>3. buf' = [buf EXCEPT !["session"] = f, !["job"] = g] /\ buf \in [Bufs -> Buffers]
    BY <1>1, <1>4, <2>1 DEF StreamInv, StreamTypes
  <2> QED
    BY <2>2, <2>3
<1>10. ~OutputEnded /\ Total(buf'["job"]) = printed' /\ Total(buf'["session"]) = printed'
  BY <1>1, <1>3, <1>5, <1>6 DEF OutputEnded
<1> QED
  BY <1>1, <1>2, <1>7, <1>8, <1>9, <1>10, WriterStep

LEMMA TerminateSessionStep == ASSUME OutputAssumption, StreamInv, TerminateSession PROVE StreamInv'
<1>1. /\ ~over["session"] /\ UNCHANGED <<text, printed, listed, held, who, follower>>
      /\ buf' = [buf EXCEPT !["session"] =
                   [(IF over["job"] THEN buf["session"] ELSE Flushed(buf["session"])) EXCEPT !.closed = TRUE]]
      /\ over' = [over EXCEPT !["session"] = TRUE]
  BY DEF TerminateSession
<1>2. printed \in Nat /\ printed' = printed /\ printed' \in printed..MaxBytes
  BY <1>1 DEF StreamInv, StreamTypes, OutputAssumption
<1>3. PICK f : f = IF over["job"] THEN buf["session"] ELSE Flushed(buf["session"])
  OBVIOUS
<1>4. Ring(f) /\ Led(f) /\ Total(f) = printed
  <2>1. CASE over["job"]
    <3>1. Total(buf["session"]) = printed
      BY <2>1 DEF StreamInv, BufferInv, OutputEnded
    <3> QED
      BY <1>3, <2>1, <3>1 DEF StreamInv, BufferInv, Bufs
  <2>2. CASE ~over["job"]
    BY <1>3, <2>2, FlushedIs DEF Bufs
  <2> QED
    BY <2>1, <2>2
<1>5. PICK g : g = [f EXCEPT !.closed = TRUE]
  OBVIOUS
<1>6. Ring(g) /\ Led(g) /\ Total(g) = printed
  BY <1>4, <1>5, ClosedIs
<1>7. buf'["session"] = g /\ buf'["job"] = buf["job"]
  BY <1>1, <1>3, <1>5 DEF StreamInv, StreamTypes, Bufs
<1>8. over'["session"] = TRUE /\ over'["job"] = over["job"] /\ over' \in [Bufs -> BOOLEAN]
  BY <1>1 DEF StreamInv, StreamTypes, Bufs
<1>9. ASSUME NEW b \in Bufs
      PROVE  /\ Ring(buf'[b]) /\ Led(buf'[b]) /\ Total(buf[b]) <= Total(buf'[b])
             /\ Total(buf'[b]) <= printed' /\ (buf'[b].closed => over'[b])
  <2>1. Ring(buf[b]) /\ Led(buf[b]) /\ Total(buf[b]) <= printed /\ (buf[b].closed => over[b])
    BY DEF StreamInv, BufferInv
  <2>2. b = "job" \/ b = "session"
    BY DEF Bufs
  <2>3. Total(buf[b]) \in Nat
    BY <2>1, TotalIsNat
  <2>4. CASE b = "job"
    BY <1>2, <1>7, <1>8, <2>3, <2>1, <2>4
  <2>5. CASE b = "session"
    BY <1>2, <1>6, <1>7, <1>8, <2>1, <2>5
  <2> QED
    BY <2>2, <2>4, <2>5
<1>10. buf' \in [Bufs -> Buffers]
  <2>1. g \in Buffers
    BY <1>6 DEF Ring
  <2>2. buf' = [buf EXCEPT !["session"] = g] /\ buf \in [Bufs -> Buffers]
    BY <1>1, <1>3, <1>5 DEF StreamInv, StreamTypes
  <2> QED
    BY <2>1, <2>2
<1>11. /\ over'["job"] => Total(buf'["job"]) = printed'
       /\ Total(buf'["session"]) = printed' /\ OutputEnded'
  BY <1>1, <1>6, <1>7, <1>8 DEF OutputEnded, StreamInv, BufferInv
<1> QED
  BY <1>1, <1>2, <1>8, <1>9, <1>10, <1>11, WriterStep

LEMMA FinalizeJobStep == ASSUME OutputAssumption, StreamInv, FinalizeJob PROVE StreamInv'
<1>1. /\ over["session"] /\ ~over["job"] /\ UNCHANGED <<text, printed, listed, held, who, follower>>
      /\ buf' = [buf EXCEPT !["job"] = [Flushed(buf["job"]) EXCEPT !.closed = TRUE]]
      /\ over' = [over EXCEPT !["job"] = TRUE]
  BY DEF FinalizeJob
<1>2. printed \in Nat /\ printed' = printed /\ printed' \in printed..MaxBytes
  BY <1>1 DEF StreamInv, StreamTypes, OutputAssumption
<1>3. PICK g : g = [Flushed(buf["job"]) EXCEPT !.closed = TRUE]
  OBVIOUS
<1>4. Ring(g) /\ Led(g) /\ Total(g) = printed
  <2>1. Ring(Flushed(buf["job"])) /\ Led(Flushed(buf["job"])) /\ Total(Flushed(buf["job"])) = printed
    BY FlushedIs DEF Bufs
  <2> QED
    BY <1>3, <2>1, ClosedIs
<1>5. buf'["job"] = g /\ buf'["session"] = buf["session"]
  BY <1>1, <1>3 DEF StreamInv, StreamTypes, Bufs
<1>6. over'["job"] = TRUE /\ over'["session"] = over["session"] /\ over' \in [Bufs -> BOOLEAN]
  BY <1>1 DEF StreamInv, StreamTypes, Bufs
<1>7. ASSUME NEW b \in Bufs
      PROVE  /\ Ring(buf'[b]) /\ Led(buf'[b]) /\ Total(buf[b]) <= Total(buf'[b])
             /\ Total(buf'[b]) <= printed' /\ (buf'[b].closed => over'[b])
  <2>1. Ring(buf[b]) /\ Led(buf[b]) /\ Total(buf[b]) <= printed /\ (buf[b].closed => over[b])
    BY DEF StreamInv, BufferInv
  <2>2. b = "job" \/ b = "session"
    BY DEF Bufs
  <2>3. Total(buf[b]) \in Nat
    BY <2>1, TotalIsNat
  <2>4. CASE b = "job"
    BY <1>2, <1>4, <1>5, <1>6, <2>1, <2>4
  <2>5. CASE b = "session"
    BY <1>2, <1>5, <1>6, <2>3, <2>1, <2>5
  <2> QED
    BY <2>2, <2>4, <2>5
<1>8. buf' \in [Bufs -> Buffers]
  <2>1. g \in Buffers
    BY <1>4 DEF Ring
  <2>2. buf' = [buf EXCEPT !["job"] = g] /\ buf \in [Bufs -> Buffers]
    BY <1>1, <1>3 DEF StreamInv, StreamTypes
  <2> QED
    BY <2>1, <2>2
<1>9. /\ Total(buf'["job"]) = printed' /\ Total(buf'["session"]) = printed' /\ OutputEnded'
  BY <1>1, <1>4, <1>5, <1>6 DEF OutputEnded, StreamInv, BufferInv
<1> QED
  BY <1>1, <1>2, <1>6, <1>7, <1>8, <1>9, WriterStep

\* A page more leaves what a reader got in order.
LEMMA OrderKept ==
  ASSUME NEW got \in Seq(Nat), NEW gap \in BOOLEAN, NEW cursor \in Nat, InOrder(got, gap, cursor),
         NEW at \in Nat, NEW n \in Nat, cursor <= at,
         NEW chunk, Piece(chunk, at, n),
         NEW hole \in BOOLEAN, gap => hole, at # cursor => hole
  PROVE  InOrder(got \o chunk, hole, at + n)
<1>c. chunk \in Seq(Nat) /\ Len(chunk) = n /\ \A k \in 1..n : chunk[k] = at + k - 1
  BY DEF Piece
<1>q. PICK all, next : all = got \o chunk /\ next = at + n
  OBVIOUS
<1>1. PICK m : m = Len(got)
  OBVIOUS
<1>2. m \in Nat
  BY <1>1
<1>a. all \in Seq(Nat) /\ Len(all) = m + n
  <2>1. got \o chunk \in Seq(Nat) /\ Len(got \o chunk) = Len(got) + Len(chunk)
    BY <1>c, ConcatProperties
  <2> QED
    BY <1>q, <1>1, <1>c, <2>1
<1>3. /\ \A k \in 1..m : all[k] = got[k] /\ all[k] \in Nat
      /\ Len(all) = m + n
  <2>1. ASSUME NEW k \in 1..m PROVE all[k] = got[k] /\ all[k] \in Nat
    BY <1>q, <1>1, <1>2, <1>c
  <2> QED
    BY <1>a, <2>1
<1>4. \A k \in 1..n : all[m + k] = at + k - 1
  <2> SUFFICES ASSUME NEW k \in 1..n PROVE all[m + k] = at + k - 1
    OBVIOUS
  <2>1. all[m + k] = chunk[k]
    BY <1>q, <1>1, <1>2, <1>c
  <2> QED
    BY <1>c, <2>1
<1>l. m > 0 => IF gap THEN cursor > all[m] ELSE cursor = all[m] + 1 /\ all[1] = 0
  <2>1. ASSUME m > 0 PROVE IF gap THEN cursor > all[m] ELSE cursor = all[m] + 1 /\ all[1] = 0
    <3>1. got # <<>> /\ m \in 1..m /\ 1 \in 1..m
      BY <1>1, <1>2, <2>1
    <3>2. all[m] = got[m] /\ all[1] = got[1]
      BY <1>3, <3>1
    <3>3. IF gap THEN cursor > got[m] ELSE cursor = got[m] + 1 /\ got[1] = 0
      BY <1>1, <3>1 DEF InOrder
    <3> QED
      BY <3>2, <3>3
  <2> QED
    BY <2>1
<1>5. ASSUME NEW k \in 1..(Len(all) - 1)
      PROVE  IF hole THEN all[k] < all[k + 1] ELSE all[k] + 1 = all[k + 1]
  <2>1. k \in Nat /\ k >= 1 /\ k <= m + n - 1
    BY <1>2, <1>3
  <2>2. CASE k < m
    <3>1. k \in 1..(Len(got) - 1) /\ k \in 1..m /\ k + 1 \in 1..m
      BY <1>1, <1>2, <2>1, <2>2
    <3>2. IF gap THEN got[k] < got[k + 1] ELSE got[k] + 1 = got[k + 1]
      BY <3>1 DEF InOrder
    <3>3. PICK x, y \in Nat : x = all[k] /\ y = all[k + 1]
      BY <1>3, <3>1
    <3>4. IF gap THEN x < y ELSE x + 1 = y
      BY <1>3, <3>1, <3>2, <3>3
    <3> QED
      BY <3>3, <3>4
  <2>3. CASE k = m
    <3>1. 1 \in 1..n /\ m > 0
      BY <1>2, <2>1, <2>3
    <3>2. all[m + 1] = at
      <4>1. all[m + 1] = at + 1 - 1
        BY <1>4, <3>1
      <4> QED
        BY <4>1
    <3>3. PICK x \in Nat : x = all[m]
      BY <1>3, <2>1, <2>3
    <3>4. IF gap THEN cursor > x ELSE cursor = x + 1
      BY <1>l, <3>1, <3>3
    <3>5. IF hole THEN x < at ELSE x + 1 = at
      BY <1>2, <3>4
    <3> QED
      BY <2>3, <3>2, <3>3, <3>5
  <2>4. CASE k > m
    <3>1. PICK j \in 1..n : j = k - m /\ j + 1 \in 1..n
      <4>1. k - m \in 1..n /\ k - m + 1 \in 1..n
        BY <1>2, <2>1, <2>4
      <4> QED
        BY <4>1
    <3>2. all[m + j] = at + j - 1 /\ all[m + (j + 1)] = at + (j + 1) - 1
      BY <1>4, <3>1
    <3>3. m + j = k /\ m + (j + 1) = k + 1
      BY <1>2, <2>1, <3>1
    <3>4. all[k] = at + j - 1 /\ all[k + 1] = at + j
      BY <3>2, <3>3
    <3> QED
      BY <3>4
  <2> QED
    BY <1>2, <2>1, <2>2, <2>3, <2>4
<1>6. ASSUME n = 0 PROVE InOrder(all, hole, next)
  <2>1. next = at /\ Len(all) = m
    BY <1>q, <1>2, <1>3, <1>6
  <2>2. CASE m = 0
    <3>1. all = <<>> /\ got = <<>>
      <4>1. Len(all) = 0 /\ Len(got) = 0
        BY <1>1, <1>a, <1>6, <2>2
      <4> QED
        BY <1>a, <4>1, EmptySeq
    <3>2. ~hole => next = 0
      BY <1>2, <2>1, <3>1 DEF InOrder
    <3> QED
      BY <1>5, <3>1, <3>2 DEF InOrder
  <2>3. CASE m # 0
    <3>1. all # <<>>
      BY <1>2, <1>a, <2>1, <2>3
    <3>2. PICK x \in Nat : x = all[m]
      BY <1>2, <1>3, <2>3
    <3>3. IF gap THEN cursor > x ELSE cursor = x + 1 /\ all[1] = 0
      BY <1>2, <1>l, <2>3, <3>2
    <3>x. next = at
      BY <2>1
    <3>4. IF hole THEN at > x ELSE at = x + 1 /\ all[1] = 0
      BY <1>2, <3>3
    <3>5. IF hole THEN next > all[Len(all)] ELSE next = all[Len(all)] + 1 /\ all[1] = 0
      BY <2>1, <3>2, <3>4
    <3> QED
      BY <1>5, <3>1, <3>5 DEF InOrder
  <2> QED
    BY <2>2, <2>3
<1>7. ASSUME n # 0 PROVE InOrder(all, hole, next)
  <2>1. all # <<>> /\ n \in 1..n /\ 1 \in 1..n
    BY <1>2, <1>a, <1>7
  <2>2. all[m + n] = at + n - 1
    BY <1>4, <2>1
  <2>3. next = all[Len(all)] + 1 /\ next > all[Len(all)]
    BY <1>q, <1>3, <2>2
  <2>4. ASSUME ~hole PROVE all[1] = 0
    <3>1. ~gap /\ at = cursor
      BY <2>4
    <3>2. CASE m = 0
      <4>1. got = <<>>
        <5>1. Len(got) = 0
          BY <1>1, <3>2
        <5> QED
          BY <5>1, EmptySeq
      <4>2. at = 0
        BY <3>1, <4>1 DEF InOrder
      <4>3. all[m + 1] = at + 1 - 1
        BY <1>4, <2>1
      <4> QED
        BY <3>2, <4>2, <4>3
    <3>3. CASE m # 0
      BY <1>2, <1>l, <3>1, <3>3
    <3> QED
      BY <3>2, <3>3
  <2>5. IF hole THEN next > all[Len(all)] ELSE next = all[Len(all)] + 1 /\ all[1] = 0
    BY <2>3, <2>4
  <2> QED
    BY <1>5, <2>1, <2>5 DEF InOrder
<1>8. InOrder(all, hole, next)
  BY <1>6, <1>7
<1> QED
  BY <1>q, <1>8

\* One page more, from the buffer the reader follows.
LEMMA ReadStep ==
  ASSUME OutputAssumption, StreamInv, NEW b \in Bufs, b = Target, NEW ended \in BOOLEAN, ended => over[b],
         Read(b, ended)
  PROVE  StreamInv'
<1>1. PICK page, f : page = ReadPage(b, follower.cursor) /\ f = Aligned(buf[b], follower.cursor)
  OBVIOUS
<1>2. /\ follower' = [Advanced(follower, page, ended) EXCEPT !.pc = "idle"]
      /\ buf' = [buf EXCEPT ![b] = f]
      /\ text' = text /\ printed' = printed /\ over' = over /\ who' = who
  BY <1>1 DEF Read
<1>3. /\ text \in Texts /\ printed \in 0..MaxBytes /\ over \in [Bufs -> BOOLEAN] /\ MaxBytes \in Nat /\ printed \in Nat
      /\ buf \in [Bufs -> Buffers] /\ follower \in Readers
  BY DEF StreamInv, StreamTypes, OutputAssumption
<1>4. /\ Ring(buf[b]) /\ Led(buf[b]) /\ Total(buf[b]) <= printed /\ (buf[b].closed => over[b])
      /\ over[b] => Total(buf[b]) = printed /\ OutputEnded
  <2>1. Ring(buf[b]) /\ Led(buf[b]) /\ Total(buf[b]) <= printed /\ (buf[b].closed => over[b])
    BY DEF StreamInv, BufferInv
  <2>2. over[b] => Total(buf[b]) = printed /\ OutputEnded
    BY DEF StreamInv, BufferInv, OutputEnded, Bufs
  <2> QED
    BY <2>1, <2>2
<1>5. PICK cursor, t \in Nat : cursor = follower.cursor /\ t = Total(buf[b])
  BY <1>3, <1>4, TotalIsNat DEF Readers
<1>6. /\ cursor <= t /\ t <= printed /\ t <= MaxBytes /\ AtRune(cursor) /\ InOrder(follower.got, follower.gap, cursor)
      /\ cursor < t => Starts(cursor)
  <2>1. cursor <= t /\ AtRune(cursor) /\ InOrder(follower.got, follower.gap, cursor)
    BY <1>5 DEF StreamInv, ReaderInv
  <2>2. t <= printed /\ t <= MaxBytes
    BY <1>3, <1>4, <1>5
  <2>3. ASSUME cursor < t PROVE Starts(cursor)
    <3>1. cursor < MaxBytes /\ cursor # printed
      BY <1>3, <2>2, <2>3
    <3> QED
      BY <2>1, <3>1 DEF AtRune
  <2> QED
    BY <2>1, <2>2, <2>3
<1>7. page = Page(Aligned(buf[b], cursor), cursor)
  BY <1>1, <1>5 DEF ReadPage
<1>8. PICK at \in Nat, n \in Nat : Tells(page, buf[b], cursor, at, n)
  <2>1. Total(buf[b]) <= MaxBytes /\ cursor <= Total(buf[b]) /\ (cursor < Total(buf[b]) => Starts(cursor))
    BY <1>5, <1>6
  <2> QED
    BY <1>3, <1>4, <1>7, <2>1, PageIs
<1>p. /\ Piece(page.chunk, at, n) /\ page.chunk \in Seq(Nat)
      /\ page.next = at + n /\ cursor <= at /\ at + n <= t
      /\ page.gap \in BOOLEAN /\ (at # cursor => page.gap)
      /\ page.more \in BOOLEAN /\ (~page.more => at + n = t)
      /\ \/ at + n < MaxBytes => Starts(at + n)
         \/ at + n = t /\ (buf[b].closed \/ at + n = cursor)
  BY <1>5, <1>8 DEF Tells, Piece
<1>9. /\ follower'.cursor = at + n /\ follower'.got = follower.got \o page.chunk
      /\ follower'.gap = (follower.gap \/ page.gap) /\ follower'.done = (ended /\ ~page.more)
      /\ follower'.pc = "idle"
  <2>1. follower = [cursor |-> follower.cursor, got |-> follower.got, gap |-> follower.gap, done |-> follower.done, pc |-> follower.pc]
    BY <1>3 DEF Readers
  <2>2. follower' = [cursor |-> page.next, got |-> follower.got \o page.chunk, gap |-> follower.gap \/ page.gap,
                     done |-> ended /\ ~page.more, pc |-> "idle"]
    BY <1>2, <2>1 DEF Advanced
  <2> QED
    BY <1>p, <2>2
<1>10. Ring(f) /\ Led(f) /\ Total(f) = t /\ f.closed = buf[b].closed
  BY <1>1, <1>3, <1>4, <1>5, AlignedIs
<1>11. /\ buf' \in [Bufs -> Buffers] /\ buf'[b] = f /\ \A c \in Bufs : c # b => buf'[c] = buf[c]
  BY <1>2, <1>3, <1>10 DEF Ring
<1>12. \A c \in Bufs : /\ Ring(buf'[c]) /\ Led(buf'[c]) /\ Total(buf'[c]) = Total(buf[c])
                       /\ buf'[c].closed = buf[c].closed
  <2> SUFFICES ASSUME NEW c \in Bufs
               PROVE  /\ Ring(buf'[c]) /\ Led(buf'[c]) /\ Total(buf'[c]) = Total(buf[c])
                      /\ buf'[c].closed = buf[c].closed
    OBVIOUS
  <2>1. CASE c = b
    BY <1>5, <1>10, <1>11, <2>1
  <2>2. CASE c # b
    BY <1>11, <2>2 DEF StreamInv, BufferInv
  <2> QED
    BY <2>1, <2>2
<1>13. follower' \in Readers
  <2>1. follower = [cursor |-> follower.cursor, got |-> follower.got, gap |-> follower.gap, done |-> follower.done, pc |-> follower.pc]
        /\ follower.got \in Seq(Nat) /\ follower.gap \in BOOLEAN
    BY <1>3 DEF Readers
  <2>2. follower' = [cursor |-> page.next, got |-> follower.got \o page.chunk, gap |-> follower.gap \/ page.gap,
                     done |-> ended /\ ~page.more, pc |-> "idle"]
    BY <1>2, <2>1 DEF Advanced
  <2>3. page.next \in Nat /\ follower.got \o page.chunk \in Seq(Nat)
    BY <1>p, <2>1
  <2> QED
    BY <2>2, <2>3 DEF Readers
<1>14. StreamTypes'
  BY <1>2, <1>11, <1>13 DEF StreamInv, StreamTypes
<1>15. BufferInv'
  <2>1. \A c \in Bufs : Led(buf[c])'
    BY <1>2, <1>12 DEF Led, Starts, Continuation, Total
  <2>2. \A c \in Bufs : (Ring(buf[c]))' /\ (Total(buf[c]) <= printed)' /\ (buf[c].closed => over[c])'
    <3>1. \A c \in Bufs : Total(buf[c]) <= printed /\ (buf[c].closed => over[c])
      BY DEF StreamInv, BufferInv
    <3> QED
      BY <1>2, <1>12, <3>1 DEF Ring, Total, ByteAt, Slot
  <2>3. Total(buf'["job"]) = Total(buf["job"]) /\ Total(buf'["session"]) = Total(buf["session"])
    BY <1>12 DEF Bufs
  <2>4. /\ over'["job"] => Total(buf'["job"]) = printed'
        /\ OutputEnded' => Total(buf'["session"]) = printed'
    BY <1>2, <2>3 DEF StreamInv, BufferInv, OutputEnded
  <2> QED
    BY <2>1, <2>2, <2>4 DEF BufferInv, Total
<1>16. Target' = b
  BY <1>2 DEF Target
<1>17. AtRune(at + n) /\ (follower'.done => OutputEnded /\ at + n = printed)
  <2>1. ASSUME at + n < MaxBytes => Starts(at + n) PROVE AtRune(at + n)
    BY <2>1 DEF AtRune
  <2>2. ASSUME at + n = t, buf[b].closed PROVE AtRune(at + n)
    <3>1. OutputEnded /\ at + n = printed
      BY <1>4, <1>5, <2>2
    <3> QED
      BY <3>1 DEF AtRune
  <2>3. ASSUME at + n = t, at + n = cursor PROVE AtRune(at + n)
    BY <1>6, <2>3
  <2>4. AtRune(at + n)
    BY <1>5, <1>p, <2>1, <2>2, <2>3
  <2>5. ASSUME follower'.done PROVE OutputEnded /\ at + n = printed
    <3>1. ended /\ ~page.more
      BY <1>9, <2>5
    <3> QED
      BY <1>4, <1>5, <1>p, <3>1
  <2> QED
    BY <2>4, <2>5
<1>18. InOrder(follower'.got, follower'.gap, follower'.cursor)
  <2>1. follower.got \in Seq(Nat) /\ follower.gap \in BOOLEAN /\ (follower.gap \/ page.gap) \in BOOLEAN
    BY <1>3 DEF Readers
  <2>2. PICK hole \in BOOLEAN : hole = (follower.gap \/ page.gap)
    BY <2>1
  <2>3. (follower.gap => hole) /\ (at # cursor => hole)
    BY <1>p, <2>2
  <2>4. InOrder(follower.got \o page.chunk, hole, at + n)
    <3>1. PICK got \in Seq(Nat), gap \in BOOLEAN : got = follower.got /\ gap = follower.gap
      BY <2>1
    <3>2. PICK chunk : chunk = page.chunk
      OBVIOUS
    <3>3. InOrder(got, gap, cursor) /\ (gap => hole) /\ Piece(chunk, at, n) /\ cursor <= at
      BY <1>6, <1>p, <2>3, <3>1, <3>2
    <3>4. InOrder(got \o chunk, hole, at + n)
      BY <2>3, <3>3, OrderKept
    <3> QED
      BY <3>1, <3>2, <3>4
  <2> QED
    BY <1>9, <2>2, <2>4
<1>19. ReaderInv'
  <2>1. (follower.cursor <= Total(buf[Target]))'
    <3>1. at + n <= Total(buf'[b])
      BY <1>5, <1>p, <1>12
    <3> QED
      BY <1>9, <1>16, <3>1 DEF Total
  <2>2. (AtRune(follower.cursor))'
    BY <1>2, <1>9, <1>17 DEF AtRune, Starts, Continuation, OutputEnded
  <2>3. (follower.done => OutputEnded /\ follower.cursor = printed)'
    BY <1>2, <1>9, <1>17 DEF OutputEnded
  <2>4. InOrder(follower.got, follower.gap, follower.cursor)'
    BY <1>18 DEF InOrder
  <2> QED
    BY <1>9, <2>1, <2>2, <2>3, <2>4 DEF ReaderInv
<1> QED
  BY <1>14, <1>15, <1>19 DEF StreamInv

\* What changes neither the output nor what the reader knows of it.
LEMMA StillStep ==
  ASSUME StreamInv, UNCHANGED <<text, printed, buf, over, who>>, follower' \in Readers,
         follower'.cursor = follower.cursor, follower'.got = follower.got, follower'.gap = follower.gap,
         follower'.done = follower.done, follower'.pc = "reading" => who = "agent"
  PROVE  StreamInv'
<1>1. StreamTypes'
  BY DEF StreamInv, StreamTypes
<1>2. \A b \in Bufs : Led(buf[b])'
  BY DEF StreamInv, BufferInv, Led, Starts, Continuation, Total
<1>3. BufferInv'
  BY <1>2 DEF StreamInv, BufferInv, Ring, Total, ByteAt, Slot, OutputEnded
<1>4. AtRune(follower.cursor)'
  BY DEF StreamInv, ReaderInv, AtRune, Starts, Continuation, OutputEnded
<1>5. InOrder(follower.got, follower.gap, follower.cursor)'
  BY DEF StreamInv, ReaderInv, InOrder
<1>6. ReaderInv'
  BY <1>4, <1>5 DEF StreamInv, ReaderInv, Target, Total, OutputEnded
<1> QED
  BY <1>1, <1>3, <1>6 DEF StreamInv

LEMMA StreamNext == ASSUME OutputAssumption, StreamInv, [OutputNext]_outVars PROVE StreamInv'
<1>t. follower \in Readers /\ over["job"] \in BOOLEAN /\ over["session"] \in BOOLEAN
  BY DEF StreamInv, StreamTypes, Bufs
<1>1. CASE \E n \in 1..MaxBytes, released \in 0..MaxBytes : Feed(n, released)
  BY <1>1, FeedStep
<1>2. CASE Complete
  BY <1>2, CompleteStep
<1>3. CASE TerminateSession
  BY <1>3, TerminateSessionStep
<1>4. CASE FinalizeJob
  BY <1>4, FinalizeJobStep
<1>5. CASE (\E on \in BOOLEAN : Hold(on)) \/ Forget \/ UNCHANGED outVars
  <2>1. UNCHANGED <<text, printed, buf, over, who, follower>>
    BY <1>5 DEF Hold, Forget, outVars
  <2>2. follower.pc = "reading" => who = "agent"
    BY DEF StreamInv, ReaderInv
  <2> QED
    BY <1>t, <2>1, <2>2, StillStep
<1>6. CASE StreamJob
  <2>1. Read("job", over["job"]) /\ Target = "job"
    BY <1>6 DEF StreamJob, Target
  <2> QED
    BY <1>t, <2>1, ReadStep DEF Bufs
<1>7. CASE StreamSession
  <2>1. Read("session", over["session"]) /\ Target = "session"
    BY <1>7 DEF StreamSession, Target
  <2> QED
    BY <1>t, <2>1, ReadStep DEF Bufs
<1>p. CASE AgentLooks
  <2>1. PICK pc \in {"idle", "reading", "lost"} : follower' = [follower EXCEPT !.pc = pc]
    BY <1>p DEF AgentLooks
  <2>2. who = "agent" /\ UNCHANGED <<text, printed, buf, over, who>>
    BY <1>p DEF AgentLooks
  <2>3. /\ follower' \in Readers /\ follower'.cursor = follower.cursor /\ follower'.got = follower.got
        /\ follower'.gap = follower.gap /\ follower'.done = follower.done
    BY <1>t, <2>1 DEF Readers
  <2> QED
    BY <2>2, <2>3, StillStep
<1>9. CASE AgentReads \/ AgentTails
  <2>1. PICK ended \in BOOLEAN : Read("job", ended) /\ (ended => over["job"])
    BY <1>9, <1>t DEF AgentReads, AgentTails
  <2>2. Target = "job"
    BY <1>9 DEF AgentReads, AgentTails, StreamInv, ReaderInv, Target
  <2> QED
    BY <2>1, <2>2, ReadStep DEF Bufs
<1> QED
  BY <1>1, <1>2, <1>3, <1>4, <1>5, <1>6, <1>7, <1>p, <1>9 DEF OutputNext

LEMMA StreamLossless == ASSUME OutputAssumption PROVE StreamInv => StreamIsLossless
<1> SUFFICES ASSUME StreamInv PROVE StreamIsLossless
  OBVIOUS
<1>1. follower \in Readers /\ printed \in 0..MaxBytes /\ MaxBytes \in Nat
  BY DEF StreamInv, StreamTypes, OutputAssumption
<1>2. AtRune(follower.cursor) /\ InOrder(follower.got, follower.gap, follower.cursor)
      /\ (follower.done => follower.cursor = printed)
  BY DEF StreamInv, ReaderInv
<1>3. follower.cursor < printed => ~Continuation(follower.cursor)
  BY <1>1, <1>2 DEF AtRune, Starts, Readers
<1>4. Last(follower.got) = follower.got[Len(follower.got)]
  BY DEF Last
<1> QED
  BY <1>2, <1>3, <1>4 DEF StreamIsLossless, InOrder

\* Nobody is shown a byte of a command's output twice, out of order, or behind
\* a hole no page reported; no page ends inside a rune; and a reader told that
\* the output is over has it to its last byte.
THEOREM StreamsAreLossless == ASSUME OutputAssumption PROVE OutputSpec => []StreamIsLossless
<1>1. OutputInit => StreamInv
  BY StreamInit
<1>2. StreamInv /\ [OutputNext]_outVars => StreamInv'
  BY StreamNext
<1> QED
  BY <1>1, <1>2, StreamLossless, PTL DEF OutputSpec

=============================================================================
