-------------------------- MODULE ConfigStoreProofs --------------------------
(***************************************************************************)
(* Proofs about ConfigStore: whatever the processes, the keys, the faults  *)
(* and the platform, a process never holds a torn session.                 *)
(***************************************************************************)
EXTENDS ConfigStore, TLAPS

\* StoreInv without the ages, which are taken care of separately.
Whole == TypeOK /\ WholeSession /\ WholeStore

\* Dating a file without createdAt changes nothing else (normalize_legacy_config).
LEMMA NormalizedFact ==
    ASSUME TypeOK, NEW config \in Config
    PROVE  /\ Normalized(config) \in Config
           /\ Normalized(config).user = config.user /\ Normalized(config).key = config.key
           /\ Normalized(config).source = config.source
           /\ Normalized(config).format = config.format
           /\ Normalized(config).created = IF config.format = "undated" THEN now ELSE config.created
           /\ config.format # "undated" => Normalized(config) = config
           /\ WholeConfig(config) => WholeConfig(Normalized(config))
  <1>1. /\ Normalized(config) \in Config
        /\ Normalized(config).user = config.user /\ Normalized(config).key = config.key
        /\ Normalized(config).source = config.source
        /\ Normalized(config).format = config.format
        /\ Normalized(config).created = IF config.format = "undated" THEN now ELSE config.created
        /\ config.format # "undated" => Normalized(config) = config
    BY DEF TypeOK, Normalized, Config
  <1>2. WholeConfig(config) => WholeConfig(Normalized(config))
    BY <1>1 DEF WholeConfig, NoFile
  <1> QED
    BY <1>1, <1>2

\* The pairs of the store, of what was read and of what is held are whole at
\* the start (Init).
LEMMA InitWhole == Init => Whole
  <1> USE StoreAssumption
  <1> SUFFICES ASSUME Init PROVE Whole
    OBVIOUS
  <1>1. TypeOK
    BY DEF Init, TypeOK, NoFile, NoSession, Config, Session, User, Source, Format, Op, Step
  <1>2. WholeSession
    BY DEF Init, WholeSession
  <1>3. WholeStore
    BY DEF Init, WholeStore, WholeConfig, InKeychain, NoFile, NoSession
  <1> QED
    BY <1>1, <1>2, <1>3 DEF Whole

\* What Hold leaves in the session of p, and nothing else (update_with_values).
LEMMA HoldFact ==
    ASSUME TypeOK, NEW p \in Process, NEW user \in User, NEW key \in User, Hold(p, user, key)
    PROVE  /\ session' \in [Process -> Session]
           /\ \A q \in Process : q # p => session'[q] = session[q]
           /\ session'[p] = NoSession \/ (user # None /\ key # None /\
                                           session'[p].user = user /\ session'[p].key = key)
  BY DEF TypeOK, Hold, NoSession, Session, User

\* Reading keeps the invariant: the pair held comes from one file, or from the
\* keychain item of the user that was read (read_config).
LEMMA ReadWhole ==
    ASSUME Whole, NEW p \in Process,
           ReadFile(p) \/ ReadUser(p) \/ LookUpKey(p) \/ ReadStale(p)
    PROVE  Whole'
  <1> USE StoreAssumption
  <1>0. TypeOK /\ WholeSession /\ WholeStore
    BY DEF Whole
  <1>a. NoFile \in Config /\ WholeConfig(NoFile)
    BY DEF NoFile, Config, User, Source, Format, WholeConfig
  <1>1. CASE ReadFile(p)
    <2>1. file.user \in User /\ file.key \in User
      BY <1>0 DEF TypeOK, Config
    <2>2. TypeOK'
      BY <1>0, <1>1, <1>a, <2>1, HoldFact
      DEF TypeOK, ReadFile, Finish, Leave, Begin, storeVars, authVars, Op, Step
    <2>3. WholeSession'
      BY <1>0, <1>1, <2>1, HoldFact
      DEF ReadFile, WholeSession, WholeStore, WholeConfig, storeVars, authVars
    <2>4. WholeStore'
      BY <1>0, <1>1, <1>a, <2>1, HoldFact
      DEF TypeOK, ReadFile, Finish, Leave, Begin, WholeStore, WholeConfig, InKeychain,
          storeVars, authVars
    <2> QED
      BY <2>2, <2>3, <2>4 DEF Whole
  <1>2. CASE ReadUser(p)
    <2>1. TypeOK' /\ WholeSession'
      BY <1>0, <1>2 DEF TypeOK, WholeSession, ReadUser, Begin, storeVars, authVars, Op, Step
    <2>2. WholeStore'
      BY <1>0, <1>2
      DEF TypeOK, ReadUser, Begin, WholeStore, WholeConfig, InKeychain, storeVars, authVars
    <2> QED
      BY <2>1, <2>2 DEF Whole
  <1>3. CASE LookUpKey(p)
    <2>0. seen[p].user \in Key
      BY <1>0, <1>3 DEF TypeOK, LookUpKey, WholeStore, InKeychain, Config, User
    <2>1. PICK key \in User :
            /\ Hold(p, seen[p].user, key)
            /\ key # None => key = keychain[seen[p].user]
      BY <1>0, <1>3, <2>0 DEF TypeOK, LookUpKey, Hold, User
    <2>2. TypeOK'
      BY <1>0, <1>3, <1>a, <2>0, <2>1, HoldFact
      DEF TypeOK, LookUpKey, Finish, Leave, Begin, storeVars, authVars, Op, Step, User
    <2>3. WholeSession'
      BY <1>0, <1>3, <2>0, <2>1, HoldFact
      DEF LookUpKey, WholeSession, WholeStore, storeVars, authVars, User
    <2>4. WholeStore'
      BY <1>0, <1>3, <1>a, <2>0, <2>1, HoldFact
      DEF TypeOK, LookUpKey, Finish, Leave, Begin, WholeStore, WholeConfig, InKeychain,
          storeVars, authVars, User
    <2> QED
      BY <2>2, <2>3, <2>4 DEF Whole
  <1>4. CASE ReadStale(p)
    <2>1. Hold(p, None, None) /\ None \in User
      BY <1>4 DEF ReadStale, User
    <2>2. TypeOK'
      BY <1>0, <1>4, <2>1, HoldFact DEF TypeOK, ReadStale, Begin, storeVars, authVars, Op, Step
    <2>3. WholeSession'
      BY <1>0, <1>4, <2>1, HoldFact DEF ReadStale, WholeSession, storeVars, authVars
    <2>4. WholeStore'
      BY <1>0, <1>4, <2>1, HoldFact
      DEF TypeOK, ReadStale, Begin, WholeStore, WholeConfig, InKeychain, storeVars, authVars
    <2> QED
      BY <2>2, <2>3, <2>4 DEF Whole
  <1> QED
    BY <1>1, <1>2, <1>3, <1>4

\* Clearing keeps it: what disappears from the store tears nothing.
LEMMA ClearWhole ==
    ASSUME Whole, NEW p \in Process,
           LogOut(p) \/ ClearRead(p) \/ ClearKey(p) \/ RemoveFile(p)
    PROVE  Whole'
  <1> USE StoreAssumption
  <1>0. TypeOK /\ WholeSession /\ WholeStore
    BY DEF Whole
  <1>a. NoFile \in Config /\ WholeConfig(NoFile) /\ None \in User
    BY DEF NoFile, Config, User, Source, Format, WholeConfig
  <1>1. CASE LogOut(p)
    <2>1. TypeOK' /\ WholeSession'
      BY <1>0, <1>1
      DEF TypeOK, WholeSession, LogOut, Begin, storeVars, authVars, Op, Step
    <2>2. WholeStore'
      BY <1>0, <1>1
      DEF TypeOK, LogOut, Begin, WholeStore, WholeConfig, InKeychain, storeVars, authVars
    <2> QED
      BY <2>1, <2>2 DEF Whole
  <1>2. CASE ClearRead(p)
    <2>1. TypeOK' /\ WholeSession'
      BY <1>0, <1>2
      DEF TypeOK, WholeSession, ClearRead, Goto, storeVars, authVars, Op, Step
    <2>2. WholeStore'
      BY <1>0, <1>2
      DEF TypeOK, ClearRead, Goto, WholeStore, WholeConfig, InKeychain, storeVars, authVars
    <2> QED
      BY <2>1, <2>2 DEF Whole
  <1>3. CASE ClearKey(p)
    <2>1. /\ keychain' \in [Key -> User]
          /\ \A u \in Key : keychain'[u] = keychain[u] \/ keychain'[u] = None
      BY <1>0, <1>3 DEF TypeOK, ClearKey, DeleteKey, InKeychain, WholeStore, WholeConfig, Config, User
    <2>2. TypeOK' /\ WholeSession'
      BY <1>0, <1>3, <2>1 DEF TypeOK, WholeSession, ClearKey, Goto, authVars, Op, Step
    <2>3. WholeStore'
      BY <1>0, <1>3, <2>1
      DEF TypeOK, ClearKey, Goto, WholeStore, WholeConfig, InKeychain, authVars
    <2> QED
      BY <2>2, <2>3 DEF Whole
  <1>4. CASE RemoveFile(p)
    <2>1. Hold(p, None, None)
      BY <1>4 DEF RemoveFile
    <2>2. TypeOK'
      BY <1>0, <1>4, <1>a, <2>1, HoldFact
      DEF TypeOK, RemoveFile, Finish, Leave, Begin, authVars, Op, Step
    <2>3. WholeSession'
      BY <1>0, <1>4, <1>a, <2>1, HoldFact DEF RemoveFile, WholeSession, authVars
    <2>4. WholeStore'
      BY <1>0, <1>4, <1>a, <2>1, HoldFact
      DEF TypeOK, RemoveFile, Finish, Leave, Begin, WholeStore, WholeConfig, InKeychain, authVars
    <2> QED
      BY <2>2, <2>3, <2>4 DEF Whole
  <1> QED
    BY <1>1, <1>2, <1>3, <1>4

\* What write_config renames over the file is whole, and of the right type.
LEMMA NewFileFact ==
    ASSUME Whole, NEW p \in Process, step[p] = "renaming",
           \/ op[p] = "auth" /\ file' = AuthFile(p)
           \/ op[p] = "metadata" /\ file' = MetadataFile(p)
           \/ op[p] = "start" /\ file' = StartFile
    PROVE  file' \in Config /\ WholeConfig(file')
  <1> USE StoreAssumption
  <1>0. TypeOK /\ WholeSession /\ WholeStore
    BY DEF Whole
  <1>1. seen[p] \in Config /\ session[p] \in Session /\ now \in 0..MaxTime
    BY <1>0 DEF TypeOK
  <1>2. CASE op[p] = "auth" /\ file' = AuthFile(p)
    <2>1. owner[session[p].key] = session[p].user /\ session[p].user # None
      BY <1>0, <1>2 DEF WholeStore, WholeSession
    <2>2. file' \in Config
      BY <1>1, <1>2 DEF AuthFile, Config, Session, User, Source, Format
    <2>3. /\ file'.user = session[p].user
          /\ file'.key = IF KeychainSupported THEN None ELSE session[p].key
          /\ file'.source = IF KeychainSupported THEN "keychain" ELSE "file"
        /\ file'.format = "v1"
      BY <1>2 DEF AuthFile
    <2> QED
      BY <2>1, <2>2, <2>3 DEF WholeConfig
  <1>3. CASE op[p] = "metadata" /\ file' = MetadataFile(p)
    <2>1. WholeConfig(seen[p])
      BY <1>0 DEF WholeStore
    <2>2. /\ file'.user = seen[p].user /\ file'.key = seen[p].key
          /\ file'.source = IF seen[p].source = "none" THEN "file" ELSE seen[p].source
          /\ file'.format = "v1" /\ file' \in Config
      BY <1>1, <1>3 DEF MetadataFile, Config, Source, Format
    <2> QED
      BY <1>1, <2>1, <2>2 DEF WholeConfig, NoFile, Config, Source
  <1>4. CASE op[p] = "start" /\ file' = StartFile
    BY <1>1, <1>4 DEF StartFile, Config, User, Source, Format, WholeConfig, NoFile
  <1> QED
    BY <1>2, <1>3, <1>4

\* Writing keeps it: the keychain item is written under the user the session
\* has, and the file is composed of one read (write_config, verify_challenge).
LEMMA WriteWhole ==
    ASSUME Whole, NEW p \in Process,
           \/ \E k \in Key : Authenticate(p, k)
           \/ \E o \in {"metadata", "start"} : WriteMetadata(p, o)
           \/ StoreKey(p) \/ RenameFile(p) \/ WriteFails(p)
    PROVE  Whole'
  <1> USE StoreAssumption
  <1>0. TypeOK /\ WholeSession /\ WholeStore
    BY DEF Whole
  <1>a. NoFile \in Config /\ WholeConfig(NoFile) /\ None \in User
    BY DEF NoFile, Config, User, Source, Format, WholeConfig
  <1>b. Normalized(file) \in Config /\ WholeConfig(Normalized(file))
    BY <1>0, NormalizedFact DEF TypeOK, WholeStore
  <1>1. ASSUME NEW k \in Key, Authenticate(p, k) PROVE Whole'
    <2>1. PICK user \in Key :
            /\ session' = [session EXCEPT ![p] = [user |-> user, key |-> k]]
            /\ owner' = [owner EXCEPT ![k] = user]
      BY <1>0, <1>1 DEF Authenticate, TypeOK, WholeSession, Session, User, NoSession
    <2>2. TypeOK'
      BY <1>0, <1>b, <1>1, <2>1
      DEF TypeOK, Authenticate, Begin, storeVars, Op, Step, Session, User
    <2>3. owner[k] = None /\ None \notin Key
      BY <1>1 DEF Authenticate
    <2>4. WholeSession'
      BY <1>0, <2>1, <2>3 DEF TypeOK, WholeSession, Session, User, NoSession
    <2>5. WholeStore'
      BY <1>0, <1>b, <1>1, <2>1, <2>3
      DEF TypeOK, Authenticate, Begin, WholeStore, WholeConfig, InKeychain, storeVars,
          Config, Session, User, NoSession
    <2> QED
      BY <2>2, <2>4, <2>5 DEF Whole
  <1>2. ASSUME NEW o \in {"metadata", "start"}, WriteMetadata(p, o) PROVE Whole'
    <2>1. TypeOK' /\ WholeSession'
      BY <1>0, <1>b, <1>2
      DEF TypeOK, WholeSession, WriteMetadata, Begin, storeVars, authVars, Op, Step
    <2>2. WholeStore'
      BY <1>0, <1>b, <1>2
      DEF TypeOK, WriteMetadata, Begin, WholeStore, WholeConfig, InKeychain, storeVars,
          authVars
    <2> QED
      BY <2>1, <2>2 DEF Whole
  <1>3. CASE StoreKey(p)
    <2>1. op[p] = "auth" => /\ session[p].user \in Key /\ session[p].key \in Key
                            /\ owner[session[p].key] = session[p].user
      BY <1>0 DEF TypeOK, WholeSession, WholeStore, Session, User, NoSession
    <2>2. /\ keychain' \in [Key -> User]
          /\ \A u \in Key : keychain'[u] # None => owner[keychain'[u]] = u
      <3>1. keychain \in [Key -> User] /\ \A u \in Key : keychain[u] # None => owner[keychain[u]] = u
        BY <1>0 DEF TypeOK, WholeStore
      <3>2. InKeychain(seen[p]) => seen[p].user \in Key
        BY <1>0 DEF TypeOK, InKeychain, Config, User
      <3>3. CASE op[p] = "auth"
        BY <1>3, <2>1, <3>1, <3>3 DEF StoreKey, User
      <3>4. CASE op[p] # "auth"
        BY <1>3, <3>1, <3>2, <3>4 DEF StoreKey, DeleteKey, User
      <3> QED
        BY <3>3, <3>4
    <2>3. TypeOK' /\ WholeSession'
      BY <1>0, <1>3, <2>2 DEF TypeOK, WholeSession, StoreKey, Goto, authVars, Op, Step
    <2>4. WholeStore'
      BY <1>0, <1>3, <2>2
      DEF TypeOK, StoreKey, Goto, WholeStore, WholeConfig, InKeychain, authVars
    <2> QED
      BY <2>3, <2>4 DEF Whole
  <1>4. CASE RenameFile(p)
    <2>1. file' \in Config /\ WholeConfig(file')
      BY <1>0, <1>4, NewFileFact DEF RenameFile, Whole
    <2>a. since' \in [Key -> 0..MaxTime] /\ undated' \in SUBSET Key
      BY <1>0, <1>4 DEF TypeOK, RenameFile
    <2>2. TypeOK' /\ WholeSession'
      BY <1>0, <1>4, <1>a, <2>1, <2>a
      DEF TypeOK, WholeSession, RenameFile, Finish, Leave, Begin, Op, Step
    <2>3. WholeStore'
      BY <1>0, <1>4, <1>a, <2>1
      DEF TypeOK, RenameFile, Finish, Leave, Begin, WholeStore, WholeConfig, InKeychain
    <2> QED
      BY <2>2, <2>3 DEF Whole
  <1>5. CASE WriteFails(p)
    <2>1. TypeOK' /\ WholeSession'
      BY <1>0, <1>5, <1>a
      DEF TypeOK, WholeSession, WriteFails, Finish, Leave, Begin, storeVars, authVars, Op,
          Step
    <2>2. WholeStore'
      BY <1>0, <1>5, <1>a
      DEF TypeOK, WriteFails, Finish, Leave, Begin, WholeStore, WholeConfig, InKeychain,
          storeVars, authVars
    <2> QED
      BY <2>1, <2>2 DEF Whole
  <1> QED
    BY <1>1, <1>2, <1>3, <1>4, <1>5

\* Every step keeps it, the end of a process and the clock included.
LEMMA NextWhole == Whole /\ [Next]_vars => Whole'
  <1> USE StoreAssumption
  <1> SUFFICES ASSUME Whole, [Next]_vars PROVE Whole'
    OBVIOUS
  <1>0. TypeOK /\ WholeSession /\ WholeStore
    BY DEF Whole
  <1>a. NoFile \in Config /\ WholeConfig(NoFile) /\ None \in User
    BY DEF NoFile, Config, User, Source, Format, WholeConfig
  <1>1. CASE Tick
    <2>1. TypeOK' /\ WholeSession'
      BY <1>0, <1>1 DEF TypeOK, WholeSession, Tick, storeVars, authVars
    <2>2. WholeStore'
      BY <1>0, <1>1
      DEF Tick, WholeStore, WholeConfig, InKeychain, storeVars, authVars
    <2> QED
      BY <2>1, <2>2 DEF Whole
  <1>2. ASSUME NEW p \in Process, Exit(p) PROVE Whole'
    <2>1. Hold(p, None, None)
      BY <1>2 DEF Exit
    <2>2. TypeOK'
      BY <1>0, <1>2, <1>a, <2>1, HoldFact
      DEF TypeOK, Exit, Leave, Begin, storeVars, authVars, Op, Step
    <2>3. WholeSession'
      BY <1>0, <1>2, <1>a, <2>1, HoldFact DEF Exit, WholeSession, authVars
    <2>4. WholeStore'
      BY <1>0, <1>2, <1>a, <2>1, HoldFact
      DEF TypeOK, Exit, Leave, Begin, WholeStore, WholeConfig, InKeychain, storeVars, authVars
    <2> QED
      BY <2>2, <2>3, <2>4 DEF Whole
  <1>3. CASE UNCHANGED vars
    BY <1>0, <1>3
    DEF Whole, TypeOK, WholeSession, WholeStore, WholeConfig, InKeychain, vars, storeVars,
        authVars
  <1> QED
    BY <1>1, <1>2, <1>3, ReadWhole, ClearWhole, WriteWhole DEF Next

-----------------------------------------------------------------------------
(* The ages.                                                                *)

\* A step that gives no key an older date, and puts into the keychain nothing
\* but what is established now, leaves every config as old as what it leads to.
LEMMA AgesKept ==
    ASSUME TypeOK, keychain' \in [Key -> User], since' \in [Key -> 0..MaxTime], now' = now,
           \A k \in Key : since'[k] = since[k] \/ since'[k] = now,
           \A k \in Key : k \in undated => k \in undated' \/ since'[k] = now,
           \A u \in Key : \/ keychain'[u] = keychain[u] \/ keychain'[u] = None
                          \/ since'[keychain'[u]] = now
    PROVE  \A config \in Config :
              /\ config.created <= now
              /\ config.key # None => config.key \in undated \/ config.created <= since[config.key]
              /\ InKeychain(config) /\ keychain[config.user] # None =>
                    config.created <= since[keychain[config.user]]
           => /\ config.created <= now'
              /\ config.key # None => config.key \in undated' \/ config.created <= since'[config.key]
              /\ InKeychain(config) /\ keychain'[config.user] # None =>
                    config.created <= since'[keychain'[config.user]]
  BY StoreAssumption DEF TypeOK, Config, User, InKeychain

\* A file is as old as its session for every reader, or its session has no age.
LEMMA NormalizedAge ==
    ASSUME TypeOK, WholeStore, AgeOK PROVE NotYounger(Normalized(file))
  <1>1. file \in Config /\ NotYounger(file) /\ (file.format = "undated" => file.key \in undated)
    BY DEF TypeOK, AgeOK
  <1>2. CASE file.format = "undated"
    <2>1. file.source = "file"
      BY <1>1, <1>2 DEF WholeStore, WholeConfig
    <2>2. /\ Normalized(file).created = now /\ Normalized(file).key \in undated
          /\ Normalized(file).source = "file" /\ now \in Nat
      BY <1>1, <1>2, <2>1, NormalizedFact DEF TypeOK
    <2> QED
      BY <2>2 DEF NotYounger, InKeychain
  <1>3. CASE file.format # "undated"
    BY <1>1, <1>3, NormalizedFact
  <1> QED
    BY <1>2, <1>3

\* The initial store has no session that could be too old.
LEMMA InitAge == Init => AgeOK
  BY StoreAssumption
  DEF Init, AgeOK, NotYounger, NoFile, InKeychain, Stale

\* Reads, clears, the end of a process: nothing gets a date, nothing is stored.
LEMMA QuietAge ==
    ASSUME Whole, AgeOK, NEW p \in Process,
           \/ ReadFile(p) \/ ReadUser(p) \/ LookUpKey(p) \/ ReadStale(p)
           \/ LogOut(p) \/ ClearRead(p) \/ ClearKey(p) \/ RemoveFile(p)
           \/ \E o \in {"metadata", "start"} : WriteMetadata(p, o)
           \/ WriteFails(p) \/ Exit(p)
    PROVE  AgeOK'
  <1> USE StoreAssumption
  <1>0. TypeOK /\ WholeSession /\ WholeStore
    BY DEF Whole
  <1>1. /\ since' = since /\ undated' = undated /\ now' = now
        /\ keychain' \in [Key -> User]
        /\ \A u \in Key : keychain'[u] = keychain[u] \/ keychain'[u] = None
    BY <1>0
    DEF TypeOK, ReadFile, ReadUser, LookUpKey, ReadStale, LogOut, ClearRead, ClearKey,
        RemoveFile, WriteMetadata, WriteFails, Exit, DeleteKey, InKeychain, storeVars,
        authVars, Config, User
  <1>2. /\ file' = file \/ file' = NoFile
        /\ \A q \in Process : seen'[q] \in {seen[q], file, Normalized(file), NoFile}
    BY <1>0
    DEF TypeOK, ReadFile, ReadUser, LookUpKey, ReadStale, LogOut, ClearRead, ClearKey,
        RemoveFile, WriteMetadata, WriteFails, Exit, Finish, Leave, storeVars
  <1>3. NoFile \in Config /\ file \in Config /\ \A q \in Process : seen[q] \in Config
    BY <1>0 DEF TypeOK, NoFile, Config, User, Source, Format
  <1>4. NotYounger(NoFile)
    BY <1>0 DEF TypeOK, NotYounger, NoFile, InKeychain
  <1>a. \A config \in Config : NotYounger(config) =>
           /\ config.created <= now'
           /\ config.key # None => config.key \in undated' \/ config.created <= since'[config.key]
           /\ InKeychain(config) /\ keychain'[config.user] # None =>
                 config.created <= since'[keychain'[config.user]]
    BY <1>0, <1>1, AgesKept DEF NotYounger, TypeOK
  <1>b. Normalized(file) \in Config /\ NotYounger(Normalized(file))
    BY <1>0, <1>3, NormalizedFact, NormalizedAge
  <1>5. /\ NotYounger(file)' /\ \A q \in Process : NotYounger(seen[q])'
        /\ (file.format = "undated" => file.key \in undated)'
    <2>1. file' \in Config /\ NotYounger(file') /\ (file'.format = "undated" => file'.key \in undated)
      BY <1>2, <1>3, <1>4 DEF AgeOK, NoFile
    <2>2. \A q \in Process : seen'[q] \in Config /\ NotYounger(seen'[q])
      BY <1>2, <1>3, <1>4, <1>b DEF AgeOK
    <2> QED
      BY <1>1, <1>a, <2>1, <2>2 DEF NotYounger, InKeychain
  <1>6. \A q \in Process : step'[q] \in {"exited", "ready"} => op'[q] = "none"
    BY <1>0
    DEF AgeOK, TypeOK, ReadFile, ReadUser, LookUpKey, ReadStale, LogOut, ClearRead, ClearKey,
        RemoveFile, WriteMetadata, WriteFails, Exit, Begin, Finish, Leave, Goto
  <1>7. \A q \in Process : step'[q] = "lookup" =>
            /\ q = p => ~Stale(file) /\ seen'[q] = file
            /\ q # p => step[q] = "lookup" /\ seen'[q] = seen[q]
    BY <1>0
    DEF AgeOK, TypeOK, ReadFile, ReadUser, LookUpKey, ReadStale, LogOut, ClearRead, ClearKey,
        RemoveFile, WriteMetadata, WriteFails, Exit, Begin, Finish, Leave, Goto
  <1>8. \A q \in Process : op'[q] = "auth" =>
            q # p /\ op[q] = "auth" /\ step'[q] = step[q] /\ session'[q] = session[q]
    <2>1. op'[p] # "auth"
      BY <1>0
      DEF AgeOK, TypeOK, ReadFile, ReadUser, LookUpKey, ReadStale, LogOut, ClearRead,
          ClearKey, RemoveFile, WriteMetadata, WriteFails, Exit, Begin, Finish, Leave, Goto
    <2>2. \A q \in Process : q # p => op'[q] = op[q] /\ step'[q] = step[q]
      BY <1>0
      DEF TypeOK, ReadFile, ReadUser, LookUpKey, ReadStale, LogOut, ClearRead,
          ClearKey, RemoveFile, WriteMetadata, WriteFails, Exit, Begin, Finish, Leave, Goto
    <2>3. \A q \in Process : q # p => session'[q] = session[q]
      BY <1>0
      DEF TypeOK, ReadFile, ReadUser, LookUpKey, ReadStale, LogOut, ClearRead,
          ClearKey, RemoveFile, WriteMetadata, WriteFails, Exit, Hold
    <2> QED
      BY <2>1, <2>2, <2>3
  <1>9. \A q \in Process : step'[q] = "lookup" => ~Stale(seen[q])'
    BY <1>1, <1>7 DEF AgeOK, Stale
  <1>10. \A q \in Process : op'[q] = "auth" =>
            /\ step'[q] \in {"storing", "renaming"}
            /\ since'[session'[q].key] = now'
            /\ KeychainSupported /\ step'[q] = "renaming"
                 /\ keychain'[session'[q].user] # None =>
                    since'[keychain'[session'[q].user]] = now'
    <2>1. SUFFICES ASSUME NEW q \in Process, op'[q] = "auth"
                   PROVE  /\ step'[q] \in {"storing", "renaming"}
                          /\ since'[session'[q].key] = now'
                          /\ KeychainSupported /\ step'[q] = "renaming"
                               /\ keychain'[session'[q].user] # None =>
                                  since'[keychain'[session'[q].user]] = now'
      OBVIOUS
    <2>2. session[q].user \in Key
      BY <1>0, <1>8, <2>1 DEF TypeOK, WholeSession, WholeStore, Session, User
    <2> QED
      BY <1>1, <1>8, <2>1, <2>2 DEF AgeOK
  <1> QED
    BY <1>0, <1>1, <1>5, <1>6, <1>9, <1>10 DEF AgeOK

\* Authenticating: the new key is as young as can be (verify_challenge).
LEMMA AuthenticateAge ==
    ASSUME Whole, AgeOK, NEW p \in Process, NEW k \in Key, Authenticate(p, k)
    PROVE  AgeOK'
  <1> USE StoreAssumption
  <1>0. TypeOK /\ WholeSession /\ WholeStore
    BY DEF Whole
  <1>1. /\ since' = [since EXCEPT ![k] = now] /\ now' = now
        /\ file' = file /\ keychain' = keychain
        /\ seen' = [seen EXCEPT ![p] = Normalized(file)] /\ undated' = undated
        /\ op' = [op EXCEPT ![p] = "auth"] /\ step' = [step EXCEPT ![p] = "storing"]
    BY DEF Authenticate, Begin, storeVars
  <1>2. session'[p].key = k /\ \A q \in Process : q # p => session'[q] = session[q]
    BY <1>0 DEF Authenticate, TypeOK
  <1>3. /\ keychain' \in [Key -> User] /\ since' \in [Key -> 0..MaxTime]
        /\ \A j \in Key : since'[j] = since[j] \/ since'[j] = now
    BY <1>0, <1>1 DEF TypeOK
  <1>4. file \in Config /\ \A q \in Process : seen[q] \in Config
    BY <1>0 DEF TypeOK
  <1>a. \A config \in Config : NotYounger(config) =>
           /\ config.created <= now'
           /\ config.key # None => config.key \in undated' \/ config.created <= since'[config.key]
           /\ InKeychain(config) /\ keychain'[config.user] # None =>
                 config.created <= since'[keychain'[config.user]]
    BY <1>0, <1>1, <1>3, AgesKept DEF NotYounger, TypeOK
  <1>5. /\ NotYounger(file)' /\ \A q \in Process : NotYounger(seen[q])'
        /\ (file.format = "undated" => file.key \in undated)'
    <2>1. \A q \in Process : seen'[q] \in {seen[q], Normalized(file)}
      BY <1>0, <1>1 DEF TypeOK
    <2>2. Normalized(file) \in Config /\ NotYounger(Normalized(file))
      BY <1>0, <1>4, NormalizedFact, NormalizedAge
    <2>3. \A q \in Process : seen'[q] \in Config /\ NotYounger(seen'[q])
      BY <1>4, <2>1, <2>2 DEF AgeOK
    <2> QED
      BY <1>1, <1>4, <1>a, <2>3 DEF AgeOK, NotYounger, InKeychain
  <1>6. \A j \in Key : since'[j] <= now'
    BY <1>0, <1>1, <1>3 DEF AgeOK, TypeOK
  <1>7. \A q \in Process : /\ step'[q] \in {"exited", "ready"} => op'[q] = "none"
                           /\ step'[q] = "lookup" => ~Stale(seen[q])'
    BY <1>0, <1>1 DEF AgeOK, TypeOK, Stale
  <1>8. ASSUME NEW q \in Process, op'[q] = "auth"
        PROVE  /\ step'[q] \in {"storing", "renaming"}
               /\ since'[session'[q].key] = now'
               /\ KeychainSupported /\ step'[q] = "renaming"
                    /\ keychain'[session'[q].user] # None =>
                       since'[keychain'[session'[q].user]] = now'
    <2>1. CASE q = p
      BY <1>0, <1>1, <1>2, <2>1 DEF TypeOK
    <2>2. CASE q # p
      <3>1. op[q] = "auth" /\ step'[q] = step[q] /\ session'[q] = session[q]
        BY <1>0, <1>1, <1>2, <1>8, <2>2 DEF TypeOK
      <3>2. session[q].user \in Key /\ session[q].key \in Key
        BY <1>0, <3>1 DEF TypeOK, WholeSession, WholeStore, Session, User
      <3>3. since'[session[q].key] = now
        BY <1>3, <3>1, <3>2 DEF AgeOK
      <3>4. keychain[session[q].user] \in User
        BY <1>0, <3>2 DEF TypeOK
      <3>5. ASSUME KeychainSupported, step[q] = "renaming", keychain[session[q].user] # None
            PROVE  since'[keychain[session[q].user]] = now
        BY <1>3, <3>1, <3>4, <3>5 DEF AgeOK, User
      <3> QED
        BY <1>1, <3>1, <3>3, <3>5 DEF AgeOK
    <2> QED
      BY <2>1, <2>2
  <1> QED
    BY <1>5, <1>6, <1>7, <1>8 DEF AgeOK

\* The keychain command: what it stores was established at this very time.
LEMMA StoreKeyAge ==
    ASSUME Whole, AgeOK, NEW p \in Process, StoreKey(p)
    PROVE  AgeOK'
  <1> USE StoreAssumption
  <1>0. TypeOK /\ WholeSession /\ WholeStore
    BY DEF Whole
  <1>1. /\ since' = since /\ undated' = undated /\ now' = now /\ file' = file /\ seen' = seen
        /\ session' = session /\ op' = op
        /\ step[p] = "storing" /\ step' = [step EXCEPT ![p] = "renaming"]
    BY DEF StoreKey, Goto, authVars
  <1>2. op[p] = "auth" => /\ session[p].user \in Key /\ session[p].key \in Key
                          /\ since[session[p].key] = now
    BY <1>0 DEF TypeOK, WholeSession, WholeStore, Session, User, NoSession, AgeOK
  <1>3. /\ keychain' \in [Key -> User]
        /\ \A u \in Key : \/ keychain'[u] = keychain[u] \/ keychain'[u] = None
                          \/ since[keychain'[u]] = now
        /\ op[p] = "auth" /\ KeychainSupported => since[keychain'[session[p].user]] = now
    BY <1>0, <1>2 DEF TypeOK, StoreKey, DeleteKey, InKeychain, Config, User
  <1>4. file \in Config /\ \A q \in Process : seen[q] \in Config
    BY <1>0 DEF TypeOK
  <1>a. \A config \in Config : NotYounger(config) =>
           /\ config.created <= now'
           /\ config.key # None => config.key \in undated' \/ config.created <= since'[config.key]
           /\ InKeychain(config) /\ keychain'[config.user] # None =>
                 config.created <= since'[keychain'[config.user]]
    BY <1>0, <1>1, <1>3, AgesKept DEF NotYounger, TypeOK
  <1>5. /\ NotYounger(file)' /\ \A q \in Process : NotYounger(seen[q])'
        /\ (file.format = "undated" => file.key \in undated)'
    BY <1>1, <1>4, <1>a DEF AgeOK, NotYounger, InKeychain
  <1>6. \A j \in Key : since'[j] <= now'
    BY <1>1 DEF AgeOK
  <1>7. \A q \in Process : /\ step'[q] \in {"exited", "ready"} => op'[q] = "none"
                           /\ step'[q] = "lookup" => ~Stale(seen[q])'
    BY <1>0, <1>1 DEF AgeOK, TypeOK, Stale
  <1>8. ASSUME NEW q \in Process, op'[q] = "auth"
        PROVE  /\ step'[q] \in {"storing", "renaming"}
               /\ since'[session'[q].key] = now'
               /\ KeychainSupported /\ step'[q] = "renaming"
                    /\ keychain'[session'[q].user] # None =>
                       since'[keychain'[session'[q].user]] = now'
    <2>1. /\ step'[q] \in {"storing", "renaming"} /\ since'[session'[q].key] = now'
          /\ session[q].user \in Key
      BY <1>0, <1>1, <1>8
      DEF AgeOK, TypeOK, WholeSession, WholeStore, Session, User, NoSession
    <2>2. CASE q = p
      BY <1>1, <1>3, <1>8, <2>1, <2>2
    <2>3. CASE q # p
      <3>1. step'[q] = step[q]
        BY <1>0, <1>1, <2>3 DEF TypeOK
      <3> QED
        BY <1>1, <1>3, <1>8, <2>1, <3>1 DEF AgeOK
    <2> QED
      BY <2>2, <2>3
  <1> QED
    BY <1>5, <1>6, <1>7, <1>8 DEF AgeOK

\* The rename: an authentication dates the file now, and so is its key; a
\* metadata write keeps the date of what it read (write_config).
LEMMA RenameAge ==
    ASSUME Whole, AgeOK, NEW p \in Process, RenameFile(p)
    PROVE  AgeOK'
  <1> USE StoreAssumption
  <1>0. TypeOK /\ WholeSession /\ WholeStore
    BY DEF Whole
  <1>1. /\ now' = now /\ keychain' = keychain /\ session' = session
        /\ step[p] = "renaming"
        /\ step' = [step EXCEPT ![p] = "ready"] /\ op' = [op EXCEPT ![p] = "none"]
        /\ seen' = [seen EXCEPT ![p] = NoFile]
    BY DEF RenameFile, Finish, Leave, Begin
  <1>s. /\ \A k \in Key : since'[k] = since[k] \/ since'[k] = now
        /\ \A k \in Key : k \in undated => k \in undated' \/ since'[k] = now
        /\ op[p] = "metadata" /\ seen[p].format = "undated" => since'[seen[p].key] = now
        /\ since' \in [Key -> 0..MaxTime]
    <2>1. seen[p].format = "undated" => seen[p].key \in Key
      BY <1>0 DEF TypeOK, WholeStore, WholeConfig, Config, User
    <2> QED
      BY <1>0, <2>1 DEF TypeOK, RenameFile
  <1>2. seen[p] \in Config /\ session[p] \in Session /\ now \in 0..MaxTime
    BY <1>0 DEF TypeOK
  <1>a. \A config \in Config : NotYounger(config) =>
           /\ config.created <= now'
           /\ config.key # None => config.key \in undated' \/ config.created <= since'[config.key]
           /\ InKeychain(config) /\ keychain'[config.user] # None =>
                 config.created <= since'[keychain'[config.user]]
    BY <1>0, <1>1, <1>s, AgesKept DEF NotYounger, TypeOK
  <1>b. \A q \in Process : op[q] = "auth" =>
           /\ session[q].user \in Key /\ session[q].key \in Key
           /\ since'[session[q].key] = now
           /\ KeychainSupported /\ step[q] = "renaming" /\ keychain[session[q].user] # None =>
                 since'[keychain[session[q].user]] = now
    <2> SUFFICES ASSUME NEW q \in Process, op[q] = "auth"
                 PROVE  /\ session[q].user \in Key /\ session[q].key \in Key
                        /\ since'[session[q].key] = now
                        /\ KeychainSupported /\ step[q] = "renaming"
                             /\ keychain[session[q].user] # None =>
                                since'[keychain[session[q].user]] = now
      OBVIOUS
    <2>1. session[q].user \in Key /\ session[q].key \in Key
      BY <1>0 DEF TypeOK, WholeSession, WholeStore, Session, User, NoSession
    <2>2. keychain[session[q].user] \in User
      BY <1>0, <2>1 DEF TypeOK
    <2> QED
      BY <1>s, <2>1, <2>2 DEF AgeOK, User
  <1>3. /\ file'.created <= now
        /\ file'.key # None => file'.key \in undated' \/ file'.created <= since'[file'.key]
        /\ InKeychain(file') /\ keychain[file'.user] # None =>
              file'.created <= since'[keychain[file'.user]]
        /\ file'.format = "v1"
    <2>1. CASE op[p] = "auth" /\ file' = AuthFile(p)
      <3>1. /\ file'.created = now
            /\ file'.user = session[p].user
            /\ file'.key # None => file'.key = session[p].key
            /\ InKeychain(file') => KeychainSupported
            /\ file'.format = "v1"
        BY <2>1 DEF AuthFile, InKeychain
      <3> QED
        BY <1>1, <1>2, <1>b, <2>1, <3>1
    <2>2. CASE op[p] = "metadata" /\ file' = MetadataFile(p)
      <3>1. NotYounger(seen[p]) /\ WholeConfig(seen[p])
        BY <1>0 DEF AgeOK, WholeStore
      <3>2. CASE seen[p].source = "none"
        <4>1. /\ file'.created = now /\ file'.user = None /\ file'.key = None
              /\ file'.format = "v1"
          BY <1>2, <2>2, <3>1, <3>2 DEF MetadataFile, WholeConfig, NoFile, Config
        <4> QED
          BY <1>2, <4>1 DEF InKeychain
      <3>3. CASE seen[p].source # "none"
        <4>1. /\ file'.created = seen[p].created /\ file'.user = seen[p].user
              /\ file'.key = seen[p].key /\ file'.source = seen[p].source
              /\ file'.format = "v1"
          BY <1>2, <2>2, <3>3 DEF MetadataFile, Config
        <4> QED
          BY <1>1, <1>2, <1>a, <3>1, <4>1 DEF InKeychain
      <3> QED
        BY <3>2, <3>3
    <2>3. CASE op[p] = "start" /\ file' = StartFile
      BY <1>2, <2>3 DEF StartFile, InKeychain
    <2> QED
      BY <2>1, <2>2, <2>3 DEF RenameFile
  <1>4. NotYounger(file)' /\ (file.format = "undated" => file.key \in undated)'
    BY <1>1, <1>3 DEF NotYounger, InKeychain
  <1>5. \A q \in Process : NotYounger(seen[q])'
    <2>1. \A q \in Process : seen'[q] \in {seen[q], NoFile}
      BY <1>0, <1>1 DEF TypeOK
    <2>2. NotYounger(NoFile) /\ NoFile \in Config
      BY <1>2 DEF NotYounger, NoFile, InKeychain, Config, User, Source, Format
    <2>3. \A q \in Process : seen'[q] \in Config /\ NotYounger(seen'[q])
      BY <1>0, <2>1, <2>2 DEF AgeOK, TypeOK
    <2> QED
      BY <1>1, <1>a, <2>3 DEF NotYounger, InKeychain
  <1>6. \A j \in Key : since'[j] <= now'
    BY <1>1, <1>2, <1>s DEF AgeOK
  <1>7. \A q \in Process : /\ step'[q] \in {"exited", "ready"} => op'[q] = "none"
                           /\ step'[q] = "lookup" => ~Stale(seen[q])'
    BY <1>0, <1>1 DEF AgeOK, TypeOK, Stale
  <1>8. \A q \in Process : op'[q] = "auth" => op[q] = "auth" /\ step'[q] = step[q]
    BY <1>0, <1>1 DEF TypeOK
  <1>9. \A q \in Process : op'[q] = "auth" =>
           /\ step'[q] \in {"storing", "renaming"}
           /\ since'[session'[q].key] = now'
           /\ KeychainSupported /\ step'[q] = "renaming" /\ keychain'[session'[q].user] # None =>
                 since'[keychain'[session'[q].user]] = now'
    BY <1>1, <1>8, <1>b DEF AgeOK
  <1> QED
    BY <1>4, <1>5, <1>6, <1>7, <1>9 DEF AgeOK

\* Every step keeps the ages; the clock moves between operations only.
LEMMA NextAge == Whole /\ AgeOK /\ [Next]_vars => AgeOK'
  <1> USE StoreAssumption
  <1> SUFFICES ASSUME Whole, AgeOK, [Next]_vars PROVE AgeOK'
    OBVIOUS
  <1>1. CASE Tick
    <2>0. TypeOK
      BY DEF Whole
    <2>1. /\ now' = now + 1 /\ file' = file /\ keychain' = keychain /\ since' = since
          /\ step' = step /\ op' = op /\ seen' = seen /\ session' = session
          /\ undated' = undated
      BY <1>1 DEF Tick, storeVars, authVars
    <2>2. \A q \in Process : step[q] \in {"exited", "ready"} /\ op[q] = "none"
      BY <1>1 DEF Tick, AgeOK
    <2>3. /\ file.created \in Nat /\ \A q \in Process : seen[q].created \in Nat
          /\ \A k \in Key : since[k] \in Nat
          /\ now \in Nat
      BY <2>0 DEF TypeOK, Config
    <2>4. NotYounger(file)' /\ \A q \in Process : NotYounger(seen[q])'
      BY <2>1, <2>3 DEF AgeOK, NotYounger, InKeychain
    <2>5. \A k \in Key : since'[k] <= now'
      BY <2>1, <2>3 DEF AgeOK
    <2> QED
      BY <2>1, <2>2, <2>4, <2>5 DEF AgeOK
  <1>2. CASE UNCHANGED vars
    BY <1>2 DEF AgeOK, NotYounger, InKeychain, Stale, vars, storeVars, authVars
  <1> QED
    BY <1>1, <1>2, QuietAge, AuthenticateAge, StoreKeyAge, RenameAge DEF Next

-----------------------------------------------------------------------------
\* The whole invariant, of every reachable state.
THEOREM StoreInvariant == Spec => []StoreInv
  <1> DEFINE IInv == Whole /\ AgeOK
  <1>1. Init => IInv
    BY InitWhole, InitAge
  <1>2. IInv /\ [Next]_vars => IInv'
    BY NextWhole, NextAge
  <1>3. IInv => StoreInv
    BY DEF Whole, StoreInv
  <1> QED
    BY <1>1, <1>2, <1>3, PTL DEF Spec

\* No process ever holds a user and a key that were not established together,
\* whatever read_config, write_config and clear_config of other processes do
\* between its own steps.
THEOREM StoreWholeSession == Spec => []WholeSession
  <1>1. StoreInv => WholeSession
    BY DEF StoreInv
  <1> QED
    BY <1>1, StoreInvariant, PTL

\* No read returns a session older than SESSION_MAX_AGE_MS.
THEOREM StoreNeverExtended == Spec => NeverExtended
  <1> USE StoreAssumption
  <1> DEFINE Fresh == \A p \in Process : session'[p] # session[p] /\ session'[p] # NoSession =>
                          \/ session'[p].key \in undated
                          \/ now - since'[session'[p].key] <= MaxAge
  <1>1. ASSUME StoreInv, Next PROVE Fresh
    <2>0. TypeOK /\ WholeStore /\ AgeOK
      BY <1>1 DEF StoreInv
    <2>1. SUFFICES ASSUME NEW p \in Process, session'[p] # session[p], session'[p] # NoSession
                   PROVE  \/ session'[p].key \in undated
                          \/ now - since'[session'[p].key] <= MaxAge
      OBVIOUS
    <2>2. CASE ReadFile(p)
      <3>1. Hold(p, file.user, file.key) /\ since' = since
        BY <2>2 DEF ReadFile, authVars
      <3>2. file.user \in User /\ file.key \in User
        BY <2>0 DEF TypeOK, Config
      <3>3. session'[p].key = file.key /\ file.key # None
        BY <2>0, <2>1, <3>1, <3>2, HoldFact
      <3>4. file # NoFile
        BY <3>3 DEF NoFile
      <3>5. ASSUME file.format # "undated" PROVE now - file.created <= MaxAge
        <4>1. Normalized(file) = file /\ file.created \in Nat /\ now \in Nat
          BY <2>0, <3>5, NormalizedFact DEF TypeOK, Config
        <4> QED
          BY <2>2, <3>4, <4>1 DEF ReadFile, Stale
      <3>6. /\ file.key \in undated \/ file.created <= since[file.key]
            /\ file.format = "undated" => file.key \in undated
            /\ since[file.key] \in Nat
        BY <2>0, <3>2, <3>3 DEF AgeOK, NotYounger, TypeOK, User
      <3> QED
        BY <2>0, <3>1, <3>3, <3>5, <3>6 DEF TypeOK, Config
    <2>3. CASE LookUpKey(p)
      <3>1. seen[p].user \in Key /\ InKeychain(seen[p]) /\ ~Stale(seen[p]) /\ since' = since
        BY <2>0, <2>3 DEF TypeOK, LookUpKey, WholeStore, InKeychain, Config, User, AgeOK, authVars
      <3>2. PICK key \in User :
              /\ Hold(p, seen[p].user, key)
              /\ key # None => key = keychain[seen[p].user]
        BY <2>0, <2>3, <3>1 DEF TypeOK, LookUpKey, Hold, User
      <3>3. session'[p].key = key /\ key # None /\ key = keychain[seen[p].user]
        BY <2>0, <2>1, <3>1, <3>2, HoldFact DEF User
      <3>4. seen[p].created <= since[key]
        BY <2>0, <3>1, <3>3 DEF AgeOK, NotYounger
      <3>5. since[key] \in Nat /\ seen[p].created \in Nat /\ now \in Nat
        BY <2>0, <3>2, <3>3 DEF TypeOK, Config, User
      <3>6. now - seen[p].created <= MaxAge
        BY <3>1, <3>5 DEF Stale
      <3> QED
        BY <3>1, <3>3, <3>4, <3>5, <3>6
    <2>4. ASSUME NEW k \in Key, Authenticate(p, k) PROVE now - since'[session'[p].key] <= MaxAge
      BY <2>0, <2>4 DEF Authenticate, TypeOK
    <2>5. ASSUME NEW q \in Process, Hold(q, None, None) PROVE FALSE
      BY <2>0, <2>1, <2>5, HoldFact DEF User
    <2>6. ASSUME NEW q \in Process, q # p,
                 ReadFile(q) \/ LookUpKey(q) \/ \E k \in Key : Authenticate(q, k)
          PROVE  FALSE
      BY <2>0, <2>1, <2>6 DEF TypeOK, ReadFile, LookUpKey, Authenticate, Hold
    <2>7. PICK q \in Process : \/ Hold(q, None, None) \/ ReadFile(q) \/ LookUpKey(q)
                               \/ \E k \in Key : Authenticate(q, k)
      BY <1>1, <2>1
      DEF Next, Tick, ReadUser, ReadStale, LogOut, ClearRead, ClearKey, RemoveFile,
          WriteMetadata, StoreKey, RenameFile, WriteFails, Exit
    <2> QED
      BY <2>2, <2>3, <2>4, <2>5, <2>6, <2>7
  <1>2. StoreInv /\ [Next]_vars => [Fresh]_vars
    BY <1>1
  <1> QED
    BY <1>2, StoreInvariant, PTL DEF Spec, NeverExtended

-----------------------------------------------------------------------------
(* Metadata writes.                                                         *)

\* An operation that clears the store is a read that met an old file, or a logout.
ClearingOp ==
    \A p \in Process : step[p] \in {"expired", "clearing", "removing"} =>
        op[p] \in {"read", "logout"}

\* ClearingOp holds on: only clear_config enters the steps that clear.
LEMMA NextClearingOp == TypeOK /\ ClearingOp /\ [Next]_vars => ClearingOp'
  <1> SUFFICES ASSUME TypeOK, ClearingOp, [Next]_vars PROVE ClearingOp'
    OBVIOUS
  <1>1. CASE Tick \/ UNCHANGED vars
    BY <1>1 DEF ClearingOp, Tick, vars
  <1>2. ASSUME NEW p \in Process, NEW o \in Op, NEW s \in Step, Begin(p, o, s),
               s \in {"expired", "clearing", "removing"} => o \in {"read", "logout"}
        PROVE  ClearingOp'
    BY <1>2 DEF TypeOK, ClearingOp, Begin
  <1>3. ASSUME NEW p \in Process, NEW s \in Step, Goto(p, s),
               s \in {"expired", "clearing", "removing"} =>
                   step[p] \in {"expired", "clearing", "removing"}
        PROVE  ClearingOp'
    BY <1>3 DEF TypeOK, ClearingOp, Goto
  <1>4. ASSUME NEW p \in Process, Leave(p, "ready") \/ Leave(p, "exited") PROVE ClearingOp'
    BY <1>2, <1>4 DEF Leave, Op, Step
  <1>5. ASSUME NEW p \in Process, \/ ReadUser(p) \/ ReadStale(p) \/ LogOut(p)
                                  \/ \E k \in Key : Authenticate(p, k)
                                  \/ \E o \in {"metadata", "start"} : WriteMetadata(p, o)
        PROVE  ClearingOp'
    BY <1>2, <1>5 DEF ReadUser, ReadStale, LogOut, Authenticate, WriteMetadata, Op, Step
  <1>6. ASSUME NEW p \in Process, ClearRead(p) \/ ClearKey(p) \/ StoreKey(p)
        PROVE  ClearingOp'
    BY <1>3, <1>6 DEF ClearRead, ClearKey, StoreKey, Step
  <1> QED
    BY <1>1, <1>4, <1>5, <1>6
    DEF Next, ReadFile, LookUpKey, RemoveFile, RenameFile, WriteFails, Exit, Finish

\* A metadata write that met nobody keeps the session, on every platform, if the file
\* it read does not keep the session's secret in a keychain that it can reach.
MetadataKeepsFileSession ==
    [][\A d \in Daemon :
          /\ op[d] = "metadata" /\ step'[d] # step[d] /\ seen[d] = Normalized(file)
          /\ KeychainSupported => ~InKeychain(file)
          => StoredSession' = StoredSession]_vars

\* write_config deletes a keychain item only on macOS, and composes the new file from
\* the user and the key of the one it has read.
THEOREM StoreMetadataKeepsFileSession == Spec => MetadataKeepsFileSession
  <1> USE StoreAssumption
  <1> DEFINE Kept == \A d \in Daemon :
                        /\ op[d] = "metadata" /\ step'[d] # step[d] /\ seen[d] = Normalized(file)
                        /\ KeychainSupported => ~InKeychain(file)
                        => StoredSession' = StoredSession
  <1>1. ASSUME StoreInv, ClearingOp, Next PROVE Kept
    <2>0. TypeOK
      BY <1>1 DEF StoreInv
    <2> SUFFICES ASSUME NEW d \in Daemon, op[d] = "metadata", step'[d] # step[d],
                        seen[d] = Normalized(file), KeychainSupported => ~InKeychain(file)
                 PROVE  StoredSession' = StoredSession
      OBVIOUS
    <2>1. /\ d \in Process /\ d \notin Client
          /\ seen[d].user = file.user /\ seen[d].key = file.key /\ seen[d].source = file.source
      BY <2>0, NormalizedFact DEF Process, TypeOK
    <2>2. ASSUME UNCHANGED storeVars PROVE StoredSession' = StoredSession
      BY <2>2 DEF StoredSession, InKeychain, storeVars
    <2>3. CASE StoreKey(d)
      <3>1. file' = file /\ keychain' = keychain
        BY <2>0, <2>1, <2>3 DEF StoreKey, DeleteKey, InKeychain, TypeOK, Config, User
      <3> QED
        BY <2>2, <3>1 DEF storeVars
    <2>4. CASE RenameFile(d)
      <3>1. file' = MetadataFile(d) /\ keychain' = keychain
        BY <2>4 DEF RenameFile
      <3>2. /\ file'.user = file.user /\ file'.key = file.key
            /\ file'.source = "keychain" <=> file.source = "keychain"
        BY <2>0, <2>1, <3>1 DEF MetadataFile, TypeOK, Config
      <3> QED
        BY <3>1, <3>2 DEF StoredSession, InKeychain
    <2>5. ASSUME NEW p \in Process, StoreKey(p) \/ RenameFile(p) \/ ClearKey(p) \/ RemoveFile(p)
          PROVE  p = d /\ ~ClearKey(p) /\ ~RemoveFile(p)
      <3>1. PICK s \in Step : step' = [step EXCEPT ![p] = s]
        BY <2>5
        DEF StoreKey, RenameFile, ClearKey, RemoveFile, Goto, Finish, Leave, Begin, Step
      <3>2. p = d
        BY <2>0, <2>1, <3>1 DEF TypeOK
      <3> QED
        BY <1>1, <2>1, <3>2 DEF ClearingOp, ClearKey, RemoveFile
    <2>6. \/ UNCHANGED storeVars
          \/ \E p \in Process : StoreKey(p) \/ RenameFile(p) \/ ClearKey(p) \/ RemoveFile(p)
      BY <1>1 DEF Next, Tick, ReadFile, ReadUser, LookUpKey, ReadStale, LogOut, ClearRead,
         Authenticate, WriteMetadata, WriteFails, Exit
    <2> QED
      BY <2>2, <2>3, <2>4, <2>5, <2>6
  <1>2. StoreInv /\ ClearingOp /\ [Next]_vars => [Kept]_vars
    BY <1>1
  <1>3. Init => ClearingOp
    BY DEF Init, ClearingOp
  <1>4. StoreInv /\ ClearingOp /\ [Next]_vars => ClearingOp'
    BY NextClearingOp DEF StoreInv
  <1> QED
    BY <1>2, <1>3, <1>4, StoreInvariant, PTL DEF Spec, MetadataKeepsFileSession

\* Without a keychain, a metadata write always keeps the session.
THEOREM StoreMetadataKeepsSession ==
    ASSUME ~KeychainSupported PROVE Spec => MetadataKeepsSession
  <1> DEFINE Any == \A d \in Daemon :
                       op[d] = "metadata" /\ step'[d] # step[d] /\ seen[d] = Normalized(file) =>
                           StoredSession' = StoredSession
             Kept == \A d \in Daemon :
                        /\ op[d] = "metadata" /\ step'[d] # step[d] /\ seen[d] = Normalized(file)
                        /\ KeychainSupported => ~InKeychain(file)
                        => StoredSession' = StoredSession
  <1>1. [Kept]_vars => [Any]_vars
    OBVIOUS
  <1>2. MetadataKeepsFileSession => MetadataKeepsSession
    BY <1>1, PTL DEF MetadataKeepsFileSession, MetadataKeepsSession
  <1> QED
    BY <1>2, StoreMetadataKeepsFileSession, PTL
=============================================================================
