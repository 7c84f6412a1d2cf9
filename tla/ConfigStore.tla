----------------------------- MODULE ConfigStore -----------------------------
(***************************************************************************)
(* The session store every apw process shares: ~/.apw/config.json          *)
(* (rust/src/utils.rs) and, on macOS, the keychain item of the session's   *)
(* user (rust/src/secrets.rs).  There is no lock: read_config,             *)
(* write_config and clear_config are sequences of a file read, a keychain  *)
(* command and a rename or an unlink, and one action is one of those.      *)
(*                                                                         *)
(* An authentication (verify_challenge) makes a new key for a user name:   *)
(* that of the session its process loaded when it started, or a random one.*)
(* The bridge and launch metadata of the file are left to the daemon's     *)
(* modules; here a metadata write is one that names no user and no key.    *)
(***************************************************************************)
EXTENDS Naturals, FiniteSets

CONSTANTS
    Client,             \* processes that authenticate, query and log out
    Daemon,             \* processes of apw start
    Key,                \* session keys; a random user name is named by its key
    None,               \* no user, no key
    KeychainSupported,  \* supports_keychain()
    Faults,             \* whether keychain commands, writes and processes may fail
    LegacyFile,         \* whether an earlier release may have left a session
    MaxAge, MaxTime     \* SESSION_MAX_AGE_MS; bound of the clock

ASSUME StoreAssumption ==
    /\ None \notin Key
    /\ Client \cap Daemon = {}
    /\ {KeychainSupported, Faults, LegacyFile} \subseteq BOOLEAN
    /\ MaxAge \in Nat /\ MaxTime \in Nat

Process == Client \cup Daemon

VARIABLES
    file,       \* config.json
    keychain,   \* per user, the secret of its keychain item
    step,       \* per process, the step of the operation it is in
    op,         \* per process, that operation
    seen,       \* per process, the file as the operation read it
    session,    \* per process, the user and key it holds (ApplePasswordManager)
    now,        \* the clock
    owner,      \* per key, the user it was established for; None before
    since,      \* per key, when that was, or when a write dated it
    undated     \* keys of a file of an earlier release that has no date yet

storeVars == <<file, keychain>>
authVars  == <<owner, since, undated>>
vars == <<storeVars, step, op, seen, session, now, authVars>>

User   == Key \cup {None}
Source == {"none", "file", "keychain"}
Format == {"v1", "dated", "undated"}  \* the schema, or an earlier one with or without createdAt
Config == [user : User, key : User, source : Source, format : Format, created : 0..MaxTime]
Session == [user : User, key : User]
NoFile == [user |-> None, key |-> None, source |-> "none", format |-> "v1", created |-> 0]
NoSession == [user |-> None, key |-> None]
Op == {"none", "read", "auth", "metadata", "start", "logout"}
Step == {"exited", "ready", "lookup", "expired", "clearing", "removing",
         "storing", "renaming"}

TypeOK ==
    /\ file \in Config
    /\ keychain \in [Key -> User]
    /\ step \in [Process -> Step]
    /\ op \in [Process -> Op]
    /\ seen \in [Process -> Config]
    /\ session \in [Process -> Session]
    /\ now \in 0..MaxTime
    /\ owner \in [Key -> User]
    /\ since \in [Key -> 0..MaxTime]
    /\ undated \in SUBSET Key

\* No config, or that of a release that kept the key in the file.
Init ==
    /\ \/ file = NoFile /\ owner = [k \in Key |-> None] /\ undated = {}
       \/ \E k \in Key, format \in {"dated", "undated"} :
            /\ LegacyFile
            /\ file = [user |-> k, key |-> k, source |-> "file", format |-> format, created |-> 0]
            /\ owner = [j \in Key |-> IF j = k THEN k ELSE None]
            /\ undated = IF format = "undated" THEN {k} ELSE {}
    /\ since = [k \in Key |-> 0]
    /\ keychain = [u \in Key |-> None]
    /\ step = [p \in Process |-> "exited"]
    /\ op = [p \in Process |-> "none"]
    /\ seen = [p \in Process |-> NoFile]
    /\ session = [p \in Process |-> NoSession]
    /\ now = 0

Begin(p, o, s) ==
    /\ op' = [op EXCEPT ![p] = o]
    /\ step' = [step EXCEPT ![p] = s]

\* The operation is over, and what it read forgotten; its process goes on.
Leave(p, s) ==
    /\ Begin(p, "none", s)
    /\ seen' = [seen EXCEPT ![p] = NoFile]

Finish(p) == Leave(p, "ready")

Goto(p, s) == step' = [step EXCEPT ![p] = s] /\ UNCHANGED op

-----------------------------------------------------------------------------
(* read_config, at the start of every command and before every query.       *)

CanRead(p) == step[p] \in {"exited", "ready"}

\* normalize_legacy_config: a file without createdAt was made just now, at every read.
Normalized(config) ==
    [config EXCEPT !.created = IF config.format = "undated" THEN now ELSE @]

\* Mutant: the age of a config is not looked at.
NeverStale(config) == FALSE

\* stale_config
Stale(config) == now - config.created > MaxAge

InKeychain(config) == config.source = "keychain" /\ config.user # None

\* A process that finds no session has none: its command ends with an error.
Hold(p, user, key) ==
    session' = [session EXCEPT ![p] = IF user = None \/ key = None THEN NoSession
                                      ELSE [user |-> user, key |-> key]]

\* No file, or one that has the key in it or no session at all.
ReadFile(p) ==
    /\ CanRead(p)
    /\ file = NoFile \/ ~Stale(Normalized(file))
    /\ ~InKeychain(file)
    /\ Hold(p, file.user, file.key)
    /\ Finish(p)
    /\ UNCHANGED <<storeVars, now, authVars>>

\* A file whose secret is in the keychain ...
ReadUser(p) ==
    /\ CanRead(p)
    /\ ~Stale(file)
    /\ InKeychain(file)
    /\ seen' = [seen EXCEPT ![p] = file]
    /\ Begin(p, "read", "lookup")
    /\ UNCHANGED <<storeVars, session, now, authVars>>

\* Mutant: the key is looked up for the user the file has by then.
LookUpKeyTorn(p) ==
    /\ step[p] = "lookup"
    /\ Hold(p, seen[p].user, IF InKeychain(file) THEN keychain[file.user] ELSE None)
    /\ Finish(p)
    /\ UNCHANGED <<storeVars, now, authVars>>

\* ... which is read next.  Without an item there is no session: files of that
\* kind have no key of their own to fall back to.
LookUpKey(p) ==
    /\ step[p] = "lookup"
    /\ \/ Hold(p, seen[p].user, IF KeychainSupported THEN keychain[seen[p].user] ELSE None)
       \/ Faults /\ Hold(p, None, None)
    /\ Finish(p)
    /\ UNCHANGED <<storeVars, now, authVars>>

\* A file that is too old: the session is cleared.
ReadStale(p) ==
    /\ CanRead(p)
    /\ file # NoFile /\ Stale(Normalized(file))
    /\ Hold(p, None, None)
    /\ Begin(p, "read", "expired")
    /\ UNCHANGED <<storeVars, seen, now, authVars>>

-----------------------------------------------------------------------------
(* clear_config: read the file again, delete the keychain item it names, or *)
(* that of the user of an earlier release's session, remove the file.       *)

\* apw auth logout
LogOut(p) ==
    /\ p \in Client
    /\ step[p] = "ready"
    /\ Begin(p, "logout", "expired")
    /\ UNCHANGED <<storeVars, seen, session, now, authVars>>

ClearRead(p) ==
    /\ step[p] = "expired"
    /\ seen' = [seen EXCEPT ![p] = file]
    /\ Goto(p, "clearing")
    /\ UNCHANGED <<storeVars, session, now, authVars>>

\* delete_shared_key(user); its failures are ignored.
DeleteKey(user) ==
    \/ keychain' = [keychain EXCEPT ![user] = IF KeychainSupported THEN None ELSE @]
    \/ Faults /\ UNCHANGED keychain

ClearKey(p) ==
    /\ step[p] = "clearing"
    /\ IF \/ InKeychain(seen[p])
          \/ seen[p].format # "v1" /\ seen[p].key # None
       THEN DeleteKey(seen[p].user)
       ELSE UNCHANGED keychain
    /\ Goto(p, "removing")
    /\ UNCHANGED <<file, seen, session, now, authVars>>

RemoveFile(p) ==
    /\ step[p] = "removing"
    /\ file' = NoFile
    /\ Hold(p, None, None)
    /\ Finish(p)
    /\ UNCHANGED <<keychain, now, authVars>>

-----------------------------------------------------------------------------
(* write_config: read the file, write or delete the keychain item, rename a *)
(* new file over the old one.                                               *)

\* verify_challenge, once the helper has accepted the PIN: the key is new, the
\* user name that of the session the process had, or a random one.
Authenticate(p, k) ==
    /\ p \in Client
    /\ step[p] = "ready"
    /\ owner[k] = None
    /\ LET user == IF session[p] = NoSession THEN k ELSE session[p].user IN
        /\ session' = [session EXCEPT ![p] = [user |-> user, key |-> k]]
        /\ owner' = [owner EXCEPT ![k] = user]
    /\ since' = [since EXCEPT ![k] = now]
    /\ seen' = [seen EXCEPT ![p] = Normalized(file)]
    /\ Begin(p, "auth", "storing")
    /\ UNCHANGED <<storeVars, now, undated>>

\* "start" clears the session (clear_auth), "metadata" means to keep it.
WriteMetadata(p, o) ==
    /\ p \in Daemon
    /\ step[p] = "ready"
    /\ seen' = [seen EXCEPT ![p] = Normalized(file)]
    /\ Begin(p, o, "storing")
    /\ UNCHANGED <<storeVars, session, now, authVars>>

\* The keychain command, if any.
StoreKey(p) ==
    /\ step[p] = "storing"
    /\ \/ /\ op[p] = "auth" /\ KeychainSupported
          /\ keychain' = [keychain EXCEPT ![session[p].user] = session[p].key]
       \/ /\ op[p] = "auth" /\ ~KeychainSupported
          /\ UNCHANGED keychain
       \/ /\ op[p] # "auth"
          /\ IF InKeychain(seen[p]) THEN DeleteKey(seen[p].user) ELSE UNCHANGED keychain
    /\ Goto(p, "renaming")
    /\ UNCHANGED <<file, seen, session, now, authVars>>

\* write_shared_key, or writing the temporary file, failed: the operation ends.
WriteFails(p) ==
    /\ Faults
    /\ \/ step[p] = "storing" /\ op[p] = "auth" /\ KeychainSupported
       \/ step[p] = "renaming"
    /\ Finish(p)
    /\ UNCHANGED <<storeVars, session, now, authVars>>

AuthFile(p) ==
    [user |-> session[p].user,
     key |-> IF KeychainSupported THEN None ELSE session[p].key,
     source |-> IF KeychainSupported THEN "keychain" ELSE "file",
     format |-> "v1",
     created |-> now]

\* Mutant: the user is taken from the first read, the key from a second one.
MetadataFileTorn(p) ==
    [seen[p] EXCEPT !.key = file.key,
                    !.format = "v1",
                    !.source = IF @ = "none" THEN "file" ELSE @]

\* Mutant: a metadata write does not carry the key over.
MetadataFileBare(p) ==
    [seen[p] EXCEPT !.key = None,
                    !.format = "v1",
                    !.source = IF @ = "none" THEN "file" ELSE @]

\* created_at stays that of the file that was read.
MetadataFile(p) ==
    [seen[p] EXCEPT !.created = IF seen[p].source = "none" THEN now ELSE @,
                    !.format = "v1",
                    !.source = IF @ = "none" THEN "file" ELSE @]

StartFile ==
    [user |-> None, key |-> None, source |-> "file", format |-> "v1", created |-> now]

RenameFile(p) ==
    /\ step[p] = "renaming"
    /\ \/ op[p] = "auth"     /\ file' = AuthFile(p)
       \/ op[p] = "metadata" /\ file' = MetadataFile(p)
       \/ op[p] = "start"    /\ file' = StartFile
    /\ IF op[p] = "metadata" /\ seen[p].format = "undated"
       THEN /\ since' = [since EXCEPT ![seen[p].key] = now]
            /\ undated' = undated \ {seen[p].key}
       ELSE UNCHANGED <<since, undated>>
    /\ Finish(p)
    /\ UNCHANGED <<keychain, session, now, owner>>

-----------------------------------------------------------------------------
\* A process ends; at any step of an operation, if there are faults.
Exit(p) ==
    /\ \/ step[p] = "ready"
       \/ Faults /\ step[p] # "exited"
    /\ Leave(p, "exited")
    /\ Hold(p, None, None)
    /\ UNCHANGED <<storeVars, now, authVars>>

\* An operation takes no time on the scale of the expiry.
Tick ==
    /\ now < MaxTime
    /\ \A p \in Process : step[p] \in {"exited", "ready"}
    /\ now' = now + 1
    /\ UNCHANGED <<storeVars, step, op, seen, session, authVars>>

Next ==
    \/ Tick
    \/ \E p \in Process :
        \/ ReadFile(p) \/ ReadUser(p) \/ LookUpKey(p) \/ ReadStale(p)
        \/ LogOut(p) \/ ClearRead(p) \/ ClearKey(p) \/ RemoveFile(p)
        \/ \E k \in Key : Authenticate(p, k)
        \/ \E o \in {"metadata", "start"} : WriteMetadata(p, o)
        \/ StoreKey(p) \/ RenameFile(p) \/ WriteFails(p)
        \/ Exit(p)

Spec == Init /\ [][Next]_vars

-----------------------------------------------------------------------------
(* Properties.                                                              *)

\* A process never holds a user and a key that were not established together,
\* however reads, writes and clears of several processes and their crashes
\* interleave: the key comes from the keychain item of the user that was read,
\* or from the file it was read in.
WholeSession ==
    \A p \in Process : session[p] # NoSession =>
        /\ session[p].user # None /\ session[p].key # None
        /\ owner[session[p].key] = session[p].user

\* What it rests on: every pair in the store is whole, and so is what was read.
WholeConfig(config) ==
    /\ config.key # None => config.user # None /\ owner[config.key] = config.user
    /\ config.source = "keychain" => config.key = None
    /\ config.source = "none" => config = NoFile
    /\ config.format # "v1" => config.source = "file" /\ config.key # None

WholeStore ==
    /\ WholeConfig(file)
    /\ \A p \in Process : WholeConfig(seen[p])
    /\ \A user \in Key : keychain[user] # None => owner[keychain[user]] = user
    /\ \A p \in Process : step[p] = "lookup" => InKeychain(seen[p])
    /\ \A p \in Process : op[p] = "auth" => session[p] # NoSession

\* And a config is never younger than the session a reader finds through it, unless
\* it has no date.
NotYounger(config) ==
    /\ config.created <= now
    /\ config.key # None => config.key \in undated \/ config.created <= since[config.key]
    /\ InKeychain(config) /\ keychain[config.user] # None =>
          config.created <= since[keychain[config.user]]

AgeOK ==
    /\ NotYounger(file)
    /\ file.format = "undated" => file.key \in undated
    /\ \A p \in Process : NotYounger(seen[p])
    /\ \A k \in Key : since[k] <= now
    /\ \A p \in Process :
          /\ step[p] \in {"exited", "ready"} => op[p] = "none"
          /\ step[p] = "lookup" => ~Stale(seen[p])
          /\ op[p] = "auth" =>
                /\ step[p] \in {"storing", "renaming"}
                /\ since[session[p].key] = now
                /\ LET stored == keychain[session[p].user] IN
                      KeychainSupported /\ step[p] = "renaming" /\ stored # None =>
                          since[stored] = now

StoreInv == TypeOK /\ WholeSession /\ WholeStore /\ AgeOK

\* No read returns a session older than SESSION_MAX_AGE_MS: nothing that is
\* written to the store without authenticating makes a session younger.  A session
\* of a file without createdAt has no age until a metadata write dates it, and that
\* is once: from then on it expires like any other.
NeverExtended ==
    [][\A p \in Process : session'[p] # session[p] /\ session'[p] # NoSession =>
          \/ session'[p].key \in undated
          \/ now - since'[session'[p].key] <= MaxAge]_vars

\* What a read_config that met nobody else would return now.
StoredSession ==
    IF InKeychain(file)
    THEN [user |-> file.user, key |-> keychain[file.user]]
    ELSE [user |-> file.user, key |-> file.key]

\* write_config without user and key keeps the session of the file it read, if
\* the file was not replaced meanwhile.
MetadataKeepsSession ==
    [][\A d \in Daemon :
          op[d] = "metadata" /\ step'[d] # step[d] /\ seen[d] = Normalized(file) =>
              StoredSession' = StoredSession]_vars
=============================================================================
