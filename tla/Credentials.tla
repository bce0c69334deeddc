----------------------------- MODULE Credentials -----------------------------
(***************************************************************************)
(* config.toml and credentials.toml of one home: auth set-token and auth   *)
(* logout (internal/cli/auth.go, internal/config, internal/cliutil), each  *)
(* a process of its own.                                                   *)
(*                                                                         *)
(* A login replaces both files under the lock of credentials.toml and puts *)
(* the first back when the second fails.  A logout takes no lock.          *)
(* A file is its one value that matters here: base_url, and the token.     *)
(* The exported SWERPICOMMERCE_BASE_URL, which the README has the user set *)
(* before a login, overrides base_url and is saved with it.                *)
(* Left out: the legacy config path, agentcookie, files whose permissions  *)
(* are refused, credentials written by hand.                               *)
(***************************************************************************)
EXTENDS Naturals, FiniteSets

CONSTANTS
    Sites,      \* tenants: a host, and its rows
    Tokens,     \* access tokens
    SiteOf,     \* the tenant that accepts a token
    Logins,     \* set-token and logout processes
    None        \* no value

ASSUME SiteAssumption == SiteOf \in [Tokens -> Sites] /\ None \notin Tokens \cup Sites \cup Logins

VARIABLES
    base,     \* base_url of config.toml; None: the placeholder
    creds,    \* token of credentials.toml; None: no such file
    lock,     \* who holds credentials.toml.lock
    lpc, login,
    causes    \* history: why the guarantees below may be void

fileVars  == <<base, creds>>
loginVars == <<lock, lpc, login>>
credVars  == <<fileVars, loginVars, causes>>

NoLogin == [token |-> None, base |-> None, snap |-> None]

LoginPoints == {"idle", "load", "write", "config", "restore", "remove", "save", "over"}

\* What can leave the pair of files inconsistent.
PairCauses == {"overlap", "killed", "unrestored"}

CredTypeOK ==
    /\ base \in Sites \cup {None} /\ creds \in Tokens \cup {None}
    /\ lock \in Logins \cup {None}
    /\ lpc \in [Logins -> LoginPoints]
    /\ login \in [Logins -> [token : Tokens \cup {None}, base : Sites \cup {None},
                             snap : Tokens \cup {None}]]
    /\ \A l \in Logins : lpc[l] \in {"write", "config", "restore"} <=> lock = l

CredInit ==
    /\ \E t \in Tokens \cup {None} :
          creds = t /\ base = IF t = None THEN None ELSE SiteOf[t]
    /\ lock = None
    /\ lpc = [l \in Logins |-> "idle"]
    /\ login = [l \in Logins |-> NoLogin]
    /\ causes = {}

-----------------------------------------------------------------------------
LoggingOut(l) == lpc[l] \in {"remove", "save"}

Others(l) == {m \in Logins \ {l} : lpc[m] \notin {"idle", "over"}}

LoginEnds(l) ==
    /\ lpc' = [lpc EXCEPT ![l] = "over"]
    /\ login' = [login EXCEPT ![l] = NoLogin]
    /\ lock' = IF lock = l THEN None ELSE lock

\* auth set-token: the loaded config carries the exported URL.
SetToken(l, t) ==
    /\ lpc[l] = "idle"
    /\ login' = [login EXCEPT ![l] = [token |-> t, base |-> SiteOf[t], snap |-> None]]
    /\ lpc' = [lpc EXCEPT ![l] = "load"]
    /\ causes' = IF \E m \in Others(l) : LoggingOut(m)
                 THEN causes \cup {"overlap"} ELSE causes
    /\ UNCHANGED <<fileVars, lock>>

\* Mutant: the lock is not waited for.
LockBusy(l) ==
    /\ lpc[l] = "load"
    /\ lock' = l
    /\ login' = [login EXCEPT ![l].snap = creds]
    /\ lpc' = [lpc EXCEPT ![l] = "write"]
    /\ UNCHANGED <<fileVars, causes>>

\* saveCredentialsThenConfig, WithFileLock: then snapshotCredentialsFile.
Lock(l) ==
    /\ lpc[l] = "load" /\ lock = None
    /\ lock' = l
    /\ login' = [login EXCEPT ![l].snap = creds]
    /\ lpc' = [lpc EXCEPT ![l] = "write"]
    /\ UNCHANGED <<fileVars, causes>>

\* saveCredentialsFirst, an atomic replacement that may fail.
WriteCreds(l) ==
    /\ lpc[l] = "write"
    /\ \/ /\ creds' = login[l].token
          /\ lpc' = [lpc EXCEPT ![l] = "config"]
          /\ UNCHANGED <<lock, login>>
       \/ LoginEnds(l) /\ UNCHANGED creds
    /\ UNCHANGED <<base, causes>>

\* save: the login succeeded.  One that had the files to itself makes them
\* whole again.
WriteConfig(l) ==
    /\ lpc[l] = "config"
    /\ base' = login[l].base
    /\ LoginEnds(l)
    /\ causes' = IF Others(l) = {} THEN causes \ PairCauses ELSE causes
    /\ UNCHANGED creds

ConfigFails(l) ==
    /\ lpc[l] = "config"
    /\ lpc' = [lpc EXCEPT ![l] = "restore"]
    /\ UNCHANGED <<fileVars, lock, login, causes>>

\* Mutant: the failed login keeps its token.
RestoreNothing(l) ==
    /\ lpc[l] = "restore"
    /\ LoginEnds(l)
    /\ UNCHANGED <<fileVars, causes>>

\* restoreCredentialsFile, which may fail too.
Restore(l) ==
    /\ lpc[l] = "restore"
    /\ \/ creds' = login[l].snap /\ UNCHANGED causes
       \/ creds' = creds /\ causes' = causes \cup {"unrestored"}
    /\ LoginEnds(l)
    /\ UNCHANGED base

\* auth logout: Load, then ClearTokens outside any lock.
Logout(l) ==
    /\ lpc[l] = "idle"
    /\ login' = [login EXCEPT ![l].base = base]
    /\ lpc' = [lpc EXCEPT ![l] = "remove"]
    /\ causes' = IF Others(l) # {} THEN causes \cup {"overlap"} ELSE causes
    /\ UNCHANGED <<fileVars, lock>>

\* RemoveCredentials.
Remove(l) ==
    /\ lpc[l] = "remove"
    /\ \/ creds' = None /\ lpc' = [lpc EXCEPT ![l] = "save"]
          /\ UNCHANGED <<lock, login>>
       \/ LoginEnds(l) /\ UNCHANGED creds
    /\ UNCHANGED <<base, causes>>

\* save of the config the logout loaded.
SaveLoggedOut(l) ==
    /\ lpc[l] = "save"
    /\ \/ base' = login[l].base
       \/ UNCHANGED base
    /\ LoginEnds(l)
    /\ UNCHANGED <<creds, causes>>

\* The operating system frees the lock of a killed process.
KillLogin(l) ==
    /\ lpc[l] \notin {"idle", "over"}
    /\ LoginEnds(l)
    /\ causes' = IF lpc[l] \in {"config", "restore"}
                 THEN causes \cup {"killed"} ELSE causes
    /\ UNCHANGED fileVars

LoginStep(l) ==
    \/ \E t \in Tokens : SetToken(l, t)
    \/ Lock(l) \/ WriteCreds(l) \/ WriteConfig(l) \/ ConfigFails(l) \/ Restore(l)
    \/ Logout(l) \/ Remove(l) \/ SaveLoggedOut(l)
    \/ KillLogin(l)

-----------------------------------------------------------------------------
(* Properties.                                                              *)

\* The token a login has published is still there when it publishes the
\* config, whatever other logins do and however they fail; only a logout,
\* which takes no lock, can have removed it (saveCredentialsThenConfigLocked).
PublishedTokenStays ==
    \A l \in Logins :
        lpc[l] \in {"config", "restore"} => creds \in {login[l].token, None}

\* Between logins the stored token belongs to the stored host: a failed login
\* leaves the pair it found.  Else the next command would send one tenant's
\* token to another's host.  The exceptions last until a login has the files to
\* itself: a logout under a login (its save writes back the base_url it loaded
\* before), a kill between the two files, a rollback that failed
\* (saveCredentialsThenConfig, ClearTokens).
PairKept ==
    lock = None /\ causes \cap PairCauses = {} =>
        creds = None \/ base = SiteOf[creds]
=============================================================================
