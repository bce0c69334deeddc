-------------------------------- MODULE Sites --------------------------------
(***************************************************************************)
(* Which tenant a command talks to and which store file it uses: the       *)
(* multi-site wrapper sites/swc, the start of the CLI (root.go, config.Load)*)
(* and the choice of data-<hash of token>.db or data.db (cli/helpers.go),  *)
(* beside the logins of Credentials.                                       *)
(*                                                                         *)
(* A command is a process of one run: a wrapper of one site, or the CLI    *)
(* alone with the stored credentials.  It is `sync` (stores the host's     *)
(* rows), a local read, or `import` of the records 1..Records.  A killed   *)
(* one takes no more steps: it holds nothing that outlives it.  A wrapper  *)
(* caches the site's token in .token.json and reruns the whole command     *)
(* once with a new one when a failure reads like an expired token.         *)
(* A store file is the set of tenants whose rows it holds; the hash of a   *)
(* token is the token.  The server accepts a token of its own tenant until *)
(* it expires.  `cast` is the processes that run in a behaviour, what its  *)
(* commands are, and what it finds stored.                                 *)
(* Left out: --db, --home, --dry-run, the store's contents and versions.   *)
(***************************************************************************)
EXTENDS Credentials

CONSTANTS
    Commands, SiteFor,  \* the wrapper's site; None: no wrapper
    Shared,             \* data.db
    Blank,              \* a truncated .token.json
    Records,            \* records of the imported file
    Casts

ASSUME CastAssumption ==
    /\ SiteFor \in [Commands -> Sites \cup {None}]
    /\ Shared \notin Tokens \cup {None}
    /\ Blank \notin Tokens \cup {None}
    /\ Records \in Nat
    /\ Casts \subseteq [who : SUBSET (Commands \cup Logins),
                     ops : SUBSET {"sync", "read", "import"},
                     creds : SUBSET (Tokens \cup {None}),
                     held : SUBSET SUBSET Sites]

VARIABLES
    cast,
    issued, expired,     \* tokens the servers gave out, and refuse again
    tokenFile, fresh,    \* .token.json of a site; younger than TOKEN_TTL
    exist, rows, owner,  \* store files; data.db.owner
    homes,               \* history: files a credential's rows were stored in
    cpc, cmd             \* commands

tokenVars == <<issued, expired, tokenFile, fresh>>
storeVars == <<exist, rows, owner, homes>>
vars == <<credVars, cast, tokenVars, storeVars, cpc, cmd>>

Files == Tokens \cup {Shared}

Points == {"idle", "cat", "fetch", "truncate", "put", "scope", "host", "bearer",
           "choose", "legacy", "marker", "claim", "open", "sync", "post", "failed",
           "read", "shown", "over"}

\* stored, because: history, the credentials file when the store was named
\* and why the command's guarantees may be void.
NoCmd == [op |-> "sync", again |-> FALSE, env |-> None,
          scope |-> None, stored |-> None, host |-> None, bearer |-> None, file |-> None,
          seen |-> {}, record |-> 1, posts |-> [r \in 1..Records |-> 0], bad |-> "no",
          because |-> {}]

Init ==
    /\ CredInit
    /\ cast \in Casts
    /\ creds \in cast.creds
    /\ issued = IF creds = None THEN {} ELSE {creds}
    /\ expired = {}
    /\ tokenFile = [s \in Sites |-> None]
    /\ fresh = [s \in Sites |-> FALSE]
    /\ \E held \in cast.held :  \* a data.db of an old binary
          /\ exist = IF held = {} THEN {} ELSE {Shared}
          /\ rows = [f \in Files |-> IF f = Shared THEN held ELSE {}]
    /\ owner = None
    /\ homes = [t \in Tokens |-> {}]
    /\ cpc = [c \in Commands |-> "idle"]
    /\ cmd = [c \in Commands |-> NoCmd]

-----------------------------------------------------------------------------
At(c, p) == c \in cast.who /\ cpc[c] = p

Goto(c, p) == cpc' = [cpc EXCEPT ![c] = p]

Wrapped(c) == SiteFor[c] # None

Ends(c) ==
    /\ Goto(c, "over")
    /\ cmd' = [cmd EXCEPT ![c] = NoCmd]

\* The environment decides, then the credentials file (config.Load).
Credential(c) == IF cmd[c].env # None THEN cmd[c].env ELSE creds

Accepted(c) ==
    /\ cmd[c].bearer \in Tokens \ expired
    /\ SiteOf[cmd[c].bearer] = cmd[c].host

-----------------------------------------------------------------------------
(* sites/swc.                                                               *)

\* token_age; --refresh fetches anyway.
Start(c) ==
    /\ At(c, "idle")
    /\ \E o \in cast.ops : cmd' = [cmd EXCEPT ![c].op = o]
    /\ \/ ~Wrapped(c) /\ Goto(c, "scope")
       \/ Wrapped(c) /\ fresh[SiteFor[c]] /\ Goto(c, "cat")
       \/ Wrapped(c) /\ Goto(c, "fetch")
    /\ UNCHANGED <<credVars, cast, tokenVars, storeVars>>

\* cat: an empty file gives an empty token, which the CLI takes for none.
Cat(c) ==
    /\ At(c, "cat")
    /\ LET t == tokenFile[SiteFor[c]]
       IN cmd' = [cmd EXCEPT ![c].env = IF t = Blank THEN None ELSE t,
                             ![c].because = IF t = Blank THEN {"blank"} ELSE {}]
    /\ Goto(c, "scope")
    /\ UNCHANGED <<credVars, cast, tokenVars, storeVars>>

\* fetch_token: POST /auth/token.  A failure ends the wrapper, but under the
\* set +e of the rerun it only leaves the token empty.
Fetch(c) ==
    /\ At(c, "fetch")
    /\ \/ /\ \E t \in {u \in Tokens : SiteOf[u] = SiteFor[c]} \ issued :
                /\ issued' = issued \cup {t}
                /\ cmd' = [cmd EXCEPT ![c].env = t]
          /\ Goto(c, "truncate")
       \/ ~cmd[c].again /\ Ends(c) /\ UNCHANGED issued
       \/ /\ cmd[c].again
          /\ cmd' = [cmd EXCEPT ![c].env = None, ![c].because = @ \cup {"blank"}]
          /\ Goto(c, "scope")
          /\ UNCHANGED issued
    /\ UNCHANGED <<credVars, cast, expired, tokenFile, fresh, storeVars>>

Truncate(c) ==
    /\ At(c, "truncate")
    /\ tokenFile' = [tokenFile EXCEPT ![SiteFor[c]] = Blank]
    /\ fresh' = [fresh EXCEPT ![SiteFor[c]] = TRUE]
    /\ Goto(c, "put")
    /\ UNCHANGED <<credVars, cast, issued, expired, storeVars, cmd>>

Put(c) ==
    /\ At(c, "put")
    /\ tokenFile' = [tokenFile EXCEPT ![SiteFor[c]] = cmd[c].env]
    /\ fresh' = [fresh EXCEPT ![SiteFor[c]] = TRUE]
    /\ Goto(c, "scope")
    /\ UNCHANGED <<credVars, cast, issued, expired, storeVars, cmd>>

Again(c, why) ==
    /\ cmd' = [cmd EXCEPT ![c] = [NoCmd EXCEPT !.op = cmd[c].op, !.again = TRUE,
                                               !.posts = cmd[c].posts, !.because = why]]
    /\ Goto(c, "fetch")

\* Mutant: the run is repeated whatever it failed of.
RerunAny(c) ==
    /\ At(c, "failed")
    /\ \/ (~Wrapped(c) \/ cmd[c].again) /\ Ends(c)
       \/ Wrapped(c) /\ ~cmd[c].again /\ Again(c, {})
    /\ UNCHANGED <<credVars, cast, tokenVars, storeVars>>

\* The wrapper greps the output of a failed run for signs of a refused token;
\* a run that failed for another reason may show one too.
Rerun(c) ==
    /\ At(c, "failed")
    /\ \/ (Wrapped(c) /\ ~cmd[c].again => cmd[c].bad # "token") /\ Ends(c)
       \/ /\ Wrapped(c) /\ ~cmd[c].again
          /\ Again(c, IF cmd[c].bad = "token" THEN {"expired"} ELSE {"stray"})
    /\ UNCHANGED <<credVars, cast, tokenVars, storeVars>>

-----------------------------------------------------------------------------
(* The CLI starts: one Load names the store, a second one makes the client. *)

\* Mutant: the store is named after the stored credential.
ScopeStored(c) ==
    /\ At(c, "scope")
    /\ cmd' = [cmd EXCEPT ![c].scope = creds, ![c].stored = creds]
    /\ Goto(c, IF cmd[c].op = "read" THEN "choose" ELSE "host")
    /\ UNCHANGED <<credVars, cast, tokenVars, storeVars>>

\* configureDefaultDBScope.
Scope(c) ==
    /\ At(c, "scope")
    /\ cmd' = [cmd EXCEPT ![c].scope = Credential(c), ![c].stored = creds]
    /\ Goto(c, IF cmd[c].op = "read" THEN "choose" ELSE "host")
    /\ UNCHANGED <<credVars, cast, tokenVars, storeVars>>

\* newClient, config.Load: config.toml, unless the wrapper exports the host.
Host(c) ==
    /\ At(c, "host")
    /\ cmd' = [cmd EXCEPT ![c].host = IF Wrapped(c) THEN SiteFor[c] ELSE base]
    /\ Goto(c, "bearer")
    /\ UNCHANGED <<credVars, cast, tokenVars, storeVars>>

\* ... then credentials.toml, which a login may have replaced since Scope.
Bearer(c) ==
    /\ At(c, "bearer")
    /\ cmd' = [cmd EXCEPT ![c].bearer = Credential(c), ![c].stored = None]
    /\ causes' = IF cmd[c].env = None /\ creds # cmd[c].stored
                 THEN causes \cup {"moved"} ELSE causes
    /\ Goto(c, IF cmd[c].op = "import" THEN "post" ELSE "choose")
    /\ UNCHANGED <<fileVars, loginVars, cast, tokenVars, storeVars>>

Opens(c, file) ==
    /\ cmd' = [cmd EXCEPT ![c].file = file]
    /\ Goto(c, IF cmd[c].op = "read" THEN "read" ELSE "open")

\* Mutant: data.db is asked for first.
ChooseLegacy(c) ==
    /\ At(c, "choose")
    /\ \/ cmd[c].scope = None /\ Opens(c, Shared)
       \/ cmd[c].scope # None /\ Goto(c, "legacy") /\ UNCHANGED cmd
    /\ UNCHANGED <<credVars, cast, tokenVars, storeVars>>

\* defaultDBPathInDir: a store named after the credential is used if it is
\* there; no credential means data.db.
Choose(c) ==
    /\ At(c, "choose")
    /\ \/ cmd[c].scope = None /\ Opens(c, Shared)
       \/ cmd[c].scope \in exist /\ Opens(c, cmd[c].scope)
       \/ cmd[c].scope \in Tokens \ exist /\ Goto(c, "legacy") /\ UNCHANGED cmd
    /\ UNCHANGED <<credVars, cast, tokenVars, storeVars>>

\* ... then an existing data.db is asked for.
Legacy(c) ==
    /\ At(c, "legacy")
    /\ \/ Shared \notin exist /\ Opens(c, cmd[c].scope)
       \/ Shared \in exist /\ Goto(c, "marker") /\ UNCHANGED cmd
    /\ UNCHANGED <<credVars, cast, tokenVars, storeVars>>

\* Mutant: an owned data.db is anyone's.
DecidesShared(c) == Opens(c, Shared)

\* claimLegacyUnscopedDB: the marker says whose data.db is.
Decides(c) ==
    Opens(c, IF owner = cmd[c].scope THEN Shared ELSE cmd[c].scope)

Marker(c) ==
    /\ At(c, "marker")
    /\ \/ owner # None /\ Decides(c)
       \/ owner = None /\ Goto(c, "claim") /\ UNCHANGED cmd
    /\ UNCHANGED <<credVars, cast, tokenVars, storeVars>>

\* The new owner takes over the rows the file holds.
Inherits(c) ==
    causes' = IF rows[Shared] \subseteq {SiteOf[cmd[c].scope]} THEN causes
              ELSE causes \cup {"inherited"}

\* Mutant: the marker is renamed into place, over another's.
ClaimOver(c) ==
    /\ At(c, "claim")
    /\ owner' = cmd[c].scope /\ Inherits(c)
    /\ Opens(c, Shared)
    /\ UNCHANGED <<fileVars, loginVars, cast, tokenVars, exist, rows, homes>>

\* The marker is published with a hard link: the first one wins, a loser reads
\* it again, and any other failure leaves the file shared.
Claim(c) ==
    /\ At(c, "claim")
    /\ \/ owner = None /\ owner' = cmd[c].scope /\ Inherits(c) /\ Opens(c, Shared)
       \/ owner # None /\ Decides(c) /\ UNCHANGED <<owner, causes>>
       \/ Opens(c, Shared) /\ causes' = causes \cup {"declined"} /\ UNCHANGED owner
    /\ UNCHANGED <<fileVars, loginVars, cast, tokenVars, exist, rows, homes>>

\* A command whose choice does not know of the data.db being created: it found
\* none, or has yet to look for one since it found no store of its own.
Committed(c) ==
    \/ cpc[c] = "open" /\ cmd[c].file \notin exist \cup {Shared}
    \/ cpc[c] = "legacy"

\* sync opens, and so creates, its store before it sends anything.
Open(c) ==
    /\ At(c, "open")
    /\ exist' = exist \cup {cmd[c].file}
    /\ causes' = IF Shared \in exist' \ exist /\ \E e \in Commands : Committed(e)
                 THEN causes \cup {"appeared"} ELSE causes
    /\ Goto(c, "sync")
    /\ UNCHANGED <<fileVars, loginVars, cast, tokenVars, rows, owner, homes, cmd>>

Fails(c) ==
    /\ cmd' = [cmd EXCEPT ![c].bad = "token"]
    /\ Goto(c, "failed")

\* sync: the host's rows are stored, or the host refuses the token.
Sync(c) ==
    /\ At(c, "sync")
    /\ \/ /\ Accepted(c)
          /\ rows' = [rows EXCEPT ![cmd[c].file] = @ \cup {cmd[c].host}]
          /\ homes' = IF cmd[c].scope = None THEN homes
                      ELSE [homes EXCEPT ![cmd[c].scope] = @ \cup {cmd[c].file}]
          /\ Ends(c)
       \/ ~Accepted(c) /\ Fails(c) /\ UNCHANGED <<rows, homes>>
    /\ UNCHANGED <<credVars, cast, tokenVars, exist, owner>>

\* openStoreForRead: no file, nothing to show.
Read(c) ==
    /\ At(c, "read")
    /\ \/ /\ cmd[c].file \in exist
          /\ cmd' = [cmd EXCEPT ![c].seen = rows[cmd[c].file]]
          /\ Goto(c, "shown")
       \/ cmd[c].file \notin exist /\ Ends(c)
    /\ UNCHANGED <<credVars, cast, tokenVars, storeVars>>

\* import posts record after record.  A refused token ends the batch; a record
\* that fails for another reason is skipped, and fails the command at its end.
Post(c) ==
    /\ At(c, "post")
    /\ cmd[c].record <= Records
    /\ LET r == cmd[c].record
       IN \/ /\ Accepted(c)
             /\ \/ cmd' = [cmd EXCEPT ![c].posts[r] = @ + 1, ![c].record = r + 1]
                \/ cmd' = [cmd EXCEPT ![c].bad = "other", ![c].record = r + 1]
             /\ UNCHANGED cpc
          \/ ~Accepted(c) /\ Fails(c)
    /\ UNCHANGED <<credVars, cast, tokenVars, storeVars>>

Imported(c) ==
    /\ At(c, "post") /\ cmd[c].record > Records
    /\ \/ cmd[c].bad = "no" /\ Ends(c)
       \/ cmd[c].bad # "no" /\ Goto(c, "failed") /\ UNCHANGED cmd
    /\ UNCHANGED <<credVars, cast, tokenVars, storeVars>>

CommandStep(c) ==
    \/ Start(c) \/ Cat(c) \/ Fetch(c) \/ Truncate(c) \/ Put(c) \/ Rerun(c)
    \/ Scope(c) \/ Host(c) \/ Bearer(c)
    \/ Choose(c) \/ Legacy(c) \/ Marker(c) \/ Claim(c) \/ Open(c)
    \/ Sync(c) \/ Read(c) \/ Post(c) \/ Imported(c)

\* TOKEN_TTL passes for a cached token, and the server's own limit.
Age(s) ==
    /\ fresh[s]
    /\ fresh' = [fresh EXCEPT ![s] = FALSE]
    /\ UNCHANGED <<credVars, cast, issued, expired, tokenFile, storeVars, cpc, cmd>>

Expire(t) ==
    /\ t \in issued \ expired
    /\ expired' = expired \cup {t}
    /\ UNCHANGED <<credVars, cast, issued, tokenFile, fresh, storeVars, cpc, cmd>>

Next ==
    \/ \E l \in Logins : l \in cast.who /\ LoginStep(l)
                         /\ UNCHANGED <<cast, tokenVars, storeVars, cpc, cmd>>
    \/ \E c \in Commands : CommandStep(c)
    \/ \E s \in Sites : Age(s)
    \/ \E t \in Tokens : Expire(t)

Spec == Init /\ [][Next]_vars

-----------------------------------------------------------------------------
(* Properties.                                                              *)

TypeOK ==
    /\ CredTypeOK
    /\ issued \subseteq Tokens /\ expired \subseteq issued
    /\ tokenFile \in [Sites -> Tokens \cup {None, Blank}] /\ fresh \in [Sites -> BOOLEAN]
    /\ \A s \in Sites :
          /\ fresh[s] => tokenFile[s] # None
          /\ tokenFile[s] \in Tokens => SiteOf[tokenFile[s]] = s
    /\ exist \subseteq Files /\ rows \in [Files -> SUBSET Sites]
    /\ \A f \in Files : rows[f] # {} => f \in exist
    /\ owner \in Tokens \cup {None} /\ homes \in [Tokens -> SUBSET Files]
    /\ owner # None => Shared \in exist
    /\ cpc \in [Commands -> Points]
    /\ \A c \in Commands : cpc[c] \in {"idle", "over"} => cmd[c] = NoCmd

\* A store named after a credential holds rows of that credential's tenant
\* only, and so does data.db once a credential owns it.  The exceptions: a
\* login replaced the stored token between the Load that named the store and
\* the Load that made the client; data.db held other tenants' rows when it was
\* claimed; a claim failed and its command shared the file
\* (configureDefaultDBScope, newClient, claimLegacyUnscopedDB).
StoresArePure ==
    /\ "moved" \notin causes => \A t \in Tokens : rows[t] \subseteq {SiteOf[t]}
    /\ owner # None /\ causes \cap {"moved", "inherited", "declined"} = {} =>
          rows[Shared] \subseteq {SiteOf[owner]}

\* Two credentials never both use data.db: a command that has settled on it
\* with a credential is its owner's, however the claims raced, unless a claim
\* failed for a reason other than a lost race (claimLegacyUnscopedDB).
ClaimHolds ==
    "declined" \notin causes =>
        \A c \in Commands :
            cmd[c].file = Shared /\ cmd[c].scope # None => owner = cmd[c].scope

\* A local read shows only rows of the tenant it was asked for: the wrapper's
\* site, else that of the stored token.  The exceptions are those of
\* StoresArePure, and a wrapper that ran with no token because .token.json was
\* read while another one was writing it, or because the refetch of a rerun
\* failed (run_cli, openStoreForRead).
ReadsOwnSite ==
    causes \cap {"moved", "inherited", "declined"} = {} =>
        \A c \in Commands :
            /\ cpc[c] = "shown" /\ "blank" \notin cmd[c].because
            /\ Wrapped(c) \/ cmd[c].scope # None
            => cmd[c].seen \subseteq {IF Wrapped(c) THEN SiteFor[c] ELSE SiteOf[cmd[c].scope]}

\* The rows one credential stores end up in one file, whatever else is claimed
\* or created, unless a claim failed, or a command without a credential created
\* data.db while another one was between looking for its own store and opening
\* it: the files are looked for one after the other (defaultDBPathInDir).
OneStore ==
    causes \cap {"declined", "appeared"} = {} =>
        \A t \in Tokens : Cardinality(homes[t]) <= 1

\* An import posts a record a second time only in the one rerun, and only when
\* the token was refused in the middle of the first run or an unrelated failure
\* read like that (swc, newImportCmd).
RepeatsExplained ==
    \A c \in Commands : \A r \in 1..Records :
        /\ cmd[c].posts[r] <= 2
        /\ cmd[c].posts[r] = 2 =>
              cmd[c].again /\ cmd[c].because \cap {"expired", "stray"} # {}
=============================================================================
