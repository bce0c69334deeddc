----------------------------- MODULE Sites_proofs -----------------------------
(***************************************************************************)
(* Proofs about Sites and Credentials, for any set of tenants, tokens,     *)
(* commands and logins, and any cast of them:                              *)
(*   SitesTyped     the state keeps its shape;                             *)
(*   TokenStays, PairExplained                                             *)
(*                  what logins and logouts leave in the two files;        *)
(*   ClaimsHold, StoresStayPure, ReadsExplained, OneStoreEach              *)
(*                  which command uses which store, and what is in it;     *)
(*   RepeatsBounded how often an import posts a record.                    *)
(* CredInv is about the logins and CmdInv(c) about one command; what a     *)
(* command relies on of the shared state, that stores stay, that data.db   *)
(* keeps its owner and that a cause stays recorded, is SharedGrows.        *)
(***************************************************************************)
EXTENDS Sites, FiniteSetTheorems, TLAPS

-----------------------------------------------------------------------------
(* The logins.                                                              *)

\* A login carries a token and that token's host.
Carries(l) ==
    lpc[l] \in {"load", "write", "config", "restore"} =>
        login[l].token \in Tokens /\ login[l].base = SiteOf[login[l].token]

\* Without a recorded overlap a logout is alone.
Apart == "overlap" \notin causes => \A l \in Logins : LoggingOut(l) => Others(l) = {}

Paired(t) == t = None \/ base = SiteOf[t]

\* Without a recorded cause the pair is whole while nobody writes, and what
\* the holder of the lock would put back is whole while it writes.
PairInv ==
    causes \cap PairCauses = {} =>
        /\ lock = None => Paired(creds)
        /\ \A l \in Logins :
              /\ lpc[l] = "write" => creds = login[l].snap
              /\ lpc[l] \in {"write", "config", "restore"} => Paired(login[l].snap)
              /\ lpc[l] = "save" => creds = None

CredInv ==
    /\ CredTypeOK /\ PublishedTokenStays
    /\ \A l \in Logins : Carries(l)
    /\ Apart /\ PairInv

LoginRecords == [token : Tokens \cup {None}, base : Sites \cup {None}, snap : Tokens \cup {None}]

\* The logins alone, without the files.
LoginsTyped ==
    /\ lock \in Logins \cup {None}
    /\ lpc \in [Logins -> LoginPoints]
    /\ login \in [Logins -> LoginRecords]
    /\ \A l \in Logins : lpc[l] \in {"write", "config", "restore"} <=> lock = l

OthersSame(l) == \A k \in Logins \ {l} : lpc'[k] = lpc[k] /\ login'[k] = login[k]

\* CredTypeOK is about the files and about the logins.
LEMMA CredTyped ==
    CredTypeOK <=> LoginsTyped /\ base \in Sites \cup {None} /\ creds \in Tokens \cup {None}
BY DEF CredTypeOK, LoginsTyped, LoginRecords

\* At the start no login runs and the two files agree.
LEMMA CredInitially ==
    ASSUME CredInit PROVE CredInv
<1> USE SiteAssumption DEF CredInit
<1>1. NoLogin \in LoginRecords
    BY DEF NoLogin, LoginRecords
<1>2. LoginsTyped
    BY <1>1 DEF LoginsTyped, LoginPoints
<1>3. CredTypeOK
    BY <1>2, CredTyped
<1>4. PublishedTokenStays /\ (\A l \in Logins : Carries(l)) /\ Apart
    BY DEF PublishedTokenStays, Carries, Apart, LoggingOut
<1>5. PairInv
    BY DEF PairInv, Paired
<1> QED BY <1>3, <1>4, <1>5 DEF CredInv

\* A login that ends lets the lock go.
LEMMA LoginEnded ==
    ASSUME LoginsTyped, NEW l \in Logins, LoginEnds(l)
    PROVE  /\ LoginsTyped' /\ OthersSame(l)
           /\ lpc'[l] = "over" /\ lock' = IF lock = l THEN None ELSE lock
<1>1. NoLogin \in LoginRecords
    BY DEF NoLogin, LoginRecords
<1>2. login' \in [Logins -> LoginRecords] /\ lpc' \in [Logins -> LoginPoints]
    BY <1>1 DEF LoginsTyped, LoginEnds, LoginPoints
<1>3. OthersSame(l) /\ lpc'[l] = "over"
    BY DEF LoginsTyped, LoginEnds, OthersSame
<1>4. lock' \in Logins \cup {None} /\ (lock' = IF lock = l THEN None ELSE lock)
    BY DEF LoginsTyped, LoginEnds
<1>5. ASSUME NEW k \in Logins
      PROVE  lpc'[k] \in {"write", "config", "restore"} <=> lock' = k
    BY <1>3, SiteAssumption DEF LoginsTyped, LoginEnds, OthersSame
<1> QED BY <1>2, <1>3, <1>4, <1>5 DEF LoginsTyped

\* One that goes on takes the lock where the code does.
LEMMA LoginMoved ==
    ASSUME LoginsTyped, NEW l \in Logins, NEW q \in LoginPoints,
           lpc' = [lpc EXCEPT ![l] = q],
           login' \in [Logins -> LoginRecords], \A k \in Logins \ {l} : login'[k] = login[k],
           \/ /\ lock' = lock
              /\ q \in {"write", "config", "restore"} <=> lock = l
           \/ /\ lock = None /\ lock' = l
              /\ q \in {"write", "config", "restore"}
    PROVE  /\ LoginsTyped' /\ OthersSame(l) /\ lpc'[l] = q
BY SiteAssumption DEF LoginsTyped, OthersSame

\* What a step leaves of the login that takes it.
LEMMA LoginTyped ==
    ASSUME CredTypeOK, NEW l \in Logins, LoginStep(l)
    PROVE  CredTypeOK' /\ OthersSame(l)
<1> USE SiteAssumption
<1> DEFINE Typed == LoginsTyped /\ base \in Sites \cup {None} /\ creds \in Tokens \cup {None}
<1>a. Typed
    BY CredTyped
<1>1. ASSUME NEW t \in Tokens, SetToken(l, t) PROVE Typed' /\ OthersSame(l)
  <2>1. login' \in [Logins -> LoginRecords] /\ \A k \in Logins \ {l} : login'[k] = login[k]
    BY <1>1, <1>a DEF SetToken, LoginsTyped, LoginRecords
  <2>2. LoginsTyped' /\ OthersSame(l)
    BY <1>1, <1>a, <2>1, LoginMoved DEF SetToken, LoginsTyped, LoginPoints
  <2> QED BY <1>1, <1>a, <2>2 DEF SetToken, fileVars
<1>2. ASSUME Lock(l) PROVE Typed' /\ OthersSame(l)
  <2>1. login' \in [Logins -> LoginRecords] /\ \A k \in Logins \ {l} : login'[k] = login[k]
    BY <1>2, <1>a DEF Lock, LoginsTyped, LoginRecords
  <2>2. LoginsTyped' /\ OthersSame(l)
    BY <1>2, <1>a, <2>1, LoginMoved DEF Lock, LoginsTyped, LoginPoints
  <2> QED BY <1>2, <1>a, <2>2 DEF Lock, fileVars
<1>3. ASSUME Logout(l) PROVE Typed' /\ OthersSame(l)
  <2>1. login' \in [Logins -> LoginRecords] /\ \A k \in Logins \ {l} : login'[k] = login[k]
    BY <1>3, <1>a DEF Logout, LoginsTyped, LoginRecords
  <2>2. LoginsTyped' /\ OthersSame(l)
    BY <1>3, <1>a, <2>1, LoginMoved DEF Logout, LoginsTyped, LoginPoints
  <2> QED BY <1>3, <1>a, <2>2 DEF Logout, fileVars
<1>4. ASSUME ConfigFails(l) PROVE Typed' /\ OthersSame(l)
  <2>1. LoginsTyped' /\ OthersSame(l)
    BY <1>4, <1>a, LoginMoved DEF ConfigFails, LoginsTyped, LoginPoints
  <2> QED BY <1>4, <1>a, <2>1 DEF ConfigFails, fileVars
<1>5. ASSUME WriteCreds(l) PROVE Typed' /\ OthersSame(l)
  <2>1. login[l].token \in Tokens \cup {None}
    BY <1>a DEF LoginsTyped, LoginRecords
  <2>2. CASE creds' = login[l].token /\ lpc' = [lpc EXCEPT ![l] = "config"]
             /\ UNCHANGED <<lock, login>>
    <3>1. LoginsTyped' /\ OthersSame(l)
      BY <1>5, <1>a, <2>2, LoginMoved DEF WriteCreds, LoginsTyped, LoginPoints
    <3> QED BY <1>5, <1>a, <2>1, <2>2, <3>1 DEF WriteCreds
  <2>3. CASE LoginEnds(l) /\ UNCHANGED creds
    BY <1>5, <1>a, <2>3, LoginEnded DEF WriteCreds
  <2> QED BY <1>5, <2>2, <2>3 DEF WriteCreds
<1>6. ASSUME WriteConfig(l) PROVE Typed' /\ OthersSame(l)
  <2>1. login[l].base \in Sites \cup {None}
    BY <1>a DEF LoginsTyped, LoginRecords
  <2> QED BY <1>6, <1>a, <2>1, LoginEnded DEF WriteConfig
<1>7. ASSUME Restore(l) PROVE Typed' /\ OthersSame(l)
  <2>1. login[l].snap \in Tokens \cup {None}
    BY <1>a DEF LoginsTyped, LoginRecords
  <2> QED BY <1>7, <1>a, <2>1, LoginEnded DEF Restore
<1>8. ASSUME Remove(l) PROVE Typed' /\ OthersSame(l)
  <2>1. CASE creds' = None /\ lpc' = [lpc EXCEPT ![l] = "save"] /\ UNCHANGED <<lock, login>>
    <3>1. LoginsTyped' /\ OthersSame(l)
      BY <1>8, <1>a, <2>1, LoginMoved DEF Remove, LoginsTyped, LoginPoints
    <3> QED BY <1>8, <1>a, <2>1, <3>1 DEF Remove
  <2>2. CASE LoginEnds(l) /\ UNCHANGED creds
    BY <1>8, <1>a, <2>2, LoginEnded DEF Remove
  <2> QED BY <1>8, <2>1, <2>2 DEF Remove
<1>9. ASSUME SaveLoggedOut(l) PROVE Typed' /\ OthersSame(l)
  <2>1. login[l].base \in Sites \cup {None}
    BY <1>a DEF LoginsTyped, LoginRecords
  <2> QED BY <1>9, <1>a, <2>1, LoginEnded DEF SaveLoggedOut
<1>10. ASSUME KillLogin(l) PROVE Typed' /\ OthersSame(l)
    BY <1>10, <1>a, LoginEnded DEF KillLogin, fileVars
<1>11. Typed' /\ OthersSame(l)
    BY <1>1, <1>2, <1>3, <1>4, <1>5, <1>6, <1>7, <1>8, <1>9, <1>10 DEF LoginStep
<1>12. CredTypeOK'
    BY <1>11 DEF CredTypeOK, LoginsTyped, LoginRecords
<1> QED BY <1>11, <1>12

\* Who carries what, and whose token is in the file.
LEMMA TokensKept ==
    ASSUME CredInv, CredTypeOK', NEW l \in Logins, LoginStep(l), OthersSame(l)
    PROVE  PublishedTokenStays' /\ \A k \in Logins : Carries(k)'
<1> USE SiteAssumption DEF CredInv, CredTypeOK, OthersSame
<1>1. ASSUME NEW k \in Logins \ {l} PROVE Carries(k)'
    BY <1>1 DEF Carries
<1>2. Carries(l)'
  <2>1. ASSUME NEW t \in Tokens, SetToken(l, t) PROVE Carries(l)'
    BY <2>1 DEF SetToken, Carries
  <2>2. CASE Lock(l)
    BY <2>2 DEF Lock, Carries
  <2>3. CASE ConfigFails(l) \/ WriteCreds(l)
    BY <2>3 DEF ConfigFails, WriteCreds, LoginEnds, Carries
  <2>4. CASE WriteConfig(l) \/ Restore(l) \/ SaveLoggedOut(l) \/ KillLogin(l)
    BY <2>4 DEF WriteConfig, Restore, SaveLoggedOut, KillLogin, LoginEnds, Carries
  <2>5. CASE Logout(l) \/ Remove(l)
    BY <2>5 DEF Logout, Remove, LoginEnds, Carries
  <2> QED BY <2>1, <2>2, <2>3, <2>4, <2>5 DEF LoginStep
<1>3. ASSUME NEW k \in Logins, lpc'[k] \in {"config", "restore"}
      PROVE  creds' \in {login'[k].token, None}
  <2> USE <1>3 DEF PublishedTokenStays, fileVars
  <2>1. ASSUME NEW t \in Tokens, SetToken(l, t) PROVE creds' \in {login'[k].token, None}
    BY <2>1 DEF SetToken
  <2>2. CASE Lock(l)
    BY <2>2 DEF Lock
  <2>3. CASE ConfigFails(l)
    BY <2>3 DEF ConfigFails
  <2>4. CASE WriteCreds(l)
    BY <2>4 DEF WriteCreds, LoginEnds
  <2>5. CASE WriteConfig(l) \/ Restore(l)
    BY <2>5 DEF WriteConfig, Restore, LoginEnds
  <2>6. CASE SaveLoggedOut(l) \/ KillLogin(l)
    BY <2>6 DEF SaveLoggedOut, KillLogin, LoginEnds
  <2>7. CASE Logout(l) \/ Remove(l)
    BY <2>7 DEF Logout, Remove, LoginEnds
  <2> QED BY <2>1, <2>2, <2>3, <2>4, <2>5, <2>6, <2>7 DEF LoginStep
<1> QED BY <1>1, <1>2, <1>3 DEF PublishedTokenStays

\* A step of a login that runs starts no other one.
LEMMA OthersShrink ==
    ASSUME CredTypeOK, CredTypeOK', NEW l \in Logins, OthersSame(l), lpc[l] \notin {"idle", "over"},
           NEW k \in Logins
    PROVE  Others(k)' \subseteq Others(k)
BY DEF Others, OthersSame

LEMMA ApartKept ==
    ASSUME CredInv, CredTypeOK', NEW l \in Logins, LoginStep(l), OthersSame(l)
    PROVE  Apart'
<1> USE SiteAssumption DEF CredInv, OthersSame
<1> SUFFICES ASSUME "overlap" \notin causes', NEW k \in Logins, LoggingOut(k)'
             PROVE  Others(k)' = {}
    BY DEF Apart
<1>1. ASSUME NEW t \in Tokens, SetToken(l, t) PROVE FALSE
  <2>1. k # l
    BY <1>1 DEF SetToken, LoggingOut, CredTypeOK
  <2>2. k \in Others(l) /\ LoggingOut(k)
    BY <2>1 DEF LoggingOut, Others
  <2> QED BY <1>1, <2>2 DEF SetToken
<1>2. CASE Logout(l)
  <2>1. Others(l) = {} /\ Others(l)' = {}
    BY <1>2 DEF Logout, Others
  <2>2. k = l
    BY <2>1 DEF Others, LoggingOut
  <2> QED BY <2>1, <2>2
<1>3. CASE Lock(l) \/ WriteCreds(l) \/ WriteConfig(l) \/ ConfigFails(l) \/ Restore(l)
           \/ Remove(l) \/ SaveLoggedOut(l) \/ KillLogin(l)
  <2>1. lpc[l] \notin {"idle", "over"}
    BY <1>3 DEF Lock, WriteCreds, WriteConfig, ConfigFails, Restore, Remove, SaveLoggedOut,
                KillLogin
  <2>2. Others(k)' \subseteq Others(k)
    BY <2>1, OthersShrink
  <2>3. LoggingOut(k)
    BY <1>3 DEF CredTypeOK, LoggingOut, Lock, WriteCreds, WriteConfig, ConfigFails, Restore,
                Remove, SaveLoggedOut, KillLogin, LoginEnds
  <2>4. CASE "overlap" \notin causes
    BY <2>2, <2>3, <2>4 DEF Apart
  <2>5. CASE "overlap" \in causes
    <3>1. WriteConfig(l) /\ Others(l) = {}
      BY <1>3, <2>5 DEF Lock, WriteCreds, WriteConfig, ConfigFails, Restore,
                Remove, SaveLoggedOut, KillLogin, LoginEnds
    <3>2. k = l
      BY <2>3, <3>1 DEF LoggingOut, Others
    <3> QED BY <2>3, <3>1, <3>2 DEF WriteConfig, LoggingOut
  <2> QED BY <2>4, <2>5
<1> QED BY <1>1, <1>2, <1>3 DEF LoginStep

LEMMA PairKeptOn ==
    ASSUME CredInv, CredTypeOK', NEW l \in Logins, LoginStep(l), OthersSame(l)
    PROVE  PairInv'
<1> USE SiteAssumption DEF OthersSame, fileVars
<1> SUFFICES ASSUME causes' \cap PairCauses = {}
             PROVE  /\ lock' = None => Paired(creds)'
                    /\ \A k \in Logins :
                          /\ lpc'[k] = "write" => creds' = login'[k].snap
                          /\ lpc'[k] \in {"write", "config", "restore"} => Paired(login[k].snap)'
                          /\ lpc'[k] = "save" => creds' = None
    BY DEF PairInv
<1> DEFINE Whole == /\ lock' = None => Paired(creds)'
                    /\ \A k \in Logins :
                          /\ lpc'[k] = "write" => creds' = login'[k].snap
                          /\ lpc'[k] \in {"write", "config", "restore"} => Paired(login[k].snap)'
                          /\ lpc'[k] = "save" => creds' = None
<1>t. CredTypeOK /\ CredTypeOK' /\ PublishedTokenStays /\ (\A k \in Logins : Carries(k))
    BY DEF CredInv
\* Whoever holds the lock, or logs out, does so alone.
<1>o. ASSUME NEW k \in Logins, k # l, "overlap" \notin causes, lpc[l] \notin {"idle", "over"}
      PROVE  /\ ~LoggingOut(k)
             /\ LoggingOut(l) => lpc[k] \in {"idle", "over"}
             /\ lock = l => lpc[k] \notin {"write", "config", "restore", "save"}
    BY <1>o, <1>t DEF CredInv, Apart, Others, LoggingOut, CredTypeOK
<1>1. CASE WriteConfig(l)
  <2>1. \A k \in Logins : lpc'[k] \notin {"write", "config", "restore", "save"}
    <3>1. lock = l /\ lpc'[l] = "over"
      BY <1>1, <1>t DEF WriteConfig, LoginEnds, CredTypeOK
    <3>2. CASE Others(l) = {}
      BY <3>1, <3>2, <1>t DEF Others, CredTypeOK
    <3>3. CASE Others(l) # {}
      BY <1>1, <3>1, <3>3, <1>o, <1>t DEF WriteConfig, PairCauses, CredTypeOK
    <3> QED BY <3>2, <3>3
  <2>2. Paired(creds)'
    BY <1>1, <1>t DEF WriteConfig, PublishedTokenStays, Carries, Paired, CredTypeOK
  <2> QED BY <2>1, <2>2
<1>2. CASE ~WriteConfig(l)
  <2>0. causes \subseteq causes'
    BY <1>2 DEF LoginStep, SetToken, Lock, WriteCreds, ConfigFails, Restore, Logout,
                Remove, SaveLoggedOut, KillLogin
  <2>1. causes \cap PairCauses = {} /\ "overlap" \notin causes
    BY <2>0 DEF PairCauses
  <2>2. /\ lock = None => Paired(creds)
        /\ \A k \in Logins :
              /\ lpc[k] = "write" => creds = login[k].snap
              /\ lpc[k] \in {"write", "config", "restore"} => Paired(login[k].snap)
              /\ lpc[k] = "save" => creds = None
    BY <2>1 DEF CredInv, PairInv
  <2> USE <2>2, <1>t DEF CredTypeOK, Paired
  <2>3. ASSUME NEW t \in Tokens, SetToken(l, t) PROVE Whole
    BY <2>3 DEF SetToken
  <2>4. CASE Lock(l)
    BY <2>4 DEF Lock
  <2>5. CASE WriteCreds(l)
    BY <2>5, <2>1, <1>o DEF WriteCreds, LoginEnds
  <2>6. CASE ConfigFails(l)
    BY <2>6 DEF ConfigFails
  <2>7. CASE Restore(l)
    <3>1. creds' = login[l].snap /\ base' = base /\ lpc[l] = "restore"
      BY <2>7 DEF Restore, PairCauses
    <3> QED BY <2>7, <2>1, <3>1, <1>o DEF Restore, LoginEnds
  <2>8. CASE Logout(l)
    BY <2>8 DEF Logout
  <2>9. CASE Remove(l)
    BY <2>9, <2>1, <1>o DEF Remove, LoginEnds, LoggingOut
  <2>10. CASE SaveLoggedOut(l)
    BY <2>10, <2>1, <1>o DEF SaveLoggedOut, LoginEnds, LoggingOut
  <2>11. CASE KillLogin(l)
    BY <2>11, <2>1, <1>o DEF KillLogin, LoginEnds, PairCauses
  <2> QED BY <1>2, <2>3, <2>4, <2>5, <2>6, <2>7, <2>8, <2>9, <2>10, <2>11 DEF LoginStep
<1> QED BY <1>1, <1>2

\* A command leaves the two files alone and forgives nothing.
LEMMA CredFrame ==
    ASSUME CredInv, UNCHANGED <<fileVars, loginVars>>,
           causes' \cap PairCauses = causes \cap PairCauses
    PROVE  CredInv'
<1>1. CredTypeOK' /\ PublishedTokenStays' /\ \A k \in Logins : Carries(k)'
    BY DEF CredInv, CredTypeOK, PublishedTokenStays, Carries, fileVars, loginVars
<1>2. Apart'
    BY DEF CredInv, Apart, LoggingOut, Others, loginVars, PairCauses
<1>3. PairInv'
    BY DEF CredInv, PairInv, Paired, fileVars, loginVars
<1> QED BY <1>1, <1>2, <1>3 DEF CredInv

LEMMA CredStep ==
    ASSUME CredInv, NEW l \in Logins, LoginStep(l) PROVE CredInv'
<1>1. CredTypeOK' /\ OthersSame(l)
    BY LoginTyped DEF CredInv
<1> QED BY <1>1, TokensKept, ApartKept, PairKeptOn DEF CredInv

-----------------------------------------------------------------------------
(* The shared state of the commands.                                        *)

Causes == PairCauses \cup {"moved", "inherited", "declined", "appeared"}

StoreTypeOK ==
    /\ cast \in Casts
    /\ causes \subseteq Causes
    /\ issued \subseteq Tokens /\ expired \subseteq issued
    /\ tokenFile \in [Sites -> Tokens \cup {None, Blank}] /\ fresh \in [Sites -> BOOLEAN]
    /\ \A s \in Sites :
          /\ fresh[s] => tokenFile[s] # None
          /\ tokenFile[s] \in Tokens => SiteOf[tokenFile[s]] = s
    /\ exist \subseteq Files /\ rows \in [Files -> SUBSET Sites]
    /\ \A f \in Files : rows[f] # {} => f \in exist
    /\ owner \in Tokens \cup {None} /\ homes \in [Tokens -> SUBSET Files]
    /\ owner # None => Shared \in exist

-----------------------------------------------------------------------------
(* One command.                                                             *)

Stored == Tokens \cup {None}

CmdRecords ==
    [op : {"sync", "read", "import"}, again : BOOLEAN, env : Stored,
     scope : Stored, stored : Stored, host : Sites \cup {None},
     bearer : Stored, file : Files \cup {None}, seen : SUBSET Sites,
     record : Nat, posts : [1..Records -> Nat], bad : {"no", "token", "other"},
     because : SUBSET {"blank", "expired", "stray"}]

\* The token in the environment is one of the wrapper's site, or there is none
\* and that is recorded.
EnvInv(c) ==
    /\ cmd[c].env # None => Wrapped(c) /\ SiteOf[cmd[c].env] = SiteFor[c]
    /\ cpc[c] \in {"truncate", "put"} => cmd[c].env # None
    /\ cpc[c] \in {"cat", "fetch"} => Wrapped(c)
    /\ cpc[c] = "cat" => tokenFile[SiteFor[c]] # None
    /\ cpc[c] \notin {"idle", "over", "cat", "fetch"} /\ Wrapped(c) =>
          cmd[c].env # None \/ "blank" \in cmd[c].because

\* The store is named after the credential the client sends.
ScopeInv(c) ==
    /\ cpc[c] \in {"host", "bearer"} =>
          cmd[c].scope = IF cmd[c].env # None THEN cmd[c].env ELSE cmd[c].stored
    /\ cpc[c] \in {"choose", "legacy", "marker", "claim", "open", "sync", "read"}
          /\ cmd[c].env # None => cmd[c].scope = cmd[c].env
    /\ cpc[c] \in {"legacy", "marker", "claim"} => cmd[c].scope # None
    /\ cpc[c] \in {"choose", "legacy", "marker", "claim", "open", "sync"}
          /\ cmd[c].op # "read" /\ "moved" \notin causes => cmd[c].bearer = cmd[c].scope
    /\ cpc[c] \in {"open", "sync"} => cmd[c].op # "read"

\* The file it settled on: its own, or data.db with a right to it.
FileInv(c) ==
    /\ cmd[c].file # None => cpc[c] \in {"open", "sync", "failed", "read", "shown"}
    /\ cpc[c] \in {"open", "sync", "read"} =>
          cmd[c].file # None /\ cmd[c].file \in {Shared, cmd[c].scope}
    /\ cpc[c] = "sync" => cmd[c].file \in exist
    /\ cpc[c] \in {"marker", "claim"} => Shared \in exist
    /\ "declined" \notin causes /\ cmd[c].file = Shared /\ cmd[c].scope # None =>
          owner = cmd[c].scope

\* One post of a record per run so far, and why there is a second run.
PostInv(c) ==
    /\ \A r \in 1..Records :
          cmd[c].posts[r] <= (IF cmd[c].again THEN 1 ELSE 0)
                             + (IF r < cmd[c].record THEN 1 ELSE 0)
    /\ cmd[c].again => cmd[c].because \cap {"expired", "stray"} # {}
    /\ cpc[c] = "cat" => ~cmd[c].again

CmdInv(c) ==
    /\ cpc[c] \in {"idle", "over"} => cmd[c] = NoCmd
    /\ EnvInv(c) /\ ScopeInv(c) /\ FileInv(c) /\ PostInv(c)

CmdsInv ==
    /\ cpc \in [Commands -> Points] /\ cmd \in [Commands -> CmdRecords]
    /\ \A c \in Commands : CmdInv(c)

-----------------------------------------------------------------------------
(* One store for each credential.                                           *)

Opening(c, t) == cpc[c] = "open" /\ cmd[c].file = t

\* A store of its own, or about to be.
Own(t) == t \in exist \/ \E c \in Commands : Opening(c, t)

Seeking(c, t) == cpc[c] \in {"legacy", "marker", "claim"} /\ cmd[c].scope = t

\* Beside data.db a credential about to create its own store cannot own
\* data.db any more, and one that has its own store does not ask for it.
HomeOf(t) ==
    /\ Shared \in exist /\ t \notin exist /\ (\E c \in Commands : Opening(c, t)) =>
          owner \notin {None, t}
    /\ Shared \in exist /\ Own(t) /\ owner \in {None, t} =>
          owner = None /\ \A c \in Commands : ~Seeking(c, t)
    /\ homes[t] \subseteq {t, Shared}
    /\ t \in homes[t] => t \in exist
    /\ Shared \in homes[t] => owner = t

HomeInv == causes \cap {"declined", "appeared"} = {} => \A t \in Tokens : HomeOf(t)

SitesInv ==
    /\ CredInv /\ StoreTypeOK /\ CmdsInv
    /\ StoresArePure /\ ReadsOwnSite /\ HomeInv

-----------------------------------------------------------------------------
(* What every step leaves the commands.                                     *)

\* Stores stay, data.db keeps its owner, a token file is not taken away, and
\* a cause stays recorded but for those a login heals.
SharedGrows ==
    /\ exist \subseteq exist'
    /\ owner = None \/ owner' = owner
    /\ causes \ PairCauses \subseteq causes'
    /\ \A s \in Sites : tokenFile[s] # None => tokenFile'[s] # None

LEMMA CmdFrame ==
    ASSUME CmdsInv, SharedGrows, NEW d \in Commands,
           cpc'[d] = cpc[d], cmd'[d] = cmd[d]
    PROVE  CmdInv(d)'
<1>1. CmdInv(d)
    BY DEF CmdsInv
<1>2. EnvInv(d)'
    BY <1>1, CastAssumption DEF CmdInv, EnvInv, Wrapped, SharedGrows
<1>3. ScopeInv(d)'
    BY <1>1 DEF CmdInv, ScopeInv, SharedGrows, PairCauses
<1>4. FileInv(d)'
    BY <1>1 DEF CmdInv, FileInv, SharedGrows, PairCauses
<1>5. PostInv(d)'
    BY <1>1 DEF CmdInv, PostInv
<1> QED BY <1>1, <1>2, <1>3, <1>4, <1>5 DEF CmdInv

LEMMA OneMoves ==
    ASSUME CmdsInv, SharedGrows, NEW c \in Commands, NEW p \in Points, NEW r \in CmdRecords,
           cpc' = [cpc EXCEPT ![c] = p], cmd' = [cmd EXCEPT ![c] = r],
           CmdInv(c)'
    PROVE  CmdsInv'
<1>1. cpc' \in [Commands -> Points] /\ cmd' \in [Commands -> CmdRecords]
    BY DEF CmdsInv
<1>2. ASSUME NEW d \in Commands PROVE CmdInv(d)'
    BY <1>2, CmdFrame DEF CmdsInv
<1> QED BY <1>1, <1>2 DEF CmdsInv

\* Nothing is known of a command that has not begun, or has ended.
LEMMA NothingKnown == NoCmd \in CmdRecords
BY CastAssumption DEF NoCmd, CmdRecords, Stored

-----------------------------------------------------------------------------
(* The steps of the wrapper.                                                *)

\* The records a step may make of a command's.
LEMMA Keeps ==
    ASSUME NEW m \in CmdRecords
    PROVE  /\ \A o \in {"sync", "read", "import"} : [m EXCEPT !.op = o] \in CmdRecords
           /\ \A t \in Stored : [m EXCEPT !.env = t] \in CmdRecords
           /\ \A t \in Stored : \A w \in SUBSET {"blank", "expired", "stray"} :
                 [m EXCEPT !.env = t, !.because = w] \in CmdRecords
           /\ \A t, u \in Stored : [m EXCEPT !.scope = t, !.stored = u] \in CmdRecords
           /\ \A t \in Stored : [m EXCEPT !.bearer = t, !.stored = None] \in CmdRecords
           /\ \A s \in Sites \cup {None} : [m EXCEPT !.host = s] \in CmdRecords
           /\ \A f \in Files \cup {None} : [m EXCEPT !.file = f] \in CmdRecords
           /\ \A z \in SUBSET Sites : [m EXCEPT !.seen = z] \in CmdRecords
           /\ \A b \in {"no", "token", "other"} : [m EXCEPT !.bad = b] \in CmdRecords
<1>1. None \in Stored
    BY DEF Stored
<1>2. \A o \in {"sync", "read", "import"} : [m EXCEPT !.op = o] \in CmdRecords
    BY DEF CmdRecords
<1>3. \A t \in Stored : [m EXCEPT !.env = t] \in CmdRecords
    BY DEF CmdRecords
<1>4. \A t \in Stored : \A w \in SUBSET {"blank", "expired", "stray"} :
          [m EXCEPT !.env = t, !.because = w] \in CmdRecords
    BY DEF CmdRecords
<1>5. \A t, u \in Stored : [m EXCEPT !.scope = t, !.stored = u] \in CmdRecords
    BY DEF CmdRecords
<1>6. \A t \in Stored : [m EXCEPT !.bearer = t, !.stored = None] \in CmdRecords
    BY <1>1 DEF CmdRecords
<1>7. \A s \in Sites \cup {None} : [m EXCEPT !.host = s] \in CmdRecords
    BY DEF CmdRecords
<1>8. \A f \in Files \cup {None} : [m EXCEPT !.file = f] \in CmdRecords
    BY DEF CmdRecords
<1>9. \A z \in SUBSET Sites : [m EXCEPT !.seen = z] \in CmdRecords
    BY DEF CmdRecords
<1>10. \A b \in {"no", "token", "other"} : [m EXCEPT !.bad = b] \in CmdRecords
    BY DEF CmdRecords
<1> QED BY <1>2, <1>3, <1>4, <1>5, <1>6, <1>7, <1>8, <1>9, <1>10

\* ... and when it goes to the next record.
LEMMA NextRecord ==
    ASSUME NEW m \in CmdRecords, NEW n \in Nat
    PROVE  /\ \A q \in [1..Records -> Nat] : [m EXCEPT !.posts = q, !.record = n] \in CmdRecords
           /\ \A b \in {"no", "token", "other"} : [m EXCEPT !.bad = b, !.record = n] \in CmdRecords
<1>1. \A q \in [1..Records -> Nat] : [m EXCEPT !.posts = q, !.record = n] \in CmdRecords
    BY DEF CmdRecords
<1>2. \A b \in {"no", "token", "other"} : [m EXCEPT !.bad = b, !.record = n] \in CmdRecords
    BY DEF CmdRecords
<1> QED BY <1>1, <1>2

LEMMA Counted ==
    ASSUME NEW q \in [1..Records -> Nat], NEW n \in Nat
    PROVE  [q EXCEPT ![n] = @ + 1] \in [1..Records -> Nat]
<1>1. CASE n \in 1..Records
  <2>1. q[n] + 1 \in Nat
    BY <1>1
  <2> QED BY <1>1, <2>1
<1>2. CASE n \notin 1..Records
    BY <1>2
<1> QED BY <1>1, <1>2

LEMMA StartKeeps ==
    ASSUME CmdsInv, StoreTypeOK, NEW c \in Commands, Start(c) PROVE CmdsInv'
<1>0. cast.ops \subseteq {"sync", "read", "import"}
    BY CastAssumption DEF StoreTypeOK
<1>1. PICK o \in {"sync", "read", "import"} : cmd' = [cmd EXCEPT ![c].op = o]
    BY <1>0 DEF Start
<1>2. cpc[c] = "idle" /\ cmd[c] = NoCmd
    BY DEF Start, At, CmdsInv, CmdInv
<1> DEFINE r == [NoCmd EXCEPT !.op = o]
<1>3. r \in CmdRecords
    BY NothingKnown, Keeps
<1>4. PICK p \in {"scope", "cat", "fetch"} :
          /\ cpc' = [cpc EXCEPT ![c] = p]
          /\ p = "cat" => Wrapped(c) /\ fresh[SiteFor[c]]
          /\ p = "scope" => ~Wrapped(c)
          /\ p = "fetch" => Wrapped(c)
    BY DEF Start, Goto
<1>5. cmd' = [cmd EXCEPT ![c] = r] /\ cmd'[c] = r /\ cpc'[c] = p
    BY <1>1, <1>2, <1>4 DEF CmdsInv
<1>6. SharedGrows /\ tokenFile' = tokenFile /\ p \in Points
    BY DEF Start, SharedGrows, credVars, storeVars, tokenVars, Points
<1>7. CmdInv(c)'
  <2>1. EnvInv(c)'
    BY <1>4, <1>5, <1>6, CastAssumption DEF EnvInv, NoCmd, Wrapped, StoreTypeOK
  <2>2. ScopeInv(c)' /\ FileInv(c)'
    BY <1>4, <1>5, CastAssumption DEF ScopeInv, FileInv, NoCmd
  <2>3. PostInv(c)'
    BY <1>4, <1>5, CastAssumption DEF PostInv, NoCmd
  <2> QED BY <1>5, <1>4, <2>1, <2>2, <2>3 DEF CmdInv
<1> QED BY <1>3, <1>4, <1>5, <1>6, <1>7, OneMoves

\* A step that leaves the shared state alone.
LEMMA Quiet ==
    ASSUME UNCHANGED <<credVars, tokenVars, storeVars>> PROVE SharedGrows
BY DEF SharedGrows, credVars, tokenVars, storeVars

\* ... and what the command knows.
LEMMA Advances ==
    ASSUME CmdsInv, SharedGrows, NEW c \in Commands, NEW p \in Points,
           Goto(c, p), UNCHANGED cmd, cpc'[c] = p => CmdInv(c)'
    PROVE  CmdsInv'
<1>1. PICK m \in CmdRecords : m = cmd[c]
    BY DEF CmdsInv
<1>2. cmd' = [cmd EXCEPT ![c] = m] /\ cpc'[c] = p /\ cpc' = [cpc EXCEPT ![c] = p]
    BY <1>1 DEF CmdsInv, Goto
<1> QED BY <1>2, OneMoves

LEMMA EndsKeeps ==
    ASSUME CmdsInv, SharedGrows, NEW c \in Commands, Ends(c) PROVE CmdsInv'
<1>1. cmd'[c] = NoCmd /\ cpc'[c] = "over" /\ "over" \in Points
    BY DEF Ends, Goto, CmdsInv, Points
<1>2. CmdInv(c)'
    BY <1>1, CastAssumption DEF CmdInv, EnvInv, ScopeInv, FileInv, PostInv, NoCmd
<1> QED BY <1>1, <1>2, NothingKnown, OneMoves DEF Ends, Goto

LEMMA FailsKeeps ==
    ASSUME CmdsInv, SharedGrows, NEW c \in Commands, Fails(c), cpc[c] \in {"sync", "post"}
    PROVE  CmdsInv'
<1>1. PICK m \in CmdRecords : m = cmd[c]
    BY DEF CmdsInv
<1> DEFINE r == [m EXCEPT !.bad = "token"]
<1>2. r \in CmdRecords
    BY <1>1, Keeps
<1>3. /\ cmd' = [cmd EXCEPT ![c] = r] /\ cmd'[c] = r
      /\ cpc' = [cpc EXCEPT ![c] = "failed"] /\ cpc'[c] = "failed" /\ "failed" \in Points
    BY <1>1 DEF Fails, Goto, CmdsInv, Points
<1>4. CmdInv(c)
    BY DEF CmdsInv
<1>5. EnvInv(c)' /\ ScopeInv(c)'
    BY <1>1, <1>3, <1>4 DEF CmdInv, EnvInv, ScopeInv, CmdRecords
<1>6. FileInv(c)'
    BY <1>1, <1>3, <1>4 DEF CmdInv, FileInv, CmdRecords, SharedGrows, PairCauses
<1>7. PostInv(c)'
    BY <1>1, <1>3, <1>4 DEF CmdInv, PostInv, CmdRecords
<1>8. CmdInv(c)'
    BY <1>3, <1>5, <1>6, <1>7 DEF CmdInv
<1> QED BY <1>2, <1>3, <1>8, OneMoves

LEMMA CatKeeps ==
    ASSUME CmdsInv, StoreTypeOK, NEW c \in Commands, Cat(c) PROVE CmdsInv'
<1>1. PICK m \in CmdRecords : m = cmd[c]
    BY DEF CmdsInv
<1>2. cpc[c] = "cat" /\ CmdInv(c)
    BY DEF Cat, At, CmdsInv
<1>3. Wrapped(c) /\ SiteFor[c] \in Sites /\ tokenFile[SiteFor[c]] # None
    BY <1>2, CastAssumption DEF CmdInv, EnvInv, Wrapped
<1>4. PICK e \in Stored : \E w \in SUBSET {"blank", "expired", "stray"} :
          /\ cmd' = [cmd EXCEPT ![c] = [m EXCEPT !.env = e, !.because = w]]
          /\ e # None => SiteOf[e] = SiteFor[c]
          /\ e = None => "blank" \in w
  <2>1. CASE tokenFile[SiteFor[c]] = Blank
    <3>1. cmd' = [cmd EXCEPT ![c] = [m EXCEPT !.env = None, !.because = {"blank"}]]
      BY <1>1, <2>1 DEF Cat
    <3> QED BY <3>1 DEF Stored
  <2>2. CASE tokenFile[SiteFor[c]] # Blank
    <3>1. cmd' = [cmd EXCEPT ![c] = [m EXCEPT !.env = tokenFile[SiteFor[c]], !.because = {}]]
      BY <1>1, <2>2 DEF Cat
    <3>2. tokenFile[SiteFor[c]] \in Stored /\ SiteOf[tokenFile[SiteFor[c]]] = SiteFor[c]
      BY <1>3, <2>2 DEF StoreTypeOK, Stored
    <3>3. tokenFile[SiteFor[c]] # None
      BY <1>3
    <3>4. {} \in SUBSET {"blank", "expired", "stray"}
      OBVIOUS
    <3> QED BY <3>1, <3>2, <3>3, <3>4
  <2> QED BY <2>1, <2>2
<1>5. PICK w \in SUBSET {"blank", "expired", "stray"} :
          /\ cmd' = [cmd EXCEPT ![c] = [m EXCEPT !.env = e, !.because = w]]
          /\ e # None => SiteOf[e] = SiteFor[c]
          /\ e = None => "blank" \in w
    BY <1>4
<1>6. PICK r \in CmdRecords : r = [m EXCEPT !.env = e, !.because = w]
    BY <1>1, <1>4, <1>5, Keeps
<1>f. /\ r.env = e /\ r.because = w /\ r.file = m.file /\ r.posts = m.posts
      /\ r.again = m.again /\ r.record = m.record
    BY <1>6 DEF CmdRecords
<1>7. /\ cmd' = [cmd EXCEPT ![c] = r] /\ cmd'[c] = r
      /\ cpc' = [cpc EXCEPT ![c] = "scope"] /\ cpc'[c] = "scope" /\ "scope" \in Points
    BY <1>5, <1>6 DEF Cat, Goto, CmdsInv, Points
<1>8. EnvInv(c)'
    BY <1>3, <1>5, <1>f, <1>7 DEF EnvInv, Wrapped
<1>9. ScopeInv(c)' /\ FileInv(c)'
    BY <1>1, <1>2, <1>f, <1>7, CastAssumption DEF CmdInv, ScopeInv, FileInv
<1>10. PostInv(c)'
    BY <1>1, <1>2, <1>f, <1>7 DEF CmdInv, PostInv
<1>11. CmdInv(c)'
    BY <1>7, <1>8, <1>9, <1>10 DEF CmdInv
<1>12. SharedGrows
    BY Quiet DEF Cat
<1> QED BY <1>7, <1>11, <1>12, OneMoves

LEMMA FetchKeeps ==
    ASSUME CmdsInv, StoreTypeOK, NEW c \in Commands, Fetch(c) PROVE CmdsInv'
<1>1. PICK m \in CmdRecords : m = cmd[c]
    BY DEF CmdsInv
<1>2. cpc[c] = "fetch" /\ CmdInv(c) /\ Wrapped(c)
    BY DEF Fetch, At, CmdsInv, CmdInv, EnvInv
<1>3. SharedGrows
    BY DEF Fetch, SharedGrows, credVars, storeVars
<1>4. ASSUME NEW t \in Tokens, SiteOf[t] = SiteFor[c], cmd' = [cmd EXCEPT ![c].env = t],
             Goto(c, "truncate")
      PROVE  CmdsInv'
  <2>1. t \in Stored /\ t # None
    BY SiteAssumption DEF Stored
  <2>2. PICK r \in CmdRecords : r = [m EXCEPT !.env = t]
    BY <1>1, <2>1, Keeps
  <2>3. /\ r.env = t /\ r.because = m.because /\ r.file = m.file /\ r.posts = m.posts
        /\ r.again = m.again /\ r.record = m.record
    BY <2>2 DEF CmdRecords
  <2>4. /\ cmd' = [cmd EXCEPT ![c] = r] /\ cmd'[c] = r
        /\ cpc' = [cpc EXCEPT ![c] = "truncate"] /\ cpc'[c] = "truncate" /\ "truncate" \in Points
    BY <1>1, <1>4, <2>2 DEF Goto, CmdsInv, Points
  <2>5. EnvInv(c)'
    BY <1>2, <1>4, <2>1, <2>3, <2>4 DEF EnvInv, Wrapped
  <2>6. ScopeInv(c)' /\ FileInv(c)' /\ PostInv(c)'
    BY <1>1, <1>2, <2>3, <2>4, CastAssumption DEF CmdInv, ScopeInv, FileInv, PostInv
  <2>7. CmdInv(c)'
    BY <2>4, <2>5, <2>6 DEF CmdInv
  <2> QED BY <1>3, <2>4, <2>7, OneMoves
<1>5. CASE Ends(c)
    BY <1>3, <1>5, EndsKeeps
<1>6. ASSUME cmd[c].again, Goto(c, "scope"),
             cmd' = [cmd EXCEPT ![c].env = None, ![c].because = @ \cup {"blank"}]
      PROVE  CmdsInv'
  <2>1. PICK w \in SUBSET {"blank", "expired", "stray"} : w = m.because \cup {"blank"}
    BY DEF CmdRecords
  <2>2. PICK r \in CmdRecords : r = [m EXCEPT !.env = None, !.because = w]
    BY <1>1, Keeps DEF Stored
  <2>3. /\ r.env = None /\ r.because = w /\ r.file = m.file /\ r.posts = m.posts
        /\ r.again = m.again /\ r.record = m.record
    BY <2>2 DEF CmdRecords
  <2>4. /\ cmd' = [cmd EXCEPT ![c] = r] /\ cmd'[c] = r
        /\ cpc' = [cpc EXCEPT ![c] = "scope"] /\ cpc'[c] = "scope" /\ "scope" \in Points
    BY <1>1, <1>6, <2>1, <2>2 DEF Goto, CmdsInv, Points
  <2>5. EnvInv(c)'
    BY <2>1, <2>3, <2>4 DEF EnvInv
  <2>6. ScopeInv(c)' /\ FileInv(c)'
    BY <1>1, <1>2, <2>3, <2>4, CastAssumption DEF CmdInv, ScopeInv, FileInv
  <2>7. PostInv(c)'
    BY <1>1, <1>2, <2>1, <2>3, <2>4 DEF CmdInv, PostInv
  <2>8. CmdInv(c)'
    BY <2>4, <2>5, <2>6, <2>7 DEF CmdInv
  <2> QED BY <1>3, <2>4, <2>8, OneMoves
<1> QED BY <1>4, <1>5, <1>6 DEF Fetch

LEMMA WritesKeep ==
    ASSUME CmdsInv, StoreTypeOK, NEW c \in Commands, Truncate(c) \/ Put(c) PROVE CmdsInv'
<1>1. cpc[c] \in {"truncate", "put"} /\ CmdInv(c) /\ cmd[c].env # None
    BY DEF Truncate, Put, At, CmdsInv, CmdInv, EnvInv
<1>2. SharedGrows
    BY <1>1, CastAssumption
       DEF Truncate, Put, SharedGrows, credVars, storeVars, StoreTypeOK
<1>3. PICK p \in {"put", "scope"} : Goto(c, p) /\ cmd' = cmd
    BY DEF Truncate, Put
<1>4. ASSUME cpc'[c] = p PROVE CmdInv(c)'
  <2>1. EnvInv(c)'
    BY <1>1, <1>3, <1>4 DEF CmdInv, EnvInv, Wrapped
  <2>2. ScopeInv(c)' /\ FileInv(c)' /\ PostInv(c)'
    BY <1>1, <1>3, <1>4, CastAssumption DEF CmdInv, ScopeInv, FileInv, PostInv
  <2> QED BY <1>3, <1>4, <2>1, <2>2 DEF CmdInv
<1> QED BY <1>2, <1>3, <1>4, Advances DEF Points

LEMMA RerunKeeps ==
    ASSUME CmdsInv, NEW c \in Commands, Rerun(c) PROVE CmdsInv'
<1>1. PICK m \in CmdRecords : m = cmd[c]
    BY DEF CmdsInv
<1>2. cpc[c] = "failed" /\ CmdInv(c)
    BY DEF Rerun, At, CmdsInv
<1>3. SharedGrows
    BY Quiet DEF Rerun
<1>4. CASE Ends(c)
    BY <1>3, <1>4, EndsKeeps
<1>5. ASSUME Wrapped(c), ~cmd[c].again, NEW w \in {{"expired"}, {"stray"}}, Again(c, w)
      PROVE  CmdsInv'
  <2> DEFINE r == [NoCmd EXCEPT !.op = m.op, !.again = TRUE, !.posts = m.posts, !.because = w]
  <2>1. r \in CmdRecords
    BY NothingKnown DEF CmdRecords
  <2>2. /\ r.env = None /\ r.because = w /\ r.file = None /\ r.posts = m.posts
        /\ r.again /\ r.record = 1
    BY DEF NoCmd
  <2>3. cmd' = [cmd EXCEPT ![c] = r] /\ cpc' = [cpc EXCEPT ![c] = "fetch"]
    BY <1>1, <1>5 DEF Again, Goto
  <2> HIDE DEF r
  <2>4. cmd'[c] = r /\ cpc'[c] = "fetch" /\ "fetch" \in Points
    BY <2>3 DEF CmdsInv, Points
  <2>5. EnvInv(c)' /\ ScopeInv(c)' /\ FileInv(c)'
    BY <1>5, <2>2, <2>4, CastAssumption DEF EnvInv, ScopeInv, FileInv, Wrapped
  <2>6. PostInv(c)'
    <3>1. w \cap {"expired", "stray"} # {}
      OBVIOUS
    <3>2. ASSUME NEW k \in 1..Records PROVE m.posts[k] <= 1
      <4>1. m.posts \in [1..Records -> Nat] /\ ~m.again
        BY <1>1, <1>5 DEF CmdRecords
      <4>2. m.posts[k] <= (IF m.again THEN 1 ELSE 0) + (IF k < m.record THEN 1 ELSE 0)
        BY <1>1, <1>2 DEF CmdInv, PostInv
      <4>3. m.posts[k] <= 0 + (IF k < m.record THEN 1 ELSE 0)
        BY <4>1, <4>2
      <4>4. m.posts[k] \in Nat
        BY <4>1
      <4> QED BY <4>3, <4>4
    <3> QED BY <2>2, <2>4, <3>1, <3>2 DEF PostInv
  <2>7. CmdInv(c)'
    BY <2>4, <2>5, <2>6 DEF CmdInv
  <2> QED BY <1>3, <2>1, <2>3, <2>4, <2>7, OneMoves
<1> QED BY <1>4, <1>5 DEF Rerun

-----------------------------------------------------------------------------
(* The steps of the CLI.                                                    *)

LEMMA ScopeKeeps ==
    ASSUME CredTypeOK, CmdsInv, NEW c \in Commands, Scope(c) PROVE CmdsInv'
<1>1. PICK m \in CmdRecords : m = cmd[c]
    BY DEF CmdsInv
<1>2. cpc[c] = "scope" /\ CmdInv(c)
    BY DEF Scope, At, CmdsInv
<1>3. PICK t \in Stored : t = IF m.env # None THEN m.env ELSE creds
    BY <1>1 DEF CredTypeOK, Stored, CmdRecords
<1>4. PICK r \in CmdRecords : r = [m EXCEPT !.scope = t, !.stored = creds]
    BY <1>1, Keeps DEF CredTypeOK, Stored
<1>5. /\ r.env = m.env /\ r.because = m.because /\ r.file = m.file /\ r.posts = m.posts
      /\ r.again = m.again /\ r.record = m.record /\ r.op = m.op
      /\ r.scope = t /\ r.stored = creds
    BY <1>4 DEF CmdRecords
<1>6. PICK p \in {"choose", "host"} :
          cpc' = [cpc EXCEPT ![c] = p] /\ (p = "choose" <=> m.op = "read")
    BY <1>1 DEF Scope, Goto
<1>7. cmd' = [cmd EXCEPT ![c] = r] /\ cmd'[c] = r /\ cpc'[c] = p /\ p \in Points
    BY <1>1, <1>3, <1>4, <1>6 DEF Scope, Credential, CmdsInv, Points
<1>8. EnvInv(c)' /\ ScopeInv(c)'
    BY <1>1, <1>2, <1>3, <1>5, <1>6, <1>7 DEF CmdInv, EnvInv, ScopeInv, Wrapped
<1>9. FileInv(c)' /\ PostInv(c)'
    BY <1>1, <1>2, <1>5, <1>6, <1>7, CastAssumption DEF CmdInv, FileInv, PostInv
<1>10. CmdInv(c)'
    BY <1>6, <1>7, <1>8, <1>9 DEF CmdInv
<1> QED BY <1>6, <1>7, <1>10, Quiet, OneMoves DEF Scope

LEMMA HostKeeps ==
    ASSUME CredTypeOK, CmdsInv, NEW c \in Commands, Host(c) PROVE CmdsInv'
<1>1. PICK m \in CmdRecords : m = cmd[c]
    BY DEF CmdsInv
<1>2. cpc[c] = "host" /\ CmdInv(c)
    BY DEF Host, At, CmdsInv
<1>3. PICK s \in Sites \cup {None} : s = IF Wrapped(c) THEN SiteFor[c] ELSE base
    BY CastAssumption DEF CredTypeOK
<1>4. PICK r \in CmdRecords : r = [m EXCEPT !.host = s]
    BY <1>1, Keeps
<1>5. /\ r.env = m.env /\ r.because = m.because /\ r.file = m.file /\ r.posts = m.posts
      /\ r.again = m.again /\ r.record = m.record /\ r.op = m.op
      /\ r.scope = m.scope /\ r.stored = m.stored
    BY <1>4 DEF CmdRecords
<1>6. /\ cmd' = [cmd EXCEPT ![c] = r] /\ cmd'[c] = r
      /\ cpc' = [cpc EXCEPT ![c] = "bearer"] /\ cpc'[c] = "bearer" /\ "bearer" \in Points
    BY <1>1, <1>3, <1>4 DEF Host, Goto, CmdsInv, Points
<1>7. EnvInv(c)' /\ ScopeInv(c)'
    BY <1>1, <1>2, <1>5, <1>6 DEF CmdInv, EnvInv, ScopeInv, Wrapped
<1>8. FileInv(c)' /\ PostInv(c)'
    BY <1>1, <1>2, <1>5, <1>6, CastAssumption DEF CmdInv, FileInv, PostInv
<1>9. CmdInv(c)'
    BY <1>6, <1>7, <1>8 DEF CmdInv
<1> QED BY <1>6, <1>9, Quiet, OneMoves DEF Host

LEMMA BearerKeeps ==
    ASSUME CredTypeOK, CmdsInv, NEW c \in Commands, Bearer(c) PROVE CmdsInv'
<1>1. PICK m \in CmdRecords : m = cmd[c]
    BY DEF CmdsInv
<1>2. cpc[c] = "bearer" /\ CmdInv(c)
    BY DEF Bearer, At, CmdsInv
<1>3. PICK t \in Stored : t = IF m.env # None THEN m.env ELSE creds
    BY <1>1 DEF CredTypeOK, Stored, CmdRecords
<1>4. PICK r \in CmdRecords : r = [m EXCEPT !.bearer = t, !.stored = None]
    BY <1>1, Keeps
<1>5. /\ r.env = m.env /\ r.because = m.because /\ r.file = m.file /\ r.posts = m.posts
      /\ r.again = m.again /\ r.record = m.record /\ r.op = m.op
      /\ r.scope = m.scope /\ r.bearer = t
    BY <1>4 DEF CmdRecords
<1>6. PICK p \in {"post", "choose"} : cpc' = [cpc EXCEPT ![c] = p]
    BY DEF Bearer, Goto
<1>7. cmd' = [cmd EXCEPT ![c] = r] /\ cmd'[c] = r /\ cpc'[c] = p /\ p \in Points
    BY <1>1, <1>3, <1>4, <1>6 DEF Bearer, Credential, CmdsInv, Points
<1>8. SharedGrows
    BY DEF Bearer, SharedGrows, tokenVars, storeVars
<1>9. EnvInv(c)'
    BY <1>1, <1>2, <1>5, <1>6, <1>7 DEF CmdInv, EnvInv, Wrapped
<1>10. ScopeInv(c)'
  <2>1. "moved" \notin causes' => m.env # None \/ creds = m.stored
    BY <1>1 DEF Bearer
  <2>2. m.scope = IF m.env # None THEN m.env ELSE m.stored
    BY <1>1, <1>2 DEF CmdInv, ScopeInv
  <2> QED BY <1>3, <1>5, <1>6, <1>7, <2>1, <2>2 DEF ScopeInv
<1>11. FileInv(c)' /\ PostInv(c)'
    BY <1>1, <1>2, <1>5, <1>6, <1>7, CastAssumption DEF CmdInv, FileInv, PostInv
<1>12. CmdInv(c)'
    BY <1>6, <1>7, <1>9, <1>10, <1>11 DEF CmdInv
<1> QED BY <1>6, <1>7, <1>8, <1>12, OneMoves

\* A command settles on its own store, or on data.db with a right to it.
LEMMA OpensKeeps ==
    ASSUME CmdsInv, SharedGrows, NEW c \in Commands, NEW f \in {cmd[c].scope, Shared}, Opens(c, f),
           f # None, cpc[c] \in {"choose", "legacy", "marker", "claim"},
           f = Shared /\ cmd[c].scope # None /\ "declined" \notin causes' => owner' = cmd[c].scope
    PROVE  CmdsInv'
<1>1. PICK m \in CmdRecords : m = cmd[c]
    BY DEF CmdsInv
<1>2. CmdInv(c)
    BY DEF CmdsInv
<1>3. f \in Files
    BY <1>1 DEF CmdRecords, Stored, Files
<1>4. PICK r \in CmdRecords : r = [m EXCEPT !.file = f]
    BY <1>1, <1>3, Keeps
<1>5. /\ r.env = m.env /\ r.because = m.because /\ r.file = f /\ r.posts = m.posts
      /\ r.again = m.again /\ r.record = m.record /\ r.op = m.op
      /\ r.scope = m.scope /\ r.bearer = m.bearer
    BY <1>4 DEF CmdRecords
<1>6. PICK p \in {"read", "open"} :
          cpc' = [cpc EXCEPT ![c] = p] /\ (p = "read" <=> m.op = "read")
    BY <1>1 DEF Opens, Goto
<1>7. cmd' = [cmd EXCEPT ![c] = r] /\ cmd'[c] = r /\ cpc'[c] = p /\ p \in Points
    BY <1>1, <1>4, <1>6 DEF Opens, CmdsInv, Points
<1>8. EnvInv(c)'
    BY <1>1, <1>2, <1>5, <1>6, <1>7 DEF CmdInv, EnvInv, Wrapped
<1>9. ScopeInv(c)'
    BY <1>1, <1>2, <1>5, <1>6, <1>7 DEF CmdInv, ScopeInv, SharedGrows, PairCauses
<1>10. FileInv(c)'
    BY <1>1, <1>2, <1>5, <1>6, <1>7 DEF FileInv
<1>11. PostInv(c)'
    BY <1>1, <1>2, <1>5, <1>6, <1>7 DEF CmdInv, PostInv
<1>12. CmdInv(c)'
    BY <1>6, <1>7, <1>8, <1>9, <1>10, <1>11 DEF CmdInv
<1> QED BY <1>6, <1>7, <1>12, OneMoves

\* A command looks further.
LEMMA LooksOn ==
    ASSUME CmdsInv, SharedGrows, NEW c \in Commands, NEW p \in {"legacy", "marker", "claim"},
           Goto(c, p), UNCHANGED cmd, cpc[c] \in {"choose", "legacy", "marker"},
           cmd[c].scope # None, p # "legacy" => Shared \in exist
    PROVE  CmdsInv'
<1>1. CmdInv(c)
    BY DEF CmdsInv
<1>2. ASSUME cpc'[c] = p PROVE CmdInv(c)'
  <2>1. EnvInv(c)'
    BY <1>1, <1>2 DEF CmdInv, EnvInv, Wrapped
  <2>2. ScopeInv(c)' /\ FileInv(c)'
    BY <1>1, <1>2, CastAssumption DEF CmdInv, ScopeInv, FileInv, SharedGrows, PairCauses
  <2>3. PostInv(c)'
    BY <1>1, <1>2 DEF CmdInv, PostInv
  <2> QED BY <1>2, <2>1, <2>2, <2>3 DEF CmdInv
<1> QED BY <1>2, Advances DEF Points

\* data.db is no credential's own store.
LEMMA ScopeApart ==
    ASSUME CmdsInv, NEW c \in Commands
    PROVE  cmd[c].scope # Shared /\ Shared # None
<1>1. cmd[c].scope \in Stored
  <2>1. PICK m \in CmdRecords : m = cmd[c]
    BY DEF CmdsInv
  <2> QED BY <2>1 DEF CmdRecords
<1> QED BY <1>1, CastAssumption DEF Stored

LEMMA ChooseKeeps ==
    ASSUME StoreTypeOK, CmdsInv, NEW c \in Commands, Choose(c) PROVE CmdsInv'
<1>1. SharedGrows /\ cpc[c] = "choose" /\ cmd[c].scope # Shared /\ Shared # None
    BY Quiet, ScopeApart DEF Choose, At
<1>2. CASE cmd[c].scope = None /\ Opens(c, Shared)
    BY <1>1, <1>2, OpensKeeps
<1>3. CASE cmd[c].scope \in exist /\ Opens(c, cmd[c].scope)
  <2>1. cmd[c].scope # None
    BY <1>1, <1>3, SiteAssumption DEF StoreTypeOK, Files
  <2> QED BY <1>1, <1>3, <2>1, OpensKeeps
<1>4. CASE cmd[c].scope \in Tokens \ exist /\ Goto(c, "legacy") /\ UNCHANGED cmd
    BY <1>1, <1>4, LooksOn, SiteAssumption
<1> QED BY <1>2, <1>3, <1>4 DEF Choose

LEMMA LegacyKeeps ==
    ASSUME CmdsInv, NEW c \in Commands, Legacy(c) PROVE CmdsInv'
<1>1. /\ SharedGrows /\ cpc[c] = "legacy" /\ cmd[c].scope # None
      /\ cmd[c].scope # Shared /\ Shared # None
    BY Quiet, ScopeApart DEF Legacy, At, CmdsInv, CmdInv, ScopeInv
<1>2. CASE Opens(c, cmd[c].scope)
    BY <1>1, <1>2, OpensKeeps
<1>3. CASE Shared \in exist /\ Goto(c, "marker") /\ UNCHANGED cmd
    BY <1>1, <1>3, LooksOn
<1> QED BY <1>2, <1>3 DEF Legacy

LEMMA DecidesKeeps ==
    ASSUME CmdsInv, NEW c \in Commands, Decides(c), owner # None, SharedGrows,
           cpc[c] \in {"marker", "claim"}
    PROVE  CmdsInv'
<1>1. cmd[c].scope # None /\ cmd[c].scope # Shared /\ Shared # None
    BY ScopeApart DEF CmdsInv, CmdInv, ScopeInv
<1>2. CASE owner = cmd[c].scope
    BY <1>1, <1>2, OpensKeeps DEF Decides, SharedGrows
<1>3. CASE owner # cmd[c].scope
    BY <1>1, <1>3, OpensKeeps DEF Decides
<1> QED BY <1>2, <1>3

LEMMA MarkerKeeps ==
    ASSUME CmdsInv, NEW c \in Commands, Marker(c) PROVE CmdsInv'
<1>1. SharedGrows /\ cpc[c] = "marker" /\ cmd[c].scope # None /\ Shared \in exist
    BY Quiet DEF Marker, At, CmdsInv, CmdInv, ScopeInv, FileInv
<1> QED BY <1>1, DecidesKeeps, LooksOn DEF Marker

LEMMA ClaimKeeps ==
    ASSUME CmdsInv, NEW c \in Commands, Claim(c) PROVE CmdsInv'
<1>1. cpc[c] = "claim" /\ cmd[c].scope # None /\ cmd[c].scope # Shared /\ Shared # None
    BY ScopeApart DEF Claim, At, CmdsInv, CmdInv, ScopeInv
<1>2. SharedGrows
    BY DEF Claim, Inherits, SharedGrows, tokenVars
<1>3. CASE owner = None /\ owner' = cmd[c].scope /\ Inherits(c) /\ Opens(c, Shared)
    BY <1>1, <1>2, <1>3, OpensKeeps
<1>4. CASE owner # None /\ Decides(c)
    BY <1>1, <1>2, <1>4, DecidesKeeps
<1>5. CASE Opens(c, Shared) /\ causes' = causes \cup {"declined"}
    BY <1>1, <1>2, <1>5, OpensKeeps
<1> QED BY <1>3, <1>4, <1>5 DEF Claim

LEMMA OpenKeeps ==
    ASSUME CmdsInv, NEW c \in Commands, Open(c) PROVE CmdsInv'
<1>1. cpc[c] = "open" /\ CmdInv(c) /\ cmd' = cmd /\ Goto(c, "sync") /\ cmd[c].file \in exist'
    BY DEF Open, At, CmdsInv
<1>2. SharedGrows
    BY DEF Open, SharedGrows, tokenVars
<1>3. ASSUME cpc'[c] = "sync" PROVE CmdInv(c)'
  <2>1. EnvInv(c)'
    BY <1>1, <1>3 DEF CmdInv, EnvInv, Wrapped
  <2>2. ScopeInv(c)' /\ FileInv(c)'
    BY <1>1, <1>2, <1>3 DEF CmdInv, ScopeInv, FileInv, SharedGrows, PairCauses
  <2>3. PostInv(c)'
    BY <1>1, <1>3 DEF CmdInv, PostInv
  <2> QED BY <1>3, <2>1, <2>2, <2>3 DEF CmdInv
<1> QED BY <1>1, <1>2, <1>3, Advances DEF Points

LEMMA SyncKeeps ==
    ASSUME CmdsInv, NEW c \in Commands, Sync(c) PROVE CmdsInv'
<1>1. SharedGrows /\ cpc[c] = "sync"
    BY DEF Sync, At, SharedGrows, credVars, tokenVars
<1> QED BY <1>1, EndsKeeps, FailsKeeps DEF Sync

LEMMA ReadKeeps ==
    ASSUME StoreTypeOK, CmdsInv, NEW c \in Commands, Read(c) PROVE CmdsInv'
<1>1. SharedGrows /\ cpc[c] = "read" /\ CmdInv(c)
    BY Quiet DEF Read, At, CmdsInv
<1>2. CASE cmd[c].file \notin exist /\ Ends(c)
    BY <1>1, <1>2, EndsKeeps
<1>3. ASSUME cmd[c].file \in exist, cmd' = [cmd EXCEPT ![c].seen = rows[cmd[c].file]],
             Goto(c, "shown")
      PROVE  CmdsInv'
  <2>1. PICK m \in CmdRecords : m = cmd[c]
    BY DEF CmdsInv
  <2>2. rows[m.file] \in SUBSET Sites
    BY <1>3, <2>1 DEF StoreTypeOK
  <2>3. PICK r \in CmdRecords : r = [m EXCEPT !.seen = rows[m.file]]
    BY <2>1, <2>2, Keeps
  <2>4. /\ r.env = m.env /\ r.because = m.because /\ r.file = m.file /\ r.posts = m.posts
        /\ r.again = m.again /\ r.record = m.record /\ r.scope = m.scope
    BY <2>3 DEF CmdRecords
  <2>5. /\ cmd' = [cmd EXCEPT ![c] = r] /\ cmd'[c] = r
        /\ cpc' = [cpc EXCEPT ![c] = "shown"] /\ cpc'[c] = "shown" /\ "shown" \in Points
    BY <1>3, <2>1, <2>3 DEF Goto, CmdsInv, Points
  <2>6. EnvInv(c)' /\ ScopeInv(c)'
    BY <1>1, <2>1, <2>4, <2>5 DEF CmdInv, EnvInv, ScopeInv, Wrapped
  <2>7. FileInv(c)' /\ PostInv(c)'
    BY <1>1, <2>1, <2>4, <2>5 DEF CmdInv, FileInv, PostInv, SharedGrows, PairCauses
  <2>8. CmdInv(c)'
    BY <2>5, <2>6, <2>7 DEF CmdInv
  <2> QED BY <1>1, <2>5, <2>8, OneMoves
<1> QED BY <1>2, <1>3 DEF Read

LEMMA PostKeeps ==
    ASSUME CmdsInv, NEW c \in Commands, Post(c) PROVE CmdsInv'
<1>1. PICK m \in CmdRecords : m = cmd[c]
    BY DEF CmdsInv
<1>2. SharedGrows /\ cpc[c] = "post" /\ CmdInv(c)
    BY Quiet DEF Post, At, CmdsInv
<1>3. m.record \in Nat /\ m.posts \in [1..Records -> Nat] /\ m.record <= Records
    BY <1>1 DEF Post, CmdRecords
<1>4. \A k \in 1..Records :
          m.posts[k] <= (IF m.again THEN 1 ELSE 0) + (IF k < m.record THEN 1 ELSE 0)
    BY <1>1, <1>2 DEF CmdInv, PostInv
\* Either way the next record is up.
<1>5. ASSUME NEW r \in CmdRecords, cmd' = [cmd EXCEPT ![c] = r], UNCHANGED cpc,
             r.env = m.env, r.because = m.because, r.file = m.file, r.again = m.again,
             \A k \in 1..Records :
                 r.posts[k] <= (IF r.again THEN 1 ELSE 0) + (IF k < r.record THEN 1 ELSE 0)
      PROVE  CmdsInv'
  <2>1. /\ cmd'[c] = r /\ cpc' = [cpc EXCEPT ![c] = "post"] /\ cpc'[c] = "post"
        /\ "post" \in Points
    BY <1>2, <1>5 DEF CmdsInv, Points
  <2>2. EnvInv(c)' /\ ScopeInv(c)'
    BY <1>1, <1>2, <1>5, <2>1 DEF CmdInv, EnvInv, ScopeInv, Wrapped
  <2>3. FileInv(c)'
    BY <1>1, <1>2, <1>5, <2>1, CastAssumption DEF CmdInv, FileInv
  <2>4. PostInv(c)'
    BY <1>1, <1>2, <1>5, <2>1 DEF CmdInv, PostInv
  <2>5. CmdInv(c)'
    BY <2>1, <2>2, <2>3, <2>4 DEF CmdInv
  <2> QED BY <1>2, <1>5, <2>1, <2>5, OneMoves
<1>6. ASSUME cmd' = [cmd EXCEPT ![c].posts[m.record] = @ + 1, ![c].record = m.record + 1],
             UNCHANGED cpc
      PROVE  CmdsInv'
  <2>1. PICK q \in [1..Records -> Nat] : q = [m.posts EXCEPT ![m.record] = @ + 1]
    BY <1>3, Counted
  <2> DEFINE r == [m EXCEPT !.posts = q, !.record = m.record + 1]
  <2>2. r \in CmdRecords
    <3>1. m.record + 1 \in Nat
      BY <1>3
    <3> QED BY <3>1, NextRecord
  <2>3. /\ r.env = m.env /\ r.because = m.because /\ r.file = m.file /\ r.again = m.again
        /\ r.posts = q /\ r.record = m.record + 1
    BY DEF CmdRecords
  <2>4. cmd' = [cmd EXCEPT ![c] = r]
    BY <1>1, <1>6, <2>1
  <2> HIDE DEF r
  <2>5. ASSUME NEW k \in 1..Records
        PROVE  r.posts[k] <= (IF r.again THEN 1 ELSE 0) + (IF k < r.record THEN 1 ELSE 0)
    <3>1. m.posts[k] \in Nat
      BY <1>3
    <3>2. CASE k = m.record
      <4>1. m.posts[k] <= IF m.again THEN 1 ELSE 0
        BY <1>3, <1>4, <3>1, <3>2
      <4> QED BY <1>3, <2>1, <2>3, <3>1, <3>2, <4>1
    <3>3. CASE k # m.record
      <4>1. k < m.record + 1 <=> k < m.record
        BY <1>3, <3>3
      <4> QED BY <1>3, <1>4, <2>1, <2>3, <3>1, <3>3, <4>1
    <3> QED BY <3>2, <3>3
  <2> QED BY <1>5, <1>6, <2>2, <2>3, <2>4, <2>5
<1>7. ASSUME cmd' = [cmd EXCEPT ![c].bad = "other", ![c].record = m.record + 1], UNCHANGED cpc
      PROVE  CmdsInv'
  <2> DEFINE r == [m EXCEPT !.bad = "other", !.record = m.record + 1]
  <2>1. r \in CmdRecords
    <3>1. m.record + 1 \in Nat
      BY <1>3
    <3> QED BY <3>1, NextRecord
  <2>2. /\ r.env = m.env /\ r.because = m.because /\ r.file = m.file /\ r.again = m.again
        /\ r.posts = m.posts /\ r.record = m.record + 1
    BY DEF CmdRecords
  <2>3. cmd' = [cmd EXCEPT ![c] = r]
    BY <1>1, <1>7
  <2> HIDE DEF r
  <2>4. ASSUME NEW k \in 1..Records
        PROVE  r.posts[k] <= (IF r.again THEN 1 ELSE 0) + (IF k < r.record THEN 1 ELSE 0)
    <3>1. m.posts[k] \in Nat /\ k \in Int /\ (k < m.record => k < m.record + 1)
      BY <1>3, CastAssumption
    <3> QED BY <1>4, <2>2, <3>1
  <2> QED BY <1>5, <1>7, <2>1, <2>2, <2>3, <2>4
<1>8. CASE Fails(c)
    BY <1>2, <1>8, FailsKeeps
<1> QED BY <1>1, <1>6, <1>7, <1>8 DEF Post

LEMMA ImportedKeeps ==
    ASSUME CmdsInv, NEW c \in Commands, Imported(c) PROVE CmdsInv'
<1>1. SharedGrows /\ cpc[c] = "post" /\ CmdInv(c)
    BY Quiet DEF Imported, At, CmdsInv
<1>2. CASE Ends(c)
    BY <1>1, <1>2, EndsKeeps
<1>3. CASE Goto(c, "failed") /\ UNCHANGED cmd
  <2>1. ASSUME cpc'[c] = "failed" PROVE CmdInv(c)'
    <3>1. EnvInv(c)' /\ ScopeInv(c)'
      BY <1>1, <1>3, <2>1 DEF CmdInv, EnvInv, ScopeInv, Wrapped
    <3>2. FileInv(c)'
      BY <1>1, <1>3, <2>1, CastAssumption DEF CmdInv, FileInv, SharedGrows, PairCauses
    <3>3. PostInv(c)'
      BY <1>1, <1>3, <2>1 DEF CmdInv, PostInv
    <3> QED BY <2>1, <3>1, <3>2, <3>3 DEF CmdInv
  <2> QED BY <1>1, <1>3, <2>1, Advances DEF Points
<1> QED BY <1>2, <1>3 DEF Imported

\* Every step of a command.
LEMMA CommandKeeps ==
    ASSUME CredTypeOK, StoreTypeOK, CmdsInv, NEW c \in Commands, CommandStep(c)
    PROVE  CmdsInv'
BY StartKeeps, CatKeeps, FetchKeeps, WritesKeep, RerunKeeps, ScopeKeeps, HostKeeps, BearerKeeps,
   ChooseKeeps, LegacyKeeps, MarkerKeeps, ClaimKeeps, OpenKeeps, SyncKeeps, ReadKeeps, PostKeeps,
   ImportedKeeps
   DEF CommandStep

\* The steps of others.
LEMMA OthersKeep ==
    ASSUME CmdsInv, SharedGrows, UNCHANGED <<cpc, cmd>> PROVE CmdsInv'
<1>1. ASSUME NEW d \in Commands PROVE CmdInv(d)'
    BY <1>1, CmdFrame
<1> QED BY <1>1 DEF CmdsInv

-----------------------------------------------------------------------------
(* The shared state.                                                        *)

\* What a command knows is of its kind.
LEMMA KnownTypes ==
    ASSUME CmdsInv, NEW c \in Commands
    PROVE  /\ cmd[c].env \in Stored /\ cmd[c].scope \in Stored /\ cmd[c].bearer \in Stored
           /\ cmd[c].file \in Files \cup {None} /\ cmd[c].seen \in SUBSET Sites
<1>1. PICK m \in CmdRecords : m = cmd[c]
    BY DEF CmdsInv
<1> QED BY <1>1 DEF CmdRecords

\* A login touches nothing else, and only records that the pair is in doubt.
LEMMA LoginGrows ==
    ASSUME StoreTypeOK, NEW l \in Logins, LoginStep(l), UNCHANGED <<cast, tokenVars, storeVars>>
    PROVE  SharedGrows /\ StoreTypeOK' /\ causes' \ PairCauses = causes \ PairCauses
<1>1. causes' \ PairCauses = causes \ PairCauses
  <2>1. causes' = causes \/ causes' = causes \ PairCauses
        \/ \E w \in PairCauses : causes' = causes \cup {w}
    BY DEF LoginStep, SetToken, Lock, WriteCreds, WriteConfig, ConfigFails, Restore, Logout,
           Remove, SaveLoggedOut, KillLogin, PairCauses
  <2> QED BY <2>1
<1>2. SharedGrows
    BY <1>1 DEF SharedGrows, tokenVars, storeVars
<1>3. causes' \subseteq Causes
    BY <1>1 DEF StoreTypeOK, Causes
<1> QED BY <1>1, <1>2, <1>3 DEF StoreTypeOK, tokenVars, storeVars

LEMMA StoreKeeps ==
    ASSUME CredTypeOK, StoreTypeOK, CmdsInv, NEW c \in Commands, CommandStep(c)
    PROVE  StoreTypeOK'
<1> USE SiteAssumption, CastAssumption
<1>1. CASE UNCHANGED <<credVars, cast, tokenVars, storeVars>>
    BY <1>1 DEF StoreTypeOK, credVars, tokenVars, storeVars
<1>2. CASE Fetch(c)
    BY <1>2 DEF Fetch, StoreTypeOK, credVars, storeVars
<1>3. CASE Truncate(c)
  <2>1. SiteFor[c] \in Sites
    BY <1>3 DEF Truncate, At, CmdsInv, CmdInv, EnvInv, Wrapped
  <2> QED BY <1>3, <2>1 DEF Truncate, StoreTypeOK, credVars, storeVars
<1>4. CASE Put(c)
  <2>1. /\ SiteFor[c] \in Sites /\ cmd[c].env # None
        /\ SiteOf[cmd[c].env] = SiteFor[c] /\ cmd[c].env \in Stored
    BY <1>4, KnownTypes DEF Put, At, CmdsInv, CmdInv, EnvInv, Wrapped
  <2> QED BY <1>4, <2>1 DEF Put, StoreTypeOK, credVars, storeVars, Stored
<1>5. CASE Bearer(c)
    BY <1>5 DEF Bearer, StoreTypeOK, Causes, tokenVars, storeVars
<1>6. CASE Claim(c)
  <2>1. cmd[c].scope \in Tokens /\ Shared \in exist
    BY <1>6, KnownTypes DEF Claim, At, CmdsInv, CmdInv, ScopeInv, FileInv, Stored
  <2> QED BY <1>6, <2>1 DEF Claim, Inherits, StoreTypeOK, Causes, tokenVars
<1>7. CASE Open(c)
  <2>1. cmd[c].file \in Files
    BY <1>7, KnownTypes DEF Open, At, CmdsInv, CmdInv, FileInv
  <2> QED BY <1>7, <2>1 DEF Open, StoreTypeOK, Causes, tokenVars
<1>8. CASE Sync(c)
  <2>1. cmd[c].file \in exist /\ cmd[c].file \in Files
    BY <1>8, KnownTypes DEF Sync, At, CmdsInv, CmdInv, FileInv
  <2>2. Accepted(c) => cmd[c].host \in Sites
    BY DEF Accepted
  <2>3. cmd[c].scope = None \/ cmd[c].scope \in Tokens
    BY KnownTypes DEF Stored
  <2>4. rows' \in [Files -> SUBSET Sites] /\ \A f \in Files : rows'[f] # {} => f \in exist
    BY <1>8, <2>1, <2>2 DEF Sync, StoreTypeOK
  <2>5. homes' \in [Tokens -> SUBSET Files]
    BY <1>8, <2>1, <2>3 DEF Sync, StoreTypeOK
  <2> QED BY <1>8, <2>4, <2>5 DEF Sync, StoreTypeOK, credVars, tokenVars
<1>9. CASE Start(c) \/ Cat(c) \/ Rerun(c) \/ Scope(c) \/ Host(c) \/ Choose(c) \/ Legacy(c)
           \/ Marker(c) \/ Read(c) \/ Post(c) \/ Imported(c)
    BY <1>1, <1>9 DEF Start, Cat, Rerun, Scope, Host, Choose, Legacy, Marker, Read, Post, Imported
<1> QED BY <1>2, <1>3, <1>4, <1>5, <1>6, <1>7, <1>8, <1>9 DEF CommandStep

\* Time passes.
LEMMA ClockKeeps ==
    ASSUME StoreTypeOK, (\E s \in Sites : Age(s)) \/ (\E t \in Tokens : Expire(t))
    PROVE  StoreTypeOK' /\ SharedGrows /\ UNCHANGED <<credVars, exist, rows, owner, homes, cpc, cmd>>
<1>1. ASSUME NEW s \in Sites, Age(s)
      PROVE  StoreTypeOK' /\ SharedGrows /\ UNCHANGED <<credVars, exist, rows, owner, homes, cpc, cmd>>
    BY <1>1 DEF Age, StoreTypeOK, SharedGrows, credVars, storeVars
<1>2. ASSUME NEW t \in Tokens, Expire(t)
      PROVE  StoreTypeOK' /\ SharedGrows /\ UNCHANGED <<credVars, exist, rows, owner, homes, cpc, cmd>>
    BY <1>2 DEF Expire, StoreTypeOK, SharedGrows, credVars, storeVars
<1> QED BY <1>1, <1>2

\* A command moves itself alone, and only a read shows anything.
LEMMA CommandAlone ==
    ASSUME CmdsInv, NEW c \in Commands, CommandStep(c)
    PROVE  /\ \A d \in Commands \ {c} : cpc'[d] = cpc[d] /\ cmd'[d] = cmd[d]
           /\ cpc'[c] = "shown" => Read(c)
<1> USE DEF CmdsInv, Goto, At
<1>1. CASE Start(c) \/ Cat(c) \/ Fetch(c) \/ Truncate(c) \/ Put(c)
    BY <1>1 DEF Start, Cat, Fetch, Truncate, Put, Ends
<1>2. CASE Rerun(c) \/ Scope(c) \/ Host(c) \/ Bearer(c) \/ Open(c)
    BY <1>2 DEF Rerun, Again, Ends, Scope, Host, Bearer, Open
<1>3. CASE Choose(c) \/ Legacy(c) \/ Marker(c) \/ Claim(c)
    BY <1>3 DEF Choose, Legacy, Marker, Claim, Decides, Opens
<1>4. CASE Sync(c) \/ Read(c) \/ Post(c) \/ Imported(c)
    BY <1>4 DEF Sync, Read, Post, Imported, Ends, Fails
<1> QED BY <1>1, <1>2, <1>3, <1>4 DEF CommandStep

LEMMA PureFrame ==
    ASSUME StoresArePure, UNCHANGED <<rows, owner>>, causes \ PairCauses \subseteq causes'
    PROVE  StoresArePure'
BY DEF StoresArePure, PairCauses

LEMMA PureKept ==
    ASSUME StoreTypeOK, CmdsInv, StoresArePure, NEW c \in Commands, CommandStep(c), SharedGrows
    PROVE  StoresArePure'
<1> USE SiteAssumption, CastAssumption
<1>1. CASE Sync(c)
  <2>1. /\ cmd[c].file \in {Shared, cmd[c].scope} /\ cmd[c].file # None
        /\ "moved" \notin causes => cmd[c].bearer = cmd[c].scope
        /\ "declined" \notin causes /\ cmd[c].file = Shared /\ cmd[c].scope # None =>
              owner = cmd[c].scope
    BY <1>1 DEF Sync, At, CmdsInv, CmdInv, ScopeInv, FileInv
  <2>2. owner' = owner /\ causes' = causes
    BY <1>1 DEF Sync, credVars
  <2>3. CASE rows' = rows
    BY <2>2, <2>3, PureFrame
  <2>4. CASE Accepted(c) /\ rows' = [rows EXCEPT ![cmd[c].file] = @ \cup {cmd[c].host}]
    <3>1. cmd[c].bearer \in Tokens /\ cmd[c].host = SiteOf[cmd[c].bearer]
      BY <2>4 DEF Accepted
    <3>2. ASSUME "moved" \notin causes, NEW t \in Tokens PROVE rows'[t] \subseteq {SiteOf[t]}
      BY <2>1, <2>4, <3>1, <3>2 DEF StoresArePure, StoreTypeOK, Files
    <3>3. ASSUME owner # None, causes \cap {"moved", "inherited", "declined"} = {}
          PROVE  rows'[Shared] \subseteq {SiteOf[owner]}
      BY <2>1, <2>4, <3>1, <3>3 DEF StoresArePure, StoreTypeOK, Files
    <3> QED BY <2>2, <3>2, <3>3 DEF StoresArePure
  <2> QED BY <1>1, <2>3, <2>4 DEF Sync
<1>2. CASE Claim(c)
  <2>1. rows' = rows
    BY <1>2 DEF Claim
  <2>2. CASE owner' = owner
    BY <2>1, <2>2, PureFrame DEF SharedGrows
  <2>3. CASE owner' = cmd[c].scope /\ Inherits(c)
    BY <2>1, <2>3 DEF Inherits, StoresArePure
  <2> QED BY <1>2, <2>2, <2>3 DEF Claim
<1>3. CASE ~Sync(c) /\ ~Claim(c)
  <2>1. UNCHANGED <<rows, owner>>
    BY <1>3 DEF CommandStep, Start, Cat, Fetch, Truncate, Put, Rerun, Scope, Host, Bearer, Choose,
                Legacy, Marker, Open, Read, Post, Imported, storeVars
  <2> QED BY <2>1, PureFrame DEF SharedGrows
<1> QED BY <1>1, <1>2, <1>3

LEMMA ReadsFrame ==
    ASSUME ReadsOwnSite, UNCHANGED <<cpc, cmd>>, SharedGrows
    PROVE  ReadsOwnSite'
BY DEF ReadsOwnSite, SharedGrows, PairCauses, Wrapped

LEMMA ReadsKept ==
    ASSUME StoreTypeOK, CmdsInv, StoresArePure, ReadsOwnSite, NEW c \in Commands, CommandStep(c),
           SharedGrows
    PROVE  ReadsOwnSite'
<1> SUFFICES ASSUME causes' \cap {"moved", "inherited", "declined"} = {},
                    NEW d \in Commands, cpc'[d] = "shown", "blank" \notin cmd'[d].because,
                    Wrapped(d) \/ cmd'[d].scope # None
             PROVE  cmd'[d].seen \subseteq
                        {IF Wrapped(d) THEN SiteFor[d] ELSE SiteOf[cmd'[d].scope]}
    BY DEF ReadsOwnSite, Wrapped
<1>1. causes \cap {"moved", "inherited", "declined"} = {}
    BY DEF SharedGrows, PairCauses
<1>2. CASE d # c
    BY <1>1, <1>2, CommandAlone DEF ReadsOwnSite
<1>3. CASE d = c
  <2>1. Read(c)
    BY <1>3, CommandAlone
  <2>2. PICK m \in CmdRecords : m = cmd[c]
    BY DEF CmdsInv
  <2>3. cpc[c] = "read" /\ CmdInv(c)
    BY <2>1 DEF Read, At, CmdsInv
  <2>4. cmd' = [cmd EXCEPT ![c] = [m EXCEPT !.seen = rows[m.file]]]
    BY <1>3, <2>1, <2>2, <2>3 DEF Read, Ends, Goto, CmdsInv
  <2>5. PICK r \in CmdRecords : r = [m EXCEPT !.seen = rows[m.file]]
    <3>1. m.file \in exist
      BY <1>3, <2>1, <2>2, <2>3 DEF Read, Ends, Goto, CmdsInv
    <3>2. rows[m.file] \in SUBSET Sites
      BY <3>1 DEF StoreTypeOK
    <3> QED BY <2>2, <3>2, Keeps
  <2>6. /\ r.seen = rows[m.file] /\ r.scope = m.scope /\ r.because = m.because
        /\ cmd'[c] = r
    BY <2>2, <2>4, <2>5 DEF CmdsInv, CmdRecords
  <2>7. Wrapped(c) => m.env # None /\ m.scope = m.env /\ SiteOf[m.env] = SiteFor[c]
    BY <1>3, <2>2, <2>3, <2>6 DEF CmdInv, EnvInv, ScopeInv
  <2>8. m.scope # None /\ m.scope \in Tokens
    BY <1>3, <2>2, <2>6, <2>7, KnownTypes DEF Stored
  <2>9. rows[m.file] \subseteq {SiteOf[m.scope]}
    <3>1. m.file \in {Shared, m.scope} /\ (m.file = Shared => owner = m.scope)
      BY <1>1, <2>2, <2>3, <2>8 DEF CmdInv, FileInv
    <3> QED BY <1>1, <2>8, <3>1, SiteAssumption DEF StoresArePure
  <2> QED BY <1>3, <2>6, <2>7, <2>9
<1> QED BY <1>2, <1>3

-----------------------------------------------------------------------------
(* One store for each credential.                                           *)

LEMMA HomeFrame ==
    ASSUME HomeInv, UNCHANGED <<exist, owner, homes>>, causes \ PairCauses \subseteq causes',
           \A t \in Tokens : \A d \in Commands :
               (Opening(d, t)' => Opening(d, t)) /\ (Seeking(d, t)' => Seeking(d, t))
    PROVE  HomeInv'
<1> SUFFICES ASSUME causes' \cap {"declined", "appeared"} = {}, NEW t \in Tokens
             PROVE  HomeOf(t)'
    BY DEF HomeInv
<1>1. causes \cap {"declined", "appeared"} = {}
    BY DEF PairCauses
<1>2. HomeOf(t)
    BY <1>1 DEF HomeInv
<1>3. Own(t)' => Own(t)
    BY DEF Own
<1> QED BY <1>2, <1>3 DEF HomeOf

\* A command that settles on a store it did not have finds data.db another's,
\* or not there.
LEMMA SettlesKeeps ==
    ASSUME StoreTypeOK, CmdsInv, HomeInv, NEW c \in Commands, SharedGrows,
           NEW f \in Files, cpc'[c] \in {"read", "open"}, cmd'[c].file = f,
           \A d \in Commands \ {c} : cpc'[d] = cpc[d] /\ cmd'[d] = cmd[d],
           UNCHANGED <<exist, owner, homes>>,
           f \in Tokens \ exist /\ Shared \in exist => owner \notin {None, f}
    PROVE  HomeInv'
<1> SUFFICES ASSUME causes' \cap {"declined", "appeared"} = {}, NEW t \in Tokens
             PROVE  HomeOf(t)'
    BY DEF HomeInv
<1>1. causes \cap {"declined", "appeared"} = {}
    BY DEF SharedGrows, PairCauses
<1>2. HomeOf(t)
    BY <1>1 DEF HomeInv
<1>3. \A d \in Commands : Seeking(d, t)' => Seeking(d, t)
    BY DEF Seeking
<1>4. \A d \in Commands : Opening(d, t)' => Opening(d, t) \/ f = t
    BY DEF Opening
<1>5. Own(t)' => Own(t) \/ f = t
    BY <1>4 DEF Own
<1>6. f = t /\ t \in exist => Own(t)
    BY DEF Own
<1> QED BY <1>2, <1>3, <1>4, <1>5, <1>6 DEF HomeOf

\* One that looks on finds no store of its own there or about to be.
LEMMA LookKeeps ==
    ASSUME StoreTypeOK, CmdsInv, HomeInv, NEW c \in Commands, SharedGrows, Choose(c),
           cmd[c].scope \in Tokens \ exist, Goto(c, "legacy"), UNCHANGED cmd
    PROVE  HomeInv'
<1> SUFFICES ASSUME causes' \cap {"declined", "appeared"} = {}, NEW t \in Tokens
             PROVE  HomeOf(t)'
    BY DEF HomeInv
<1>1. causes \cap {"declined", "appeared"} = {}
    BY DEF SharedGrows, PairCauses
<1>2. HomeOf(t)
    BY <1>1 DEF HomeInv
<1>3. UNCHANGED <<exist, owner, homes>>
    BY DEF Choose, storeVars
<1>4. \A d \in Commands : Opening(d, t)' => Opening(d, t)
    BY DEF Opening, Goto, CmdsInv
<1>5. Own(t)' => Own(t)
    BY <1>3, <1>4 DEF Own
<1>6. \A d \in Commands : Seeking(d, t)' => Seeking(d, t) \/ cmd[c].scope = t
    BY DEF Seeking, Goto, CmdsInv
<1> QED BY <1>2, <1>3, <1>4, <1>5, <1>6 DEF HomeOf, Own

LEMMA DecidesHome ==
    ASSUME StoreTypeOK, CmdsInv, HomeInv, NEW c \in Commands, SharedGrows, CommandStep(c), Decides(c),
           owner # None, cpc[c] \in {"marker", "claim"}, UNCHANGED <<exist, owner, homes>>
    PROVE  HomeInv'
<1>1. PICK f \in Files : /\ Opens(c, f)
                         /\ f \in {Shared, cmd[c].scope} /\ (f # Shared => owner # f)
  <2>1. cmd[c].scope \in Files /\ Shared \in Files
    BY KnownTypes DEF CmdsInv, CmdInv, ScopeInv, Stored, Files
  <2> QED BY <2>1 DEF Decides
<1>2. cpc'[c] \in {"read", "open"} /\ cmd'[c].file = f
  <2>1. PICK m \in CmdRecords : m = cmd[c]
    BY DEF CmdsInv
  <2>2. [m EXCEPT !.file = f].file = f
    BY DEF CmdRecords
  <2> QED BY <1>1, <2>1, <2>2 DEF Opens, Goto, CmdsInv
<1>3. \A d \in Commands \ {c} : cpc'[d] = cpc[d] /\ cmd'[d] = cmd[d]
    BY CommandAlone
<1>4. f \in Tokens \ exist /\ Shared \in exist => owner \notin {None, f}
    BY <1>1, CastAssumption
<1> QED BY <1>2, <1>3, <1>4, SettlesKeeps

LEMMA ClaimHome ==
    ASSUME StoreTypeOK, CmdsInv, HomeInv, NEW c \in Commands, SharedGrows, Claim(c)
    PROVE  HomeInv'
<1>1. /\ cpc[c] = "claim" /\ cmd[c].scope \in Tokens /\ Shared \in exist
      /\ UNCHANGED <<exist, homes>>
    BY KnownTypes DEF Claim, At, CmdsInv, CmdInv, ScopeInv, FileInv, Stored
<1>2. CASE owner = None /\ owner' = cmd[c].scope /\ Inherits(c) /\ Opens(c, Shared)
  <2> SUFFICES ASSUME causes' \cap {"declined", "appeared"} = {}, NEW t \in Tokens
               PROVE  HomeOf(t)'
    BY DEF HomeInv
  <2>1. HomeOf(t)
    BY DEF HomeInv, SharedGrows, PairCauses
  <2>2. \A d \in Commands : Opening(d, t)' => Opening(d, t)
    <3>1. \A d \in Commands \ {c} : cpc'[d] = cpc[d] /\ cmd'[d] = cmd[d]
      BY CommandAlone DEF CommandStep
    <3>2. cmd'[c].file = Shared
      <4>1. PICK m \in CmdRecords : m = cmd[c]
        BY DEF CmdsInv
      <4>2. [m EXCEPT !.file = Shared].file = Shared
        BY DEF CmdRecords
      <4> QED BY <1>2, <4>1, <4>2 DEF Opens, CmdsInv
    <3> QED BY <3>1, <3>2, CastAssumption DEF Opening
  <2>3. Own(t)' => Own(t)
    BY <1>1, <2>2 DEF Own
  <2>4. Seeking(c, cmd[c].scope)
    BY <1>1 DEF Seeking
  <2>5. CASE t = cmd[c].scope
    <3>1. ~Own(t) /\ Shared \notin homes[t]
      BY <1>1, <1>2, <2>1, <2>4, <2>5, SiteAssumption DEF HomeOf
    <3>2. ~Own(t)' /\ ~(\E d \in Commands : Opening(d, t))'
      BY <2>2, <2>3, <3>1 DEF Own
    <3> QED BY <1>1, <2>1, <3>1, <3>2 DEF HomeOf
  <2>6. CASE t # cmd[c].scope
    BY <1>1, <1>2, <2>1, <2>6, SiteAssumption DEF HomeOf
  <2> QED BY <2>5, <2>6
<1>3. CASE owner # None /\ Decides(c) /\ UNCHANGED <<owner, causes>>
    BY <1>1, <1>3, DecidesHome DEF CommandStep
<1>4. CASE causes' = causes \cup {"declined"}
    BY <1>4 DEF HomeInv
<1> QED BY <1>2, <1>3, <1>4 DEF Claim

LEMMA OpenHome ==
    ASSUME StoreTypeOK, CmdsInv, HomeInv, NEW c \in Commands, SharedGrows, Open(c)
    PROVE  HomeInv'
<1> SUFFICES ASSUME causes' \cap {"declined", "appeared"} = {}, NEW t \in Tokens
             PROVE  HomeOf(t)'
    BY DEF HomeInv
<1>1. HomeOf(t)
    BY DEF HomeInv, SharedGrows, PairCauses
<1>2. /\ cpc[c] = "open" /\ cmd' = cmd /\ exist' = exist \cup {cmd[c].file}
      /\ UNCHANGED <<owner, homes>> /\ cpc'[c] = "sync"
      /\ \A d \in Commands \ {c} : cpc'[d] = cpc[d]
    BY DEF Open, At, Goto, CmdsInv
<1>3. \A d \in Commands : /\ Opening(d, t)' => Opening(d, t)
                          /\ Seeking(d, t)' => Seeking(d, t)
    BY <1>2 DEF Opening, Seeking
<1>4. CASE cmd[c].file = Shared /\ Shared \notin exist
  <2>1. \A e \in Commands : ~Committed(e)
    BY <1>2, <1>4 DEF Open
  <2>2. \A d \in Commands : ~Seeking(d, t)
    BY <1>4, <2>1 DEF Seeking, Committed, CmdsInv, CmdInv, FileInv
  <2>3. \A d \in Commands : Opening(d, t) => t \in exist
    BY <2>1, CastAssumption DEF Opening, Committed
  <2>4. owner = None
    BY <1>4 DEF StoreTypeOK
  <2> QED BY <1>1, <1>2, <1>3, <2>2, <2>3, <2>4 DEF HomeOf
<1>5. CASE cmd[c].file # Shared \/ Shared \in exist
  <2>1. Shared \in exist' => Shared \in exist
    BY <1>2, <1>5
  <2>2. Own(t)' => Own(t)
    BY <1>2, <1>3 DEF Own, Opening
  <2> QED BY <1>1, <1>2, <1>3, <2>1, <2>2 DEF HomeOf
<1> QED BY <1>4, <1>5

LEMMA SyncHome ==
    ASSUME StoreTypeOK, CmdsInv, HomeInv, NEW c \in Commands, SharedGrows, Sync(c)
    PROVE  HomeInv'
<1> SUFFICES ASSUME causes' \cap {"declined", "appeared"} = {}, NEW t \in Tokens
             PROVE  HomeOf(t)'
    BY DEF HomeInv
<1>1. HomeOf(t) /\ "declined" \notin causes
    BY DEF HomeInv, SharedGrows, PairCauses
<1>2. /\ UNCHANGED <<exist, owner>> /\ cpc[c] = "sync" /\ cpc'[c] \notin {"open", "legacy", "marker", "claim"}
      /\ \A d \in Commands \ {c} : cpc'[d] = cpc[d] /\ cmd'[d] = cmd[d]
    BY CommandAlone DEF CommandStep, Sync, At, Ends, Fails, Goto, CmdsInv
<1>3. \A d \in Commands : /\ Opening(d, t)' => Opening(d, t)
                          /\ Seeking(d, t)' => Seeking(d, t)
    BY <1>2 DEF Opening, Seeking
<1>4. Own(t)' => Own(t)
    BY <1>2, <1>3 DEF Own
<1>5. /\ cmd[c].file \in {Shared, cmd[c].scope} /\ cmd[c].file \in exist
      /\ cmd[c].file = Shared /\ cmd[c].scope # None => owner = cmd[c].scope
    BY <1>1, <1>2 DEF CmdsInv, CmdInv, FileInv
<1>6. CASE homes' = homes
    BY <1>1, <1>2, <1>3, <1>4, <1>6 DEF HomeOf
<1>7. CASE cmd[c].scope # None /\ homes' = [homes EXCEPT ![cmd[c].scope] = @ \cup {cmd[c].file}]
  <2>1. /\ homes'[t] \subseteq {t, Shared}
        /\ t \in homes'[t] => t \in exist'
        /\ Shared \in homes'[t] => owner' = t
    BY <1>1, <1>2, <1>5, <1>7 DEF HomeOf, StoreTypeOK
  <2> QED BY <1>1, <1>2, <1>3, <1>4, <2>1 DEF HomeOf
<1> QED BY <1>6, <1>7 DEF Sync

\* The choice of a file is what the command then knows.
LEMMA Settled ==
    ASSUME CmdsInv, NEW c \in Commands, NEW f, Opens(c, f)
    PROVE  cpc'[c] \in {"read", "open"} /\ cmd'[c].file = f
<1>1. PICK m \in CmdRecords : m = cmd[c]
    BY DEF CmdsInv
<1>2. [m EXCEPT !.file = f].file = f
    BY DEF CmdRecords
<1> QED BY <1>1, <1>2 DEF Opens, Goto, CmdsInv

LEMMA ChooseHome ==
    ASSUME StoreTypeOK, CmdsInv, HomeInv, NEW c \in Commands, SharedGrows, Choose(c)
    PROVE  HomeInv'
<1>1. UNCHANGED <<exist, owner, homes>>
    BY DEF Choose, storeVars
<1>2. \A d \in Commands \ {c} : cpc'[d] = cpc[d] /\ cmd'[d] = cmd[d]
    BY CommandAlone DEF CommandStep
<1>3. ASSUME NEW f \in Files, f \notin Tokens \ exist, Opens(c, f) PROVE HomeInv'
    BY <1>1, <1>2, <1>3, Settled, SettlesKeeps
<1>4. CASE cmd[c].scope = None /\ Opens(c, Shared)
    BY <1>3, <1>4, CastAssumption DEF Files
<1>5. CASE cmd[c].scope \in exist /\ Opens(c, cmd[c].scope)
    BY <1>3, <1>5 DEF StoreTypeOK
<1>6. CASE cmd[c].scope \in Tokens \ exist /\ Goto(c, "legacy") /\ UNCHANGED cmd
    BY <1>6, LookKeeps
<1> QED BY <1>4, <1>5, <1>6 DEF Choose

LEMMA LegacyHome ==
    ASSUME StoreTypeOK, CmdsInv, HomeInv, NEW c \in Commands, SharedGrows, Legacy(c) \/ Marker(c)
    PROVE  HomeInv'
<1>1. UNCHANGED <<exist, owner, homes>>
    BY DEF Legacy, Marker, storeVars
<1>2. \A d \in Commands \ {c} : cpc'[d] = cpc[d] /\ cmd'[d] = cmd[d]
    BY CommandAlone DEF CommandStep
<1>3. cpc[c] \in {"legacy", "marker"} /\ cmd[c].scope \in Tokens
    BY KnownTypes DEF Legacy, Marker, At, CmdsInv, CmdInv, ScopeInv, Stored
<1>4. CASE Shared \notin exist /\ Opens(c, cmd[c].scope)
    BY <1>1, <1>2, <1>3, <1>4, Settled, SettlesKeeps DEF Files
<1>5. CASE owner # None /\ Decides(c) /\ Marker(c)
    BY <1>1, <1>5, DecidesHome DEF CommandStep, Marker, At
<1>6. CASE UNCHANGED cmd /\ \E p \in {"marker", "claim"} : Goto(c, p)
  <2>1. cpc'[c] \in {"marker", "claim"}
    BY <1>6 DEF Goto, CmdsInv
  <2>2. \A t \in Tokens : \A d \in Commands :
            (Opening(d, t)' => Opening(d, t)) /\ (Seeking(d, t)' => Seeking(d, t))
    BY <1>2, <1>3, <1>6, <2>1 DEF Opening, Seeking
  <2> QED BY <1>1, <2>2, HomeFrame DEF SharedGrows
<1> QED BY <1>4, <1>5, <1>6 DEF Legacy, Marker

LEMMA HomeKept ==
    ASSUME StoreTypeOK, CmdsInv, HomeInv, NEW c \in Commands, SharedGrows, CommandStep(c)
    PROVE  HomeInv'
<1>1. CASE Choose(c) \/ Legacy(c) \/ Marker(c) \/ Claim(c) \/ Open(c) \/ Sync(c)
    BY <1>1, ChooseHome, LegacyHome, ClaimHome, OpenHome, SyncHome
<1>2. CASE ~(Choose(c) \/ Legacy(c) \/ Marker(c) \/ Claim(c) \/ Open(c) \/ Sync(c))
  <2>1. UNCHANGED <<exist, owner, homes>>
    BY <1>2 DEF CommandStep, Start, Cat, Fetch, Truncate, Put, Rerun, Scope, Host, Bearer,
                Read, Post, Imported, storeVars
  <2>2. \A d \in Commands \ {c} : cpc'[d] = cpc[d] /\ cmd'[d] = cmd[d]
    BY CommandAlone
  <2>3. cpc'[c] \notin {"open", "legacy", "marker", "claim"}
    <3> USE DEF CmdsInv, Goto, At
    <3>1. CASE Start(c) \/ Cat(c) \/ Fetch(c) \/ Truncate(c) \/ Put(c)
      BY <3>1 DEF Start, Cat, Fetch, Truncate, Put, Ends
    <3>2. CASE Rerun(c) \/ Scope(c) \/ Host(c) \/ Bearer(c)
      BY <3>2 DEF Rerun, Again, Ends, Scope, Host, Bearer
    <3>3. CASE Read(c) \/ Post(c) \/ Imported(c)
      BY <3>3 DEF Read, Post, Imported, Ends, Fails
    <3> QED BY <1>2, <3>1, <3>2, <3>3 DEF CommandStep
  <2>4. \A t \in Tokens : \A d \in Commands :
            (Opening(d, t)' => Opening(d, t)) /\ (Seeking(d, t)' => Seeking(d, t))
    BY <2>2, <2>3 DEF Opening, Seeking
  <2> QED BY <2>1, <2>4, HomeFrame DEF SharedGrows
<1> QED BY <1>1, <1>2

LEMMA CommandGrows ==
    ASSUME CmdsInv, StoreTypeOK, NEW c \in Commands, CommandStep(c)
    PROVE  /\ SharedGrows /\ UNCHANGED <<fileVars, loginVars>>
           /\ causes' \cap PairCauses = causes \cap PairCauses
<1>1. CASE UNCHANGED <<credVars, tokenVars, storeVars>>
    BY <1>1, Quiet DEF credVars
<1>2. CASE Fetch(c) \/ Sync(c)
    BY <1>2 DEF Fetch, Sync, SharedGrows, credVars, tokenVars, storeVars
<1>3. CASE Truncate(c) \/ Put(c)
  <2>1. cmd[c].env # None
    BY <1>3 DEF Truncate, Put, At, CmdsInv, CmdInv, EnvInv
  <2> QED BY <1>3, <2>1, CastAssumption
          DEF Truncate, Put, SharedGrows, credVars, storeVars, StoreTypeOK
<1>4. CASE Bearer(c)
    BY <1>4 DEF Bearer, SharedGrows, tokenVars, storeVars, PairCauses
<1>5. CASE Claim(c)
    BY <1>5 DEF Claim, Inherits, SharedGrows, tokenVars, PairCauses
<1>6. CASE Open(c)
    BY <1>6 DEF Open, SharedGrows, tokenVars, PairCauses
<1>7. CASE Start(c) \/ Cat(c) \/ Rerun(c) \/ Scope(c) \/ Host(c) \/ Choose(c) \/ Legacy(c)
           \/ Marker(c) \/ Read(c) \/ Post(c) \/ Imported(c)
    BY <1>1, <1>7 DEF Start, Cat, Rerun, Scope, Host, Choose, Legacy, Marker, Read, Post, Imported
<1> QED BY <1>2, <1>3, <1>4, <1>5, <1>6, <1>7 DEF CommandStep

-----------------------------------------------------------------------------
LEMMA SitesInitially == Init => SitesInv
<1> SUFFICES ASSUME Init PROVE SitesInv
    OBVIOUS
<1> USE SiteAssumption, CastAssumption
<1>1. CredInv
    BY CredInitially DEF Init
<1>2. PICK held \in cast.held :
          /\ exist = IF held = {} THEN {} ELSE {Shared}
          /\ rows = [f \in Files |-> IF f = Shared THEN held ELSE {}]
    BY DEF Init
<1>3. held \subseteq Sites /\ cast \in Casts
    BY <1>2 DEF Init
<1>4. StoreTypeOK
    BY <1>1, <1>2, <1>3 DEF Init, CredInit, StoreTypeOK, CredInv, CredTypeOK, Files
<1>5. CmdsInv
  <2>1. \A c \in Commands : CmdInv(c)
    BY DEF Init, CmdInv, EnvInv, ScopeInv, FileInv, PostInv, NoCmd
  <2> QED BY <2>1, NothingKnown DEF Init, CmdsInv, Points
<1>6. StoresArePure /\ ReadsOwnSite
    BY <1>2 DEF Init, StoresArePure, ReadsOwnSite, Files
<1>7. HomeInv
    BY DEF Init, HomeInv, HomeOf, Own, Opening, Seeking
<1> QED BY <1>1, <1>4, <1>5, <1>6, <1>7 DEF SitesInv

LEMMA SitesStep == SitesInv /\ [Next]_vars => SitesInv'
<1> SUFFICES ASSUME SitesInv, [Next]_vars PROVE SitesInv'
    OBVIOUS
<1> USE DEF SitesInv
<1>t. CredTypeOK
    BY DEF CredInv
<1>1. ASSUME NEW l \in Logins, LoginStep(l), UNCHANGED <<cast, tokenVars, storeVars, cpc, cmd>>
      PROVE  SitesInv'
  <2>1. SharedGrows /\ StoreTypeOK' /\ causes' \ PairCauses = causes \ PairCauses
    BY <1>1, LoginGrows
  <2>2. CredInv' /\ CmdsInv'
    BY <1>1, <2>1, CredStep, OthersKeep
  <2>3. StoresArePure' /\ ReadsOwnSite'
    BY <1>1, <2>1, PureFrame, ReadsFrame DEF storeVars
  <2>4. HomeInv'
    BY <1>1, <2>1, HomeFrame DEF storeVars, Opening, Seeking
  <2> QED BY <2>1, <2>2, <2>3, <2>4
<1>2. ASSUME NEW c \in Commands, CommandStep(c) PROVE SitesInv'
  <2>1. /\ SharedGrows /\ UNCHANGED <<fileVars, loginVars>>
        /\ causes' \cap PairCauses = causes \cap PairCauses
    BY <1>2, CommandGrows
  <2>2. CredInv'
    BY <2>1, CredFrame
  <2>3. StoreTypeOK' /\ CmdsInv'
    BY <1>t, <1>2, StoreKeeps, CommandKeeps
  <2>4. StoresArePure' /\ ReadsOwnSite' /\ HomeInv'
    BY <1>2, <2>1, PureKept, ReadsKept, HomeKept
  <2> QED BY <2>2, <2>3, <2>4
<1>3. CASE (\E s \in Sites : Age(s)) \/ (\E t \in Tokens : Expire(t))
  <2>1. /\ StoreTypeOK' /\ SharedGrows
        /\ UNCHANGED <<credVars, exist, rows, owner, homes, cpc, cmd>>
    BY <1>3, ClockKeeps
  <2>2. CredInv' /\ CmdsInv'
    BY <2>1, CredFrame, OthersKeep DEF credVars
  <2>3. StoresArePure' /\ ReadsOwnSite'
    BY <2>1, PureFrame, ReadsFrame DEF credVars
  <2>4. HomeInv'
    BY <2>1, HomeFrame DEF credVars, Opening, Seeking
  <2> QED BY <2>1, <2>2, <2>3, <2>4
<1>4. CASE UNCHANGED vars
  <2>1. SharedGrows /\ UNCHANGED <<fileVars, loginVars, causes, rows, owner, exist, homes, cpc, cmd>>
    BY <1>4, Quiet DEF vars, credVars, storeVars
  <2>2. CredInv' /\ CmdsInv' /\ StoresArePure' /\ ReadsOwnSite'
    BY <2>1, CredFrame, OthersKeep, PureFrame, ReadsFrame
  <2>3. StoreTypeOK'
    BY <1>4 DEF vars, StoreTypeOK, credVars, tokenVars, storeVars
  <2>4. HomeInv'
    BY <2>1, HomeFrame DEF Opening, Seeking
  <2> QED BY <2>2, <2>3, <2>4
<1> QED BY <1>1, <1>2, <1>3, <1>4 DEF Next

\* The inductive invariant holds throughout.
THEOREM SitesInvariant == Spec => []SitesInv
<1>1. Init => SitesInv
    BY SitesInitially
<1>2. SitesInv /\ [Next]_vars => SitesInv'
    BY SitesStep
<1> QED BY <1>1, <1>2, PTL DEF Spec

\* The two files, the token files, the stores and the commands keep their
\* shape; a token file never holds another site's token.
THEOREM SitesTyped == Spec => []TypeOK
<1>1. SitesInv => TypeOK
    BY DEF SitesInv, CredInv, StoreTypeOK, CmdsInv, CmdInv, TypeOK
<1> QED BY <1>1, SitesInvariant, PTL

\* A login finds its own token in the file, or none, when it publishes the
\* config, for any number of logins and logouts (saveCredentialsThenConfig).
THEOREM TokenStays == Spec => []PublishedTokenStays
<1>1. SitesInv => PublishedTokenStays
    BY DEF SitesInv, CredInv
<1> QED BY <1>1, SitesInvariant, PTL

\* Between logins the token and the host belong together, unless a logout
\* overlapped a login, a login was killed between its two files, or could not
\* put the first one back (saveCredentialsThenConfig, ClearTokens).
THEOREM PairExplained == Spec => []PairKept
<1>1. SitesInv => PairKept
    BY DEF SitesInv, CredInv, PairInv, Paired, PairKept
<1> QED BY <1>1, SitesInvariant, PTL

\* data.db serves at most the credential that owns it (claimLegacyUnscopedDB).
THEOREM ClaimsHold == Spec => []ClaimHolds
<1>1. SitesInv => ClaimHolds
    BY DEF SitesInv, CmdsInv, CmdInv, FileInv, ClaimHolds
<1> QED BY <1>1, SitesInvariant, PTL

\* A credential's store holds its own tenant's rows only, with the exceptions
\* StoresArePure names (configureDefaultDBScope, newClient).
THEOREM StoresStayPure == Spec => []StoresArePure
<1>1. SitesInv => StoresArePure
    BY DEF SitesInv
<1> QED BY <1>1, SitesInvariant, PTL

\* A local read shows no other tenant's rows than the one asked for, with the
\* exceptions ReadsOwnSite names (run_cli, openStoreForRead).
THEOREM ReadsExplained == Spec => []ReadsOwnSite
<1>1. SitesInv => ReadsOwnSite
    BY DEF SitesInv
<1> QED BY <1>1, SitesInvariant, PTL

\* One credential's rows are in one file (defaultDBPathInDir).
THEOREM OneStoreEach == Spec => []OneStore
<1>1. ASSUME SitesInv, causes \cap {"declined", "appeared"} = {}, NEW t \in Tokens
      PROVE  Cardinality(homes[t]) <= 1
  <2>1. HomeOf(t) /\ StoreTypeOK
    BY <1>1 DEF SitesInv, HomeInv
  <2>2. ~(t \in homes[t] /\ Shared \in homes[t])
    BY <2>1, SiteAssumption DEF HomeOf, Own, StoreTypeOK
  <2>3. homes[t] \subseteq {t} \/ homes[t] \subseteq {Shared}
    BY <2>1, <2>2 DEF HomeOf
  <2>4. homes[t] = {} \/ homes[t] = {t} \/ homes[t] = {Shared}
    BY <2>3
  <2>5. Cardinality({}) = 0 /\ Cardinality({t}) = 1 /\ Cardinality({Shared}) = 1
    BY FS_EmptySet, FS_Singleton
  <2> QED BY <2>4, <2>5
<1>2. SitesInv => OneStore
    BY <1>1 DEF OneStore
<1> QED BY <1>2, SitesInvariant, PTL

\* Two posts of a record mean a rerun, and the rerun a refused token or a
\* failure that read like one (swc, newImportCmd).
THEOREM RepeatsBounded == Spec => []RepeatsExplained
<1>1. ASSUME SitesInv, NEW c \in Commands, NEW r \in 1..Records
      PROVE  /\ cmd[c].posts[r] <= 2
             /\ cmd[c].posts[r] = 2 =>
                   cmd[c].again /\ cmd[c].because \cap {"expired", "stray"} # {}
  <2>1. PostInv(c)
    BY <1>1 DEF SitesInv, CmdsInv, CmdInv
  <2>2. PICK m \in CmdRecords : m = cmd[c]
    BY <1>1 DEF SitesInv, CmdsInv
  <2>3. m.posts[r] \in Nat
    BY <2>2 DEF CmdRecords
  <2>4. m.posts[r] <= (IF m.again THEN 1 ELSE 0) + 1
    <3>1. m.posts[r] <= (IF m.again THEN 1 ELSE 0) + (IF r < m.record THEN 1 ELSE 0)
      BY <2>1, <2>2 DEF PostInv
    <3> QED BY <2>3, <3>1
  <2> QED BY <2>1, <2>2, <2>3, <2>4 DEF PostInv
<1>2. SitesInv => RepeatsExplained
    BY <1>1 DEF RepeatsExplained
<1> QED BY <1>2, SitesInvariant, PTL

=============================================================================
