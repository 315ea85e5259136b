----------------------------- MODULE Credentials -----------------------------
(***************************************************************************)
(* Saved credentials of the voltage CLI (src/auth.rs, src/config.rs): the   *)
(* commands that use, refresh, save, replace and remove the credential of   *)
(* one account name, run by several processes that share a configuration    *)
(* directory, its lock, the keychain and the auth service.                  *)
(*                                                                         *)
(* A process reads config.toml once, when it starts, and again only where   *)
(* the code reloads it; it keeps a secret it read until it takes the lock.  *)
(* Every file or keychain operation may fail, a write also after it took    *)
(* effect; a request to the auth service may lose its answer, or be served  *)
(* after its process gave up; Ctrl-C reaches a process where it awaits and  *)
(* a kill anywhere.                                                         *)
(*                                                                         *)
(* Simplifications.  There is one account name, one profile name for each   *)
(* process, and a secret is a session and the number of its refresh token.  *)
(* The auth service is external: a refresh token is single use, revoking a  *)
(* spent one does nothing, a session answers only at its own origin.        *)
(***************************************************************************)
EXTENDS Naturals

CONSTANTS
    Procs,          \* processes that run one command each
    Plans,          \* the commands that may be run
    Origins,        \* auth URLs
    DefaultOrigin,  \* AUTH_URL, recorded with an imported API key
    FirstOrigin,    \* the auth URL of the login saved before any of them
    First,          \* the session of that login
    ApiKey,         \* the secret of an imported API key
    Nobody,         \* who holds a lock that is free
    Nothing,        \* no account, no secret, no request
    MaxGen          \* how often one session is refreshed

Stores == {"keychain", "file"}
Kinds == {"use", "watch", "login", "import", "logout", "local", "profile"}
AllPlans == [kind: Kinds, origin: Origins, store: Stores \cup {"default"}]

ASSUME PlansAreCommands == Plans \subseteq AllPlans
ASSUME OriginsAreKnown == DefaultOrigin \in Origins /\ FirstOrigin \in Origins
ASSUME FirstIsNoProcess == First \notin Procs /\ Nobody \notin Procs
ASSUME GenerationsAreNatural == MaxGen \in Nat

\* A login creates at most one session, so a session is named by its process.
Sessions == {First} \cup Procs
Logins == [session: Sessions, gen: 0..MaxGen]
Secrets == Logins \cup {ApiKey}

ASSUME SecretsAreNotNothing == Nothing \notin Secrets /\ ApiKey \notin Logins

Accounts == [kind: {"login", "key"}, store: Stores, origin: Origins]
Configs == [account: Accounts \cup {Nothing}, profiles: SUBSET Procs]

ASSUME NothingIsApart == Nothing \notin Accounts \cup Stores \cup [account: Accounts, login: Logins]

VARIABLES
    plan,       \* the command of each process
    run,        \* its local state
    lock,       \* who holds credentials.lock
    file,       \* config.toml
    secret,     \* the secret in each store
    session,    \* the auth service's sessions
    expired,    \* logins whose access token has expired
    wire,       \* the last session-changing request of each process
    told,       \* sessions a person was told about, or whose process was killed
    unsaid,     \* sessions whose refresh a stopped watch gave up without a word
    leftover    \* stores a person was told may hold a secret, or likewise

disk == <<file, secret>>
server == <<session, expired, wire>>
history == <<told, unsaid, leftover>>
vars == <<plan, run, lock, disk, server, history>>

Locations ==
    {"start", "read", "lock", "reread", "refreshing", "store", "exchange", "watching",
     "name", "ask", "polling", "identify", "take", "write", "save", "discard", "saved",
     "undo", "putback", "resave", "disown", "disowning", "revoking",
     "logout", "logging out", "remove", "forget", "profile", "over", "dead"}

Results ==
    {"none", "used", "unknown", "unreadable", "expired", "transport", "write failed",
     "locked out", "in use", "denied", "saved", "not saved", "logged out", "not logged out",
     "interrupted", "stopped"}

\* SessionChange
Marks == {"none", "refresh", "login", "logout", "revoke"}

OriginOf(s) == IF s = First THEN FirstOrigin ELSE plan[s].origin

Fresh(login) == login \notin expired

\* Session s with generation g, as the auth service sees it.
Live(s) == session[s].state = "live"
Current(login) == Live(login.session) /\ session[login.session].gen = login.gen

TypeOK ==
    /\ plan \in [Procs -> Plans]
    /\ run \in [Procs -> [pc: Locations,
                          mem: Configs,
                          cache: [store: Stores, secret: Secrets] \cup {Nothing},
                          hand: Secrets \cup {Nothing},
                          entry: Accounts \cup {Nothing},
                          old: [account: Accounts, login: Logins] \cup {Nothing},
                          mark: Marks, watching: BOOLEAN,
                          result: Results, hint: BOOLEAN]]
    /\ lock \in Procs \cup {Nobody}
    /\ file \in Configs
    /\ secret \in [Stores -> Secrets \cup {Nothing}]
    /\ session \in [Sessions -> [state: {"none", "live", "revoked"}, gen: 0..MaxGen]]
    /\ expired \subseteq Logins
    /\ wire \in [Procs -> [op: {"refresh", "revoke"}, login: Logins, origin: Origins,
                           answer: {"none", "ok", "refused"}]
                          \cup [op: {"issue"}, answer: {"none", "ok"}] \cup {Nothing}]
    /\ told \subseteq Sessions
    /\ unsaid \subseteq Sessions
    /\ leftover \subseteq Stores

FirstLogin == [session |-> First, gen |-> 0]

\* Nothing saved, an API key, or a login in either store.
Init ==
    /\ plan \in [Procs -> Plans]
    /\ \E a \in Accounts \cup {Nothing}:
        /\ a # Nothing => a.origin = IF a.kind = "login" THEN FirstOrigin ELSE DefaultOrigin
        /\ file = [account |-> a, profiles |-> {}]
        /\ secret = [s \in Stores |->
                        IF a = Nothing \/ s # a.store THEN Nothing
                        ELSE IF a.kind = "login" THEN FirstLogin ELSE ApiKey]
        /\ session = [s \in Sessions |->
                        [state |-> IF s = First /\ a # Nothing /\ a.kind = "login"
                                   THEN "live" ELSE "none",
                         gen |-> 0]]
    /\ run = [p \in Procs |->
                [pc |-> "start", mem |-> file, cache |-> Nothing, hand |-> Nothing,
                 entry |-> Nothing, old |-> Nothing, mark |-> "none", watching |-> FALSE,
                 result |-> "none", hint |-> FALSE]]
    /\ lock = Nobody
    /\ expired = {}
    /\ wire = [p \in Procs |-> Nothing]
    /\ told = {}
    /\ unsaid = {}
    /\ leftover = {}

-----------------------------------------------------------------------------
(* Steps of a process *)

Release(p) == lock' = IF lock = p THEN Nobody ELSE lock

\* The command ends, and with it the lock it may hold.
End(p, result) ==
    /\ run' = [run EXCEPT ![p].pc = "over", ![p].result = result]
    /\ Release(p)

Goto(p, l) ==
    /\ run' = [run EXCEPT ![p].pc = l]
    /\ UNCHANGED lock

\* A write reports success only when it took effect; a failed one may have taken effect.
SecretWrite(store, s, ok) ==
    \/ secret' = [secret EXCEPT ![store] = s]
    \/ ~ok /\ UNCHANGED secret

ConfigWrite(c, ok) ==
    \/ file' = c
    \/ ~ok /\ UNCHANGED file

Ask(p, request) == wire' = [wire EXCEPT ![p] = request]

Request(op, login, origin) ==
    [op |-> op, login |-> login, origin |-> origin, answer |-> "none"]

FirstStep(kind) ==
    CASE kind \in {"use", "watch"} -> "read"
      [] kind = "login" -> "name"
      [] OTHER -> "lock"

\* Settings::open
Open(p) ==
    /\ run[p].pc = "start"
    /\ run' = [run EXCEPT ![p].pc = FirstStep(plan[p].kind), ![p].mem = file]
    /\ UNCHANGED <<plan, lock, disk, server, history>>

\* read_secret: the secret this process holds for the store, or the one in the store.
Held(p, store) ==
    LET c == run[p].cache IN
    IF c # Nothing /\ c.store = store THEN c.secret ELSE secret[store]

Cached(store, s) == [store |-> store, secret |-> s]

\* Resolver::resolve up to the lock.  Any read of a store may fail.
Read(p) ==
    LET a == run[p].mem.account
        s == Held(p, a.store)
    IN
    /\ run[p].pc = "read"
    /\ \/ a = Nothing /\ End(p, "unknown")
       \/ a # Nothing /\ End(p, "unreadable")
       \/ a # Nothing /\ a.kind = "key" /\ s = ApiKey /\ End(p, "used")
       \/ /\ a # Nothing /\ s \in Logins
          /\ a.kind = "key" \/ Fresh(s)
          /\ run' = [run EXCEPT ![p].pc = "exchange", ![p].hand = s,
                                ![p].cache = Cached(a.store, s)]
          /\ UNCHANGED lock
       \/ /\ a # Nothing /\ s \in Logins
          /\ a.kind = "login" /\ ~Fresh(s)
          /\ run' = [run EXCEPT ![p].pc = "lock", ![p].cache = Cached(a.store, s)]
          /\ UNCHANGED lock
    /\ UNCHANGED <<plan, disk, server, history>>

Locked(kind) ==
    CASE kind \in {"use", "watch"} -> "reread"
      [] kind \in {"login", "import"} -> "take"
      [] kind \in {"logout", "local"} -> "logout"
      [] kind = "profile" -> "profile"

\* MUTANT of Lock: the secrets read before the lock are kept.
LockKeepsSecrets(p) ==
    /\ run[p].pc = "lock"
    /\ lock = Nobody /\ lock' = p
    /\ run' = [run EXCEPT ![p].pc = Locked(plan[p].kind)]
    /\ UNCHANGED <<plan, disk, server, history>>

\* Settings::lock: a process that gets the lock forgets the secrets it read; one that
\* waits too long gives up.
Lock(p) ==
    /\ run[p].pc = "lock"
    /\ \/ /\ lock = Nobody /\ lock' = p
          /\ run' = [run EXCEPT ![p].pc = Locked(plan[p].kind), ![p].cache = Nothing]
       \/ /\ lock # Nobody
          /\ IF plan[p].kind = "login" THEN Goto(p, "disown") ELSE End(p, "locked out")
    /\ UNCHANGED <<plan, disk, server, history>>

\* Under the lock the login is read again, and refreshed if no other process did: the
\* refresh is marked and its request leaves.
Reread(p) ==
    LET a == run[p].mem.account
        s == Held(p, a.store)
    IN
    /\ run[p].pc = "reread"
    /\ \/ End(p, "unreadable") /\ UNCHANGED wire
       \/ /\ s \in Logins /\ Fresh(s)
          /\ run' = [run EXCEPT ![p].pc = "exchange", ![p].hand = s,
                                ![p].cache = Cached(a.store, s)]
          /\ Release(p)
          /\ UNCHANGED wire
       \/ /\ s \in Logins /\ ~Fresh(s)
          /\ run' = [run EXCEPT ![p].pc = "refreshing", ![p].hand = s, ![p].mark = "refresh",
                                ![p].cache = Cached(a.store, s)]
          /\ Ask(p, Request("refresh", s, a.origin))
          /\ UNCHANGED lock
    /\ UNCHANGED <<plan, disk, session, expired, history>>

\* MUTANT of Refreshed: a request without an answer is waited for.
RefreshedUntimed(p) ==
    /\ run[p].pc = "refreshing"
    /\ wire[p].answer = "ok"
    /\ run' = [run EXCEPT ![p].pc = "store", ![p].hand.gen = @ + 1]
    /\ UNCHANGED <<plan, lock, disk, server, history>>

\* AuthService::refresh: the answer, invalid_grant, or a failure of any other kind.
Refreshed(p) ==
    /\ run[p].pc = "refreshing"
    /\ \/ /\ wire[p].answer = "ok"
          /\ run' = [run EXCEPT ![p].pc = "store", ![p].hand.gen = @ + 1]
          /\ UNCHANGED <<lock, told>>
       \/ wire[p].answer = "refused" /\ End(p, "expired") /\ UNCHANGED told
       \/ End(p, "transport") /\ told' = told \cup {run[p].hand.session}
    /\ UNCHANGED <<plan, disk, server, unsaid, leftover>>

\* write_credential of the refreshed login, in the store this process knows of.  Its error
\* is all a person hears of a session whose new refresh token is lost.
StoreRefreshed(p) ==
    LET store == run[p].mem.account.store
        login == run[p].hand
    IN
    /\ run[p].pc = "store"
    /\ \/ /\ SecretWrite(store, login, TRUE)
          /\ run' = [run EXCEPT ![p].pc = "exchange", ![p].mark = "none",
                                ![p].cache = Cached(store, login)]
          /\ Release(p)
          /\ UNCHANGED told
       \/ /\ SecretWrite(store, login, FALSE)
          /\ End(p, "write failed")
          /\ told' = told \cup {login.session}
    /\ UNCHANGED <<plan, file, server, unsaid, leftover>>

\* organization_token, and the request it is for: an API command ends, a watch goes on.
Exchange(p) ==
    LET login == run[p].hand IN
    /\ run[p].pc = "exchange"
    /\ \/ /\ Live(login.session) /\ OriginOf(login.session) = run[p].mem.account.origin
          /\ \/ plan[p].kind = "use" /\ End(p, "used")
             \/ /\ plan[p].kind = "watch"
                /\ run' = [run EXCEPT ![p].pc = "watching", ![p].watching = TRUE]
                /\ UNCHANGED lock
       \/ End(p, "expired")
       \/ End(p, "transport")
    /\ UNCHANGED <<plan, disk, server, history>>

\* A watch whose token is rejected (401) resolves its credential again.
Reauthorize(p) ==
    /\ run[p].pc = "watching"
    /\ Goto(p, "read")
    /\ UNCHANGED <<plan, disk, server, history>>

-----------------------------------------------------------------------------
(* login and import *)

\* is_login_at
LoginAt(a, origin) == a # Nothing /\ a.kind = "login" /\ a.origin = origin

\* A name that cannot be replaced, or whose secret cannot be read, is refused before the
\* browser step.
CheckName(p) ==
    LET a == run[p].mem.account IN
    /\ run[p].pc = "name"
    /\ \/ a = Nothing /\ Goto(p, "ask")
       \/ a # Nothing /\ End(p, "in use")
       \/ /\ LoginAt(a, plan[p].origin) /\ Held(p, a.store) # Nothing
          /\ run' = [run EXCEPT ![p].pc = "ask",
                                ![p].cache = Cached(a.store, Held(p, a.store))]
          /\ UNCHANGED lock
    /\ UNCHANGED <<plan, disk, server, history>>

\* poll_device_grant: each poll may be the one that issues the session, so it is marked
\* before it leaves.
AskGrant(p) ==
    /\ run[p].pc = "ask"
    /\ \/ /\ run' = [run EXCEPT ![p].pc = "polling", ![p].mark = "login"]
          /\ Ask(p, [op |-> "issue", answer |-> "none"])
          /\ UNCHANGED lock
       \/ End(p, "denied") /\ UNCHANGED wire
    /\ UNCHANGED <<plan, disk, session, expired, history>>

\* MUTANT of Polled: the mark is cleared when the session is issued.
PolledSettles(p) ==
    /\ run[p].pc = "polling"
    /\ wire[p] # Nothing /\ wire[p].answer = "ok"
    /\ run' = [run EXCEPT ![p].pc = "identify", ![p].mark = "none",
                          ![p].hand = [session |-> p, gen |-> 0]]
    /\ UNCHANGED <<plan, lock, disk, server, history>>

\* The session, authorization_pending (which settles the mark), a denial, or no answer.
Polled(p) ==
    /\ run[p].pc = "polling"
    /\ \/ /\ wire[p].answer = "ok"
          /\ run' = [run EXCEPT ![p].pc = "identify",
                                ![p].hand = [session |-> p, gen |-> 0]]
          /\ UNCHANGED <<lock, wire, told>>
       \/ /\ wire[p].answer = "none"
          /\ run' = [run EXCEPT ![p].pc = "ask", ![p].mark = "none"]
          /\ Ask(p, Nothing)
          /\ UNCHANGED <<lock, told>>
       \/ wire[p].answer = "none" /\ End(p, "denied") /\ Ask(p, Nothing) /\ UNCHANGED told
       \/ End(p, "transport") /\ told' = told \cup {p} /\ UNCHANGED wire
    /\ UNCHANGED <<plan, disk, session, expired, unsaid, leftover>>

\* save_login: the user, and the account to save.  Without --credential-store a login it
\* replaces keeps its store.
Identify(p) ==
    LET a == run[p].mem.account
        origin == plan[p].origin
        store == CASE plan[p].store # "default" -> plan[p].store
                   [] plan[p].store = "default" /\ LoginAt(a, origin) -> a.store
                   [] OTHER -> "keychain"
    IN
    /\ run[p].pc = "identify"
    /\ \/ /\ run' = [run EXCEPT ![p].pc = "lock",
                                ![p].entry = [kind |-> "login", store |-> store,
                                              origin |-> origin]]
          /\ UNCHANGED lock
       \/ Goto(p, "disown")
    /\ UNCHANGED <<plan, disk, server, history>>

\* The account that `voltage auth import` saves.
Imported(p) ==
    [kind |-> "key", store |-> IF plan[p].store = "file" THEN "file" ELSE "keychain",
     origin |-> DefaultOrigin]

Entry(p) == IF plan[p].kind = "import" THEN Imported(p) ELSE run[p].entry

\* put_account under the lock: the configuration is read again.  A saved account is refused
\* unless it is a login at the same origin, its secret can be read, and it is the same user's.
Take(p) ==
    LET a == file.account IN
    /\ run[p].pc = "take"
    /\ \/ /\ a = Nothing
          /\ run' = [run EXCEPT ![p].pc = "write", ![p].mem = file, ![p].entry = Entry(p)]
          /\ UNCHANGED lock
       \/ /\ plan[p].kind = "login" /\ LoginAt(a, plan[p].origin)
          /\ secret[a.store] \in Logins
          /\ run' = [run EXCEPT ![p].pc = "write", ![p].mem = file,
                                ![p].cache = Cached(a.store, secret[a.store]),
                                ![p].old = [account |-> a, login |-> secret[a.store]]]
          /\ UNCHANGED lock
       \/ /\ a # Nothing
          /\ \/ plan[p].kind = "import" /\ End(p, "in use")
             \/ /\ plan[p].kind = "login"
                /\ run' = [run EXCEPT ![p].pc = "disown", ![p].mem = file]
                /\ Release(p)
    /\ UNCHANGED <<plan, disk, server, history>>

NewSecret(p) == IF plan[p].kind = "import" THEN ApiKey ELSE run[p].hand

WriteSecret(p) ==
    LET store == run[p].entry.store IN
    /\ run[p].pc = "write"
    /\ \/ /\ SecretWrite(store, NewSecret(p), TRUE)
          /\ run' = [run EXCEPT ![p].pc = "save", ![p].cache = Cached(store, NewSecret(p))]
       \/ /\ SecretWrite(store, NewSecret(p), FALSE)
          /\ run' = [run EXCEPT ![p].pc = "undo", ![p].cache = Nothing]
    /\ UNCHANGED <<plan, lock, file, server, history>>

\* The replaced login is in the other store, so its secret stays behind.
Moves(p) == run[p].old # Nothing /\ run[p].old.account.store # run[p].entry.store

SaveAccount(p) ==
    LET c == [run[p].mem EXCEPT !.account = run[p].entry] IN
    /\ run[p].pc = "save"
    /\ \/ /\ ConfigWrite(c, TRUE)
          /\ run' = [run EXCEPT ![p].pc = IF Moves(p) THEN "discard" ELSE "saved",
                                ![p].mem = c]
       \/ /\ ConfigWrite(c, FALSE)
          /\ run' = [run EXCEPT ![p].pc = "undo", ![p].mem = c]
    /\ UNCHANGED <<plan, lock, secret, server, history>>

\* The sessions of which p holds a refresh token.
InHand(p) ==
    (IF run[p].hand \in Logins THEN {run[p].hand.session} ELSE {})
      \cup (IF run[p].old # Nothing THEN {run[p].old.login.session} ELSE {})

\* discard_secret: what cannot be removed is named in a warning.
DiscardSecret(store, s) ==
    \/ secret' = [secret EXCEPT ![store] = Nothing] /\ UNCHANGED history
    \/ /\ UNCHANGED secret
       /\ leftover' = leftover \cup {store}
       /\ told' = told \cup s
       /\ UNCHANGED unsaid

Discard(p) ==
    /\ run[p].pc = "discard"
    /\ DiscardSecret(run[p].old.account.store, {run[p].old.login.session})
    /\ Goto(p, "saved")
    /\ UNCHANGED <<plan, file, server>>

\* The lock is released; a login goes on to revoke the session it replaced.
Saved(p) ==
    /\ run[p].pc = "saved"
    /\ Release(p)
    /\ IF run[p].old = Nothing
         THEN /\ run' = [run EXCEPT ![p].pc = "over", ![p].result = "saved",
                                    ![p].mark = "none"]
              /\ UNCHANGED wire
         ELSE /\ run' = [run EXCEPT ![p].pc = "revoking", ![p].mark = "revoke"]
              /\ Ask(p, Request("revoke", run[p].old.login, plan[p].origin))
    /\ UNCHANGED <<plan, disk, session, expired, history>>

\* MUTANT of Undo: the new secret is left where it was written.
UndoKeepsSecret(p) ==
    /\ run[p].pc = "undo"
    /\ Goto(p, "putback")
    /\ UNCHANGED <<plan, disk, server, history>>

\* restore: the new secret goes, unless the old one is written over it.
Undo(p) ==
    /\ run[p].pc = "undo"
    /\ IF run[p].old = Nothing \/ Moves(p)
         THEN DiscardSecret(run[p].entry.store, InHand(p))
         ELSE UNCHANGED <<secret, history>>
    /\ Goto(p, "putback")
    /\ UNCHANGED <<plan, file, server>>

\* MUTANT of PutBack: a failed write is taken to have left the old secret.
PutBackTrusting(p) ==
    LET old == run[p].old IN
    /\ run[p].pc = "putback"
    /\ IF old = Nothing THEN UNCHANGED secret
       ELSE SecretWrite(old.account.store, old.login, FALSE)
    /\ run' = [run EXCEPT ![p].pc = "resave",
                          ![p].mem.account = IF old = Nothing THEN Nothing ELSE old.account]
    /\ UNCHANGED <<plan, lock, file, server, history>>

\* restore: the old secret is written back, or the store is found to hold it still.
PutBack(p) ==
    LET old == run[p].old IN
    /\ run[p].pc = "putback"
    /\ \/ /\ old = Nothing
          /\ run' = [run EXCEPT ![p].pc = "resave", ![p].mem.account = Nothing]
          /\ UNCHANGED secret
       \/ /\ old # Nothing
          /\ SecretWrite(old.account.store, old.login, FALSE)
          /\ \E hint \in BOOLEAN:
                /\ ~hint => secret'[old.account.store] = old.login
                /\ run' = [run EXCEPT ![p].pc = "resave", ![p].mem.account = old.account,
                                      ![p].hint = hint]
    /\ UNCHANGED <<plan, lock, file, server, history>>

StoreOf(c) == IF c.account = Nothing THEN Nothing ELSE c.account.store

\* restore: the configuration is saved again, or found to name the same store for the
\* account; otherwise a hint says that it could not be restored.
Resave(p) ==
    /\ run[p].pc = "resave"
    /\ ConfigWrite(run[p].mem, FALSE)
    /\ \E lost \in BOOLEAN:
        LET hint == lost \/ run[p].hint IN
        /\ ~lost => StoreOf(file') = StoreOf(run[p].mem)
        /\ run' = [run EXCEPT ![p].hint = hint,
                              ![p].pc = IF plan[p].kind = "login" THEN "disown" ELSE "over",
                              ![p].result = IF plan[p].kind = "login" THEN @ ELSE "not saved"]
        /\ told' = IF hint /\ run[p].old # Nothing
                   THEN told \cup {run[p].old.login.session} ELSE told
        /\ leftover' = IF lost /\ run[p].old # Nothing
                       THEN leftover \cup {run[p].old.account.store} ELSE leftover
    /\ Release(p)
    /\ UNCHANGED <<plan, secret, server, unsaid>>

\* login revokes the session it could not save.
Disown(p) ==
    /\ run[p].pc = "disown"
    /\ Goto(p, "disowning")
    /\ Ask(p, Request("revoke", run[p].hand, plan[p].origin))
    /\ UNCHANGED <<plan, disk, session, expired, history>>

\* The new or the replaced session is revoked, or a warning says that it may not be.
Revoked(p) ==
    /\ run[p].pc \in {"disowning", "revoking"}
    /\ run' = [run EXCEPT ![p].pc = "over", ![p].mark = "none",
                          ![p].result = IF run[p].pc = "revoking" THEN "saved" ELSE "not saved"]
    /\ \/ wire[p].answer = "ok" /\ UNCHANGED told
       \/ told' = told \cup {IF run[p].pc = "revoking" THEN run[p].old.login.session ELSE p}
    /\ UNCHANGED <<plan, lock, disk, server, unsaid, leftover>>

-----------------------------------------------------------------------------
(* logout, logout --local and profiles create *)

\* MUTANT of Logout: the lock does not span the revoke.
LogoutUnlocked(p) ==
    LET a == file.account IN
    /\ run[p].pc = "logout"
    /\ a # Nothing /\ a.kind = "login" /\ plan[p].kind = "logout" /\ secret[a.store] \in Logins
    /\ run' = [run EXCEPT ![p].pc = "logging out", ![p].mem = file, ![p].mark = "logout",
                          ![p].hand = secret[a.store]]
    /\ lock' = Nobody
    /\ Ask(p, Request("revoke", secret[a.store], a.origin))
    /\ UNCHANGED <<plan, disk, session, expired, history>>

\* Under the lock the configuration is read again, and the session's revoke leaves.
Logout(p) ==
    LET a == file.account IN
    /\ run[p].pc = "logout"
    /\ \/ a = Nothing /\ End(p, "unknown") /\ UNCHANGED wire
       \/ /\ a # Nothing /\ (a.kind = "key" \/ plan[p].kind = "local")
          /\ run' = [run EXCEPT ![p].pc = "remove", ![p].mem = file]
          /\ UNCHANGED <<lock, wire>>
       \/ /\ a # Nothing /\ a.kind = "login" /\ plan[p].kind = "logout"
          /\ End(p, "unreadable") /\ UNCHANGED wire
       \/ /\ a # Nothing /\ a.kind = "login" /\ plan[p].kind = "logout"
          /\ secret[a.store] \in Logins
          /\ run' = [run EXCEPT ![p].pc = "logging out", ![p].mem = file,
                                ![p].hand = secret[a.store], ![p].mark = "logout",
                                ![p].cache = Cached(a.store, secret[a.store])]
          /\ Ask(p, Request("revoke", secret[a.store], a.origin))
          /\ UNCHANGED lock
    /\ UNCHANGED <<plan, disk, session, expired, history>>

LogoutRevoked(p) ==
    /\ run[p].pc = "logging out"
    /\ \/ wire[p].answer = "ok" /\ Goto(p, "remove")
       \/ End(p, "not logged out")
    /\ UNCHANGED <<plan, disk, server, history>>

\* delete_credential, or with --local discard_credential, which leaves the session alone.
Remove(p) ==
    LET store == run[p].mem.account.store
        left == IF secret[store] \in Logins THEN {secret[store].session} ELSE {}
    IN
    /\ run[p].pc = "remove"
    /\ \/ /\ secret' = [secret EXCEPT ![store] = Nothing]
          /\ Goto(p, "forget")
          /\ told' = IF plan[p].kind = "local" THEN told \cup left ELSE told
          /\ UNCHANGED <<unsaid, leftover>>
       \/ /\ UNCHANGED secret
          /\ IF plan[p].kind = "local"
               THEN /\ Goto(p, "forget")
                    /\ told' = told \cup left
                    /\ leftover' = leftover \cup {store}
                    /\ UNCHANGED unsaid
               ELSE End(p, "not logged out") /\ UNCHANGED history
    /\ UNCHANGED <<plan, file, server>>

Forget(p) ==
    LET c == [run[p].mem EXCEPT !.account = Nothing] IN
    /\ run[p].pc = "forget"
    /\ \/ /\ ConfigWrite(c, TRUE)
          /\ run' = [run EXCEPT ![p].pc = "over", ![p].result = "logged out",
                                ![p].mark = "none"]
          /\ Release(p)
       \/ ConfigWrite(c, FALSE) /\ End(p, "not logged out")
    /\ UNCHANGED <<plan, secret, server, history>>

\* MUTANT of CreateProfile: the configuration is not read again under the lock.
CreateProfileUnread(p) ==
    LET c == [run[p].mem EXCEPT !.profiles = @ \cup {p}] IN
    /\ run[p].pc = "profile"
    /\ ConfigWrite(c, TRUE) /\ End(p, "saved")
    /\ UNCHANGED <<plan, secret, server, history>>

\* create_profile: reload, insert and save, with no await between.
CreateProfile(p) ==
    LET c == [file EXCEPT !.profiles = @ \cup {p}] IN
    /\ run[p].pc = "profile"
    /\ \/ file.account = Nothing /\ End(p, "unknown") /\ UNCHANGED file
       \/ file.account # Nothing /\ ConfigWrite(c, TRUE) /\ End(p, "saved")
       \/ file.account # Nothing /\ ConfigWrite(c, FALSE) /\ End(p, "not saved")
    /\ UNCHANGED <<plan, secret, server, history>>

Step(p) ==
    \/ Read(p) \/ Lock(p) \/ Reread(p) \/ Refreshed(p) \/ StoreRefreshed(p) \/ Exchange(p)
    \/ CheckName(p) \/ AskGrant(p) \/ Polled(p) \/ Identify(p) \/ Take(p) \/ WriteSecret(p)
    \/ SaveAccount(p) \/ Discard(p) \/ Saved(p) \/ Undo(p) \/ PutBack(p) \/ Resave(p)
    \/ Disown(p) \/ Revoked(p)
    \/ Logout(p) \/ LogoutRevoked(p) \/ Remove(p) \/ Forget(p) \/ CreateProfile(p)

-----------------------------------------------------------------------------
(* Ctrl-C and kills *)

\* Where a command awaits; between two of these the code runs without a pause.
Awaits ==
    {"lock", "refreshing", "exchange", "watching", "ask", "polling", "identify", "disowning",
     "revoking", "logging out"}

\* The session that the report of an interruption is about (SubmissionState::interrupted).
Named(p) ==
    CASE run[p].mark \in {"refresh", "logout"} -> {run[p].hand.session}
      [] run[p].mark = "login" -> {p}
      [] run[p].mark = "revoke" -> {run[p].old.login.session}
      [] OTHER -> {}

\* A watch only says that it stopped: whatever the mark, it names no session.
Interrupt(p) ==
    /\ run[p].pc \in Awaits
    /\ IF run[p].watching
         THEN /\ End(p, "stopped")
              /\ unsaid' = unsaid \cup Named(p)
              /\ UNCHANGED told
         ELSE /\ End(p, "interrupted")
              /\ told' = told \cup Named(p)
              /\ UNCHANGED unsaid
    /\ UNCHANGED <<plan, disk, server, leftover>>

\* SIGKILL, or the second Ctrl-C: what the process was changing is anyone's guess.
Kill(p) ==
    /\ run[p].pc \notin {"start", "over", "dead"}
    /\ run' = [run EXCEPT ![p].pc = "dead"]
    /\ Release(p)
    /\ told' = told \cup InHand(p) \cup {p}
    /\ leftover' = Stores
    /\ UNCHANGED <<plan, disk, server, unsaid>>

-----------------------------------------------------------------------------
(* The auth service, as the code and its tests use it *)

\* A request is served when it arrives, also after its process gave up.
Serve(p) ==
    /\ wire[p] # Nothing /\ wire[p].answer = "none"
    /\ \/ /\ wire[p].op = "issue"
          /\ session' = [session EXCEPT ![p].state = "live"]
          /\ wire' = [wire EXCEPT ![p].answer = "ok"]
       \/ /\ wire[p].op # "issue"
          /\ LET login == wire[p].login
                 s == login.session
                 known == Current(login) /\ OriginOf(s) = wire[p].origin
             IN
             \/ /\ wire[p].op = "refresh" /\ known
                /\ session' = [session EXCEPT ![s].gen = @ + 1]
                /\ wire' = [wire EXCEPT ![p].answer = "ok"]
             \/ /\ wire[p].op = "refresh" /\ ~known
                /\ wire' = [wire EXCEPT ![p].answer = "refused"]
                /\ UNCHANGED session
             \/ /\ wire[p].op = "revoke"
                /\ session' = IF known THEN [session EXCEPT ![s].state = "revoked"] ELSE session
                /\ wire' = [wire EXCEPT ![p].answer = "ok"]
    /\ UNCHANGED <<plan, run, lock, disk, expired, history>>

\* The access token of a saved login expires; its session is refreshed MaxGen times at most.
Expire(login) ==
    /\ login \in {secret[s] : s \in Stores} \cap Logins
    /\ login \notin expired /\ login.gen < MaxGen
    /\ expired' = expired \cup {login}
    /\ UNCHANGED <<plan, run, lock, disk, session, wire, history>>

Next ==
    \/ \E p \in Procs:
        Open(p) \/ Step(p) \/ Reauthorize(p) \/ Interrupt(p) \/ Kill(p) \/ Serve(p)
    \/ \E login \in Logins: Expire(login)

Spec == Init /\ [][Next]_vars

\* Every request and every wait for the lock has a limit.
Fairness == \A p \in Procs: WF_vars(Step(p))

FairSpec == Spec /\ Fairness

-----------------------------------------------------------------------------
(* Properties *)

Running(p) == run[p].pc \notin {"start", "over", "dead"}

\* While a refresh is in flight the saved login is the one it spends: no other process can
\* spend the same token, or save a login that the refreshed one would overwrite.  It rests
\* on the lock and on forgetting the secrets read before it (Settings::lock, resolve).
RefreshIsExclusive ==
    \A p \in Procs:
        run[p].pc \in {"refreshing", "store"} =>
            LET s == secret[run[p].mem.account.store] IN
            s \in Logins /\ s.session = run[p].hand.session
                         /\ (run[p].pc = "refreshing" => s = run[p].hand)

\* The next command finds this login saved.
Saves(login) ==
    /\ file.account # Nothing /\ file.account.kind = "login"
    /\ secret[file.account.store] = login

\* Every live session is saved where the next command finds it with its current refresh
\* token, or a running process holds it, or a person was told about it: neither a failed
\* login, nor a refresh, a replacement or a logout leaves a session behind in silence
\* (login's and save_login's comments on orphaned sessions).  The one exception is a watch:
\* Ctrl-C while it refreshes its login ends it with "Stopped watching payments." alone, so
\* the session whose refresh is served afterwards is orphaned and nobody hears of it.
NoSilentOrphan ==
    \A s \in Sessions:
        Live(s) => \/ Saves([session |-> s, gen |-> session[s].gen])
                   \/ s \in told
                   \/ s \in unsaid
                   \/ \E p \in Procs: Running(p) /\ s \in InHand(p) \cup {p}

\* A logout that reports success revoked the session it removed, although refreshes of it
\* may have been under way (logout's comment on the lock), or a person was told of the
\* session, or a watch was stopped in its refresh: served late, that refresh leaves the
\* logout a spent token, whose revoke does nothing and succeeds.
LogoutRevokes ==
    \A p \in Procs:
        run[p].result = "logged out" /\ plan[p].kind = "logout" /\ run[p].hand \in Logins
            => ~Live(run[p].hand.session) \/ run[p].hand.session \in told \cup unsaid

\* While no process holds the lock, every stored secret is the one its account reaches,
\* or a warning named it (add_account: "no stored secret is left that no account entry
\* reaches").
SecretsReachable ==
    lock = Nobody =>
        \A s \in Stores: secret[s] # Nothing => StoreOf(file) = s \/ s \in leftover

\* What a command reported as saved stays in the configuration, whatever other commands
\* save after it from what they read before (Settings::reload).
NoLostUpdate ==
    \A p \in Procs:
        plan[p].kind = "profile" /\ run[p].result = "saved" => p \in file.profiles

\* A put_account that fails without a hint leaves the account and the secret as they were,
\* or removes the new secret when there was none (put_account: "the saved account and
\* secret are restored").
Restored(p) ==
    LET old == run[p].old IN
    IF old = Nothing
    THEN /\ file'.account = Nothing
         /\ secret[run[p].entry.store] = Nothing \/ run[p].entry.store \in leftover
    ELSE file'.account = old.account /\ secret[old.account.store] = old.login

FailedSaveRestores ==
    [][\A p \in Procs: run[p].pc = "resave" /\ run'[p].pc \in {"disown", "over"} /\ ~run'[p].hint
                          => Restored(p)]_vars

\* The lock is not held for ever: requests made under it have limits.
LockIsReleased == \A p \in Procs: lock = p ~> lock # p

\* A login's tokens are only sent to the origin recorded with the login they belong to
\* (quality.md: "Refresh, exchange, and revoke that credential only at the recorded origin").
OriginBound ==
    \A p \in Procs:
        run[p].pc \in {"refreshing", "exchange"}
            => run[p].mem.account.origin = OriginOf(run[p].hand.session)

=============================================================================
