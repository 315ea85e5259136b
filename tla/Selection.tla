------------------------------ MODULE Selection ------------------------------
(***************************************************************************)
(* What a command line, the VOLTAGE_* variables and the saved settings     *)
(* select: the configuration directory, the scope, the credential, what    *)
(* `voltage context` says of them, and which variables were set in vain    *)
(* (src/config.rs, src/auth.rs, src/context.rs).                           *)
(*                                                                         *)
(* Absent values are None.  A variable that is no UUID is Malformed, a     *)
(* key of spaces Blank, a URL that base_url refuses BadUrl.                *)
(***************************************************************************)
EXTENDS Naturals, Sequences, FiniteSets, SequencesExt, Absence

CONSTANTS Malformed, Blank, BadUrl,
    DefaultDir,     \* $XDG_CONFIG_HOME/voltage, or $HOME/.config/voltage
    DefaultAuthUrl, \* AUTH_URL
    Relative        \* the directories that are not absolute paths

\* One part of a scope and where it came from.
Sourced(value, source) == [value |-> value, source |-> IF value = None THEN "unset" ELSE source]

\* A selection that fails: Error, with the parts of it that a report shows.
Ok == "ok"

-----------------------------------------------------------------------------
(* The directory and the scope *)

Directory(flags, env) ==
    IF flags.dir # None THEN Sourced(flags.dir, "flag")
    ELSE IF env.dir # None THEN Sourced(env.dir, "environment")
    ELSE Sourced(DefaultDir, "default")

Profile(flags, settings) == settings.profiles[flags.profile]
ProfileIsKnown(flags, settings) == flags.profile = None \/ flags.profile \in DOMAIN settings.profiles

\* MUTANT of Ambient: a profile that lacks a value leaves it to the environment.
AmbientAnyway(flags, value) == Sourced(value, "environment")

\* A variable, which a profile silences.
Ambient(flags, value) ==
    IF flags.profile # None THEN Sourced(None, "environment") ELSE Sourced(value, "environment")

FlagOr(flag, other) == IF flag # None THEN Sourced(flag, "flag") ELSE other

\* sourced_scope: flags, then the profile, then the environment.
Scope(flags, env, settings) ==
    [org |-> FlagOr(flags.org,
                IF flags.profile # None THEN Sourced(Profile(flags, settings).org, "profile")
                ELSE Ambient(flags, env.org)),
     envs |-> IF flags.envs # <<>> THEN [value |-> flags.envs, source |-> "flag"]
              ELSE IF flags.profile # None
              THEN [value |-> <<Profile(flags, settings).env>>, source |-> "profile"]
              ELSE [value |-> IF env.env = None THEN <<>> ELSE <<env.env>>,
                    source |-> Ambient(flags, env.env).source],
     wallet |-> FlagOr(flags.wallet, Ambient(flags, env.wallet)),
     account |-> FlagOr(flags.account,
                    IF flags.profile # None THEN Sourced(Profile(flags, settings).account, "profile")
                    ELSE Sourced(None, "profile"))]

\* A scope is refused for an unknown profile, or a variable in use that is no UUID.
ScopeError(flags, env, settings) ==
    IF ~ProfileIsKnown(flags, settings) THEN "unknown profile"
    ELSE LET scope == Scope(flags, env, settings) IN
         IF Malformed \in {scope.org.value, scope.wallet.value} \cup ToSet(scope.envs.value)
         THEN "no UUID" ELSE Ok

\* One --env is required of an operation bound to one environment.
SingleEnv(scope) == IF Len(scope.envs.value) = 1 THEN scope.envs.value[1] ELSE None

-----------------------------------------------------------------------------
(* The credential *)

\* VOLTAGE_API_KEY applies only when neither a profile nor an account was selected.
AmbientKey(flags, env) ==
    IF flags.profile # None \/ flags.account # None THEN None ELSE env.key

\* select_account: the named account, or the only one saved.
SelectAccount(scope, settings) ==
    LET saved == DOMAIN settings.accounts IN
    IF scope.account.value # None
    THEN IF scope.account.value \in saved
         THEN [name |-> scope.account.value, problem |-> Ok]
         ELSE [name |-> None, problem |-> "unknown_credential"]
    ELSE CASE saved = {} -> [name |-> None, problem |-> "no_credential"]
           [] Cardinality(saved) = 1 -> [name |-> CHOOSE a \in saved : TRUE, problem |-> Ok]
           [] OTHER -> [name |-> None, problem |-> "multiple_credentials"]

\* An API key bound to a different organization or environment than the scope selects.
BoundElsewhere(account, scope) ==
    /\ account.kind = "api_key"
    /\ \/ scope.org.value # None /\ account.org # None /\ scope.org.value # account.org
       \/ account.env # None /\ \E e \in ToSet(scope.envs.value) : e # account.env

AuthUrlMismatch(flags, account) ==
    account.kind = "user" /\ flags.authUrl \notin {None, BadUrl, account.url}

\* select: the credential every command uses, and why it would be refused.
Selected(flags, env, scope, settings) ==
    LET key == AmbientKey(flags, env)
        named == SelectAccount(scope, settings)
        account == settings.accounts[named.name] IN
    IF key # None
    THEN [key |-> key, name |-> None, problem |-> IF key = Blank THEN "empty_api_key" ELSE Ok]
    ELSE IF named.problem # Ok THEN [key |-> None, name |-> None, problem |-> named.problem]
    ELSE [key |-> None, name |-> named.name, problem |->
          CASE BoundElsewhere(account, scope) -> "bound_elsewhere"
            [] AuthUrlMismatch(flags, account) -> "auth_url_mismatch"
            [] OTHER -> Ok]

\* Resolver::resolve, of what can be told without the secret: the key or the login that is
\* used, and the service where the login is refreshed.
Resolved(flags, env, scope, settings) ==
    LET selected == Selected(flags, env, scope, settings)
        account == settings.accounts[selected.name] IN
    IF selected.problem # Ok THEN [error |-> selected.problem, key |-> None, name |-> None, url |-> None]
    ELSE IF selected.key # None THEN [error |-> Ok, key |-> selected.key, name |-> None, url |-> None]
    ELSE CASE account.kind = "api_key" -> [error |-> Ok, key |-> None, name |-> selected.name, url |-> None]
           [] account.kind # "api_key" /\ flags.authUrl = BadUrl ->
                [error |-> "bad URL", key |-> None, name |-> None, url |-> None]
           [] OTHER -> [error |-> Ok, key |-> None, name |-> selected.name,
                        url |-> IF flags.authUrl # None THEN flags.authUrl ELSE account.url]

-----------------------------------------------------------------------------
(* What is said about it *)

\* A variable that is set and supplies nothing, and what keeps it from doing so.
Variables == {"org", "env", "wallet", "dir", "key"}

IsSilent(part) == part.source # "environment"

Ignored(flags, env, settings) ==
    LET scope == Scope(flags, env, settings)
        part == [org |-> scope.org, env |-> scope.envs, wallet |-> scope.wallet,
                 dir |-> Directory(flags, env)] IN
    {v \in {"org", "env", "wallet", "dir"} : env[v] # None /\ IsSilent(part[v])}
      \cup {v \in {"key"} : env.key # None /\ AmbientKey(flags, env) = None}

\* What takes precedence over an ignored variable, as its warning says.
Precedence(flags, env, settings, v) ==
    LET scope == Scope(flags, env, settings)
        byFlag == CASE v = "org" -> scope.org.source = "flag"
                    [] v = "env" -> scope.envs.source = "flag"
                    [] v = "wallet" -> scope.wallet.source = "flag"
                    [] v = "dir" -> TRUE
                    [] v = "key" -> flags.profile = None IN
    IF byFlag THEN "flag" ELSE "profile"

\* The commands that save what their flags name warn of less.
Warned(flags, env, settings, savesSelection) ==
    {v \in Ignored(flags, env, settings) :
        savesSelection => v = "dir" \/ Precedence(flags, env, settings, v) = "profile"}

\* The account `voltage context` shows; an unknown name was selected, too.
ReportedAccount(scope, selected) ==
    CASE selected.key # None -> [value |-> None, source |-> "environment"]
      [] selected.name # None ->
           [value |-> selected.name,
            source |-> IF scope.account.value # None THEN scope.account.source ELSE "default"]
      [] OTHER -> scope.account

\* The auth URL `voltage context` shows: a login's own, else the flag, else the default.
ReportedUrl(flags, scope, selected, settings) ==
    IF selected.name # None /\ settings.accounts[selected.name].kind = "user"
    THEN Sourced(settings.accounts[selected.name].url, ReportedAccount(scope, selected).source)
    ELSE IF flags.authUrl # None THEN Sourced(flags.authUrl, "flag")
    ELSE Sourced(DefaultAuthUrl, "default")

\* context::inspect.
Inspected(flags, env, settings) ==
    LET scope == Scope(flags, env, settings)
        selected == Selected(flags, env, scope, settings) IN
    [scope |-> scope,
     account |-> ReportedAccount(scope, selected),
     problem |-> selected.problem,
     url |-> ReportedUrl(flags, scope, selected, settings),
     ignored |-> Ignored(flags, env, settings)]

\* --format env: the lines another tool reads; more than one environment is refused.
Dotenv(inspected) ==
    IF Len(inspected.scope.envs.value) > 1 THEN {}
    ELSE {line \in
            {<<"org", inspected.scope.org.value>>, <<"env", SingleEnv(inspected.scope)>>,
             <<"wallet", inspected.scope.wallet.value>>} : line[2] # None}

\* auth::status, which reads the saved credential and says less than `select`.
Status(flags, env, scope, settings) ==
    LET key == AmbientKey(flags, env)
        named == SelectAccount(scope, settings) IN
    IF key # None THEN [configured |-> key # Blank, name |-> None, problem |-> Ok]
    ELSE [configured |-> named.problem = Ok, name |-> named.name, problem |-> named.problem]

=============================================================================
