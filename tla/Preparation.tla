----------------------------- MODULE Preparation -----------------------------
(***************************************************************************)
(* One command from its arguments to its request (`execute` and Session of *)
(* src/startup.rs): the settings are opened and the scope selected, what   *)
(* is missing is asked for (src/pick.rs), an invoice without a wallet gets *)
(* its shortlist (src/wallet_shortlist.rs), a payment without a currency   *)
(* its wallet's (src/wallet_currency.rs), the output file is reserved, the *)
(* request is built, and then described (src/dry_run.rs) or sent.          *)
(*                                                                         *)
(* Submission models what a request that is sent goes through, Credentials *)
(* what a login goes through; here the services answer or fail.            *)
(***************************************************************************)
EXTENDS Selection, Requests, Shortlist

CONSTANTS
    Commands,       \* the command lines, environments and saved settings of an instance
    Listings,       \* what a picker is offered: sets of choices, by what is picked
    WalletListings, \* the wallets a shortlist is made of
    Currencies      \* of a wallet's line of credit; None of one that cannot be told

\* What clap and the registry guarantee of a command: its variables and the flags of a payment have a
\* value or None, what is repeated is a sequence, and no filter of its own is one of the scope; and what
\* is deeper in a payload is within something.
ASSUME CommandsAreLines ==
    /\ \A c \in Commands :
         /\ Variables \subseteq DOMAIN c.env
         /\ {"invoice", "address", "kind", "amount", "unit", "maxFee", "feeUnit", "currency", "quote",
             "expiration", "description", "metadata", "id"} \subseteq DOMAIN c.payment
         /\ c.payment.currency \in {None, "btc", "usd"}
         /\ c.flags.envs \in Seq(ToSet(c.flags.envs)) /\ None \notin ToSet(c.flags.envs)
         /\ c.filters \in Seq(ToSet(c.filters)) /\ c.overrides \in Seq(ToSet(c.overrides))
         /\ \A f \in ToSet(c.filters) : f[1] \notin {"env", "wallet"}
         /\ \A v \in c.deeper : Len(v.path) \in Nat \ {0, 1}
    /\ Currencies \subseteq {None, "btc", "usd"}

\* What the types of the code say of numbers: a decimal that was read is its whole part and digits.
Decimals == [given : BOOLEAN, decimal : BOOLEAN, whole : Nat, digits : Seq(0..9)]

ASSUME AmountsAreDecimals ==
    \A c \in Commands :
      /\ c.payment.amount \in Decimals
      /\ c.payment.unit \in Units \cup (IF c.kind = "convert" THEN {} ELSE {None})
      /\ c.price.decimal \in BOOLEAN /\ c.price.whole \in Nat /\ c.price.digits \in Seq(0..9)
      /\ c.invoice.amount.digits \in Nat
      /\ c.invoice.amount.unit \in {"absent", "malformed", "p"} \cup DOMAIN MsatsPerUnit

\* What the registry says of an operation: one that checks the wallet in its body, or creates one,
\* has a body; a payment's is checked as one; and one that targets a wallet has a target.
ASSUME OperationsAreRegistered ==
    \A c \in Commands :
      /\ c.operation.walletInBody \/ c.operation.name = "create_wallet" => c.operation.needsBody
      /\ c.operation.name = "create_payment" => c.operation.payment
      /\ c.operation.targetsWallet => c.operation.target # None

\* What the service lists: wallets with an identifier and an environment each, and whole amounts.
ASSUME WalletsAreListed ==
    \A listed \in WalletListings :
      /\ \A v, w \in listed : v.id = w.id => v = w
      /\ \A w \in listed :
           /\ w.env # None /\ w.active \in BOOLEAN /\ w.limit \in Nat
           /\ \A b \in ToSet(w.balances) : b.available \in Nat /\ b.negative \in BOOLEAN

\* What the stores guarantee of what they read: a profile is complete, an account has a name and is
\* of one of two kinds.
ASSUME SavesAreComplete ==
    \A c \in Commands :
      LET settings == c.saved[Directory(c.flags, c.env).value] IN
      /\ \A p \in DOMAIN settings.profiles :
           settings.profiles[p].org # None /\ settings.profiles[p].env # None
      /\ None \notin DOMAIN settings.accounts
      /\ \A a \in DOMAIN settings.accounts : settings.accounts[a].kind \in {"user", "api_key"}

VARIABLES
    given,          \* one of Commands
    pc,
    scope,          \* the values in use
    target,         \* the wallet a wallet command acts on
    currency,       \* of a payment
    warned,         \* the variables the command warned of
    questions,      \* what a person was asked
    contacts,       \* each use of the credential: with what, where, for which organization
    login,          \* the picker's credential was resolved
    exchanged,      \*   and exchanged for the organization
    reserved,       \* the output file
    request,        \* the request that was built
    result          \* [kind, detail] of the end

vars == <<given, pc, scope, target, currency, warned, questions, contacts, login, exchanged,
          reserved, request, result>>

Operation == given.operation
IsChange == Operation.method # "get"
IsFriendlyPayment == given.body = "friendly" /\ Operation.name = "create_payment"
Settings == given.saved[Directory(given.flags, given.env).value]

\* A payment's flags, with the currency that was filled in.
PaymentFlags == [given.payment EXCEPT !.currency = currency]

NoScope == [org |-> None, envs |-> <<>>, wallet |-> None, webhook |-> None]

\* The scope as `Selection` has it, for what selects a credential by it.
Effective ==
    LET sourced == Scope(given.flags, given.env, Settings) IN
    [sourced EXCEPT !.org.value = scope.org, !.envs.value = scope.envs]

Credential == Resolved(given.flags, given.env, Effective, Settings)

Init ==
    /\ given \in Commands
    /\ pc = "start" /\ scope = NoScope /\ target = given.target /\ currency = given.payment.currency
    /\ warned = {} /\ questions = {} /\ contacts = <<>> /\ login = FALSE /\ exchanged = FALSE
    /\ reserved = FALSE /\ request = None /\ result = [kind |-> "none", detail |-> None]

\* What main reports, and the command's exit code.
Ends_(kind, detail) == pc' = "ended" /\ result' = [kind |-> kind, detail |-> detail]

Used(where, org) ==
    contacts' = Append(contacts, [where |-> where, org |-> org, key |-> Credential.key, name |-> Credential.name])

-----------------------------------------------------------------------------
(* Session::open *)

\* The commands that only read the price service open nothing.
SkipOpen ==
    /\ pc = "start" /\ given.kind = "convert" /\ pc' = "reserve"
    /\ UNCHANGED <<given, scope, target, currency, warned, questions, contacts, login, exchanged, reserved, request, result>>

\* PriceService::convert: the amount is checked before the price is read.
Convert_ ==
    /\ pc = "price"
    /\ LET unit == given.payment.unit
           amount == Parse(given.payment.amount, unit) IN
       IF amount = Refused \/ CurrencyOf(unit) = given.to
       THEN Ends_("usage", "amount") /\ UNCHANGED contacts
       ELSE /\ contacts' = Append(contacts, [where |-> "price", org |-> None, key |-> None, name |-> None])
            /\ \/ Ends_("api", "refused")
               \/ LET converted == Convert(Rate(given.price), amount, unit) IN
                  CASE ~RateIsValid(given.price) -> Ends_("api", "price")
                    [] RateIsValid(given.price) /\ converted = Refused -> Ends_("usage", "overflow")
                    [] RateIsValid(given.price) /\ converted = Panics -> Ends_("panicked", "division by zero")
                    [] OTHER -> Ends_("converted", converted)
    /\ UNCHANGED <<given, scope, target, currency, warned, questions, login, exchanged, reserved, request>>

Open ==
    /\ pc = "start" /\ given.kind # "convert"
    /\ LET dir == Directory(given.flags, given.env).value
           error == IF dir \in Relative THEN "relative directory"
                    ELSE ScopeError(given.flags, given.env, Settings) IN
       IF error # Ok THEN Ends_("usage", error) /\ UNCHANGED <<scope, warned>>
       ELSE LET sourced == Scope(given.flags, given.env, Settings) IN
            /\ scope' = [org |-> sourced.org.value, envs |-> sourced.envs.value,
                         wallet |-> sourced.wallet.value, webhook |-> given.webhook]
            /\ warned' = Warned(given.flags, given.env, Settings, given.kind = "create_profile")
            /\ pc' = "pick" /\ UNCHANGED result
    /\ UNCHANGED <<given, target, currency, questions, contacts, login, exchanged, reserved, request>>

\* needs, of a local command.
LocalNeeds ==
    CASE given.kind = "create_profile" -> {"org", "env"}
      [] given.kind = "discover" /\ given.what = "env" -> {"org"} \cup (IF given.get THEN {"env"} ELSE {})
      [] given.kind = "discover" /\ given.what = "org" /\ given.get -> {"org"}
      [] OTHER -> {}

\* needs: the scope a command cannot run without, its own target left out.  An environment or a
\* wallet is listed within an organization.
Needs ==
    IF given.kind # "api" THEN LocalNeeds ELSE
    LET wallet == \/ "wallet" \in Operation.path
                  \/ IsFriendlyPayment
                  \/ Operation.targetsWallet /\ target = None
        env == \/ "environment" \in Operation.path
               \/ given.body = "friendly" /\ Operation.name = "create_wallet" IN
    (IF wallet THEN {"wallet"} ELSE {}) \cup (IF env THEN {"env"} ELSE {})
      \cup (IF wallet \/ env \/ "organization" \in Operation.path THEN {"org"} ELSE {})

\* A wallet command without its wallet: it never comes from the scope.
NeedsTarget == Operation.targetsWallet /\ target = None

\* MUTANT of WalletTarget: a change picks its wallet as a read does.
WalletTargetOfAny == IF NeedsTarget /\ ~given.canAsk THEN "missing" ELSE "fine"

\* wallet_target: a change without its wallet stops here, and so does a read off a terminal.
WalletTarget == IF NeedsTarget /\ (~given.canAsk \/ IsChange) THEN "missing" ELSE "fine"

Missing ==
    {n \in Needs : \/ n = "org" /\ scope.org = None
                   \/ n = "env" /\ scope.envs = <<>>
                   \/ n = "wallet" /\ (NeedsTarget \/ scope.wallet = None)}

\* Where a command goes on once its scope is as complete as it will be.
Onward == IF given.kind = "api" THEN "shortlist" ELSE "reserve"

Pick ==
    /\ pc = "pick"
    /\ IF WalletTarget = "missing" THEN Ends_("usage", "missing wallet")
       ELSE IF Missing = {} \/ ~given.canAsk THEN pc' = Onward /\ UNCHANGED result
       ELSE pc' = "ask" /\ UNCHANGED result
    /\ UNCHANGED <<given, scope, target, currency, warned, questions, contacts, login, exchanged, reserved, request>>

-----------------------------------------------------------------------------
(* pick::ask *)

\* The credential is resolved once for all the questions.  A service may refuse it.
AskCredential ==
    /\ pc = "ask" /\ ~login
    /\ IF Credential.error # Ok
       THEN Ends_("auth", Credential.error) /\ UNCHANGED <<login, contacts>>
       ELSE \/ login' = TRUE /\ Used("auth", None) /\ UNCHANGED <<pc, result>>
            \/ Ends_("auth", "refused") /\ UNCHANGED <<login, contacts>>
    /\ UNCHANGED <<given, scope, target, currency, warned, questions, exchanged, reserved, request>>

\* What is picked from a listing: the only choice where it may be taken, or what a person says.
Chosen(what, takeOnly) ==
    \E listed \in Listings[what] :
      IF listed = {} THEN questions' = questions /\ pc' = "stop" /\ UNCHANGED <<scope, target>>
      ELSE \E choice \in listed \cup {None} :
        /\ (takeOnly /\ Cardinality(listed) = 1) => choice # None
        /\ questions' = IF takeOnly /\ Cardinality(listed) = 1 THEN questions ELSE questions \cup {what}
        /\ IF choice = None THEN pc' = "stop" /\ UNCHANGED <<scope, target>>
           ELSE CASE what = "org" -> scope' = [scope EXCEPT !.org = choice] /\ UNCHANGED <<target, pc>>
                  [] what = "env" -> scope' = [scope EXCEPT !.envs = <<choice>>] /\ UNCHANGED <<target, pc>>
                  [] what = "wallet" /\ NeedsTarget -> target' = choice /\ pc' = Onward /\ UNCHANGED scope
                  [] OTHER -> scope' = [scope EXCEPT !.wallet = choice] /\ pc' = Onward /\ UNCHANGED target

IsLogin == Credential.name # None /\ Settings.accounts[Credential.name].kind = "user"

\* Only a login lists organizations and environments; a key offers wallets.
AskOrg ==
    /\ pc = "ask" /\ login /\ "org" \in Missing
    /\ IF ~IsLogin THEN pc' = "stop" /\ UNCHANGED <<scope, target, questions, contacts>>
       ELSE Used("auth", None) /\ Chosen("org", TRUE)
    /\ UNCHANGED <<given, currency, warned, login, exchanged, reserved, request, result>>

Exchange ==
    /\ pc = "ask" /\ login /\ "org" \notin Missing /\ ~exchanged
    /\ IF {"env", "wallet"} \cap Missing = {} THEN pc' = "stop" /\ UNCHANGED <<exchanged, contacts, result>>
       ELSE \/ /\ exchanged' = TRUE /\ UNCHANGED <<pc, result>>
               /\ IF IsLogin THEN Used("auth", scope.org) ELSE UNCHANGED contacts
            \/ Ends_("auth", "refused") /\ UNCHANGED <<exchanged, contacts>>
    /\ UNCHANGED <<given, scope, target, currency, warned, questions, login, reserved, request>>

AskEnv ==
    /\ pc = "ask" /\ exchanged /\ "env" \in Missing
    /\ IF ~IsLogin THEN pc' = "stop" /\ UNCHANGED <<scope, target, questions, contacts>>
       ELSE Used("auth", scope.org) /\ Chosen("env", TRUE)
    /\ UNCHANGED <<given, currency, warned, login, exchanged, reserved, request, result>>

\* A wallet is always asked for, because a payment spends from it.
AskWallet ==
    /\ pc = "ask" /\ exchanged /\ "env" \notin Missing
    /\ IF "wallet" \notin Missing THEN pc' = "stop" /\ UNCHANGED <<scope, target, questions, contacts, result>>
       ELSE IF Len(scope.envs) > 1 THEN Ends_("usage", "one environment") /\ UNCHANGED <<scope, target, questions, contacts>>
       ELSE Used("api", scope.org) /\ Chosen("wallet", FALSE) /\ UNCHANGED result
    /\ UNCHANGED <<given, currency, warned, login, exchanged, reserved, request>>

\* Nothing more is picked: a wallet command needs its wallet, another reports what it lacks.
StopAsking ==
    /\ pc = "stop"
    /\ IF NeedsTarget THEN Ends_("usage", "missing wallet") ELSE pc' = Onward /\ UNCHANGED result
    /\ UNCHANGED <<given, scope, target, currency, warned, questions, contacts, login, exchanged, reserved, request>>

-----------------------------------------------------------------------------
(* An API command *)

\* Execution::resolve: the flag, then VOLTAGE_EXECUTE, then the default.
Describes == IsChange /\ ~given.execute /\ ~given.env.execute

\* resolve_organization: the credential, exchanged for the organization's token when it is a login.
AuthorizeError ==
    IF Credential.error # Ok THEN Credential.error
    ELSE IF IsLogin /\ scope.org = None THEN "org" ELSE Ok

Shortlists ==
    /\ IsFriendlyPayment /\ PaymentFlags.invoice # None
    /\ scope.wallet = None /\ scope.org # None /\ ~given.canAsk

\* wallet_shortlist::require: it always ends the command, with the wallets that could pay.
ListWallets ==
    /\ pc = "shortlist" /\ Shortlists
    /\ LET invoice == Invoice(given.invoice.letters, given.invoice.amount)
           error == IF CheckPayment(PaymentFlags, given.alias) # Fine THEN CheckPayment(PaymentFlags, given.alias)
                    ELSE IF invoice.network = None THEN "invoice" ELSE Fine IN
       CASE error # Fine -> Ends_("usage", error) /\ UNCHANGED contacts
         [] error = Fine /\ AuthorizeError # Ok -> Ends_("auth", AuthorizeError) /\ UNCHANGED contacts
         [] OTHER -> /\ Used("api", scope.org)
                     /\ IF Len(scope.envs) > 1 THEN Ends_("usage", "one environment")
                        ELSE \/ \E listed \in WalletListings :
                                  Ends_("shortlist", [listed |-> listed, candidates |->
                                    Candidates(listed, invoice, PaymentFlags.currency, scope.envs)])
                             \/ Ends_("api", "refused")
    /\ UNCHANGED <<given, scope, target, currency, warned, questions, login, exchanged, reserved, request>>

NoShortlist ==
    /\ pc = "shortlist" /\ ~Shortlists
    /\ pc' = "currency"
    /\ UNCHANGED <<given, scope, target, currency, warned, questions, contacts, login, exchanged, reserved, request, result>>

FillsCurrency == IsFriendlyPayment /\ currency = None /\ scope.wallet # None

\* check_unit: an amount's unit must be in the wallet's currency, and one in USD must be named.
UnitFits(read) ==
    \/ ~PaymentFlags.amount.given
    \/ IF PaymentFlags.unit = None THEN read # "usd" ELSE CurrencyOf(PaymentFlags.unit) = read

\* MUTANT of FillError: the wallet is read before the flags are checked.
FillErrorLate == IF scope.org = None THEN "org" ELSE AuthorizeError

FillError ==
    IF CheckPayment(PaymentFlags, given.alias) # Fine THEN CheckPayment(PaymentFlags, given.alias)
    ELSE IF scope.org = None THEN "org" ELSE AuthorizeError

\* wallet_currency::fill.
FillCurrency ==
    /\ pc = "currency" /\ FillsCurrency
    /\ IF FillError \notin {Fine, Ok} THEN Ends_("usage", FillError) /\ UNCHANGED <<currency, contacts>>
       ELSE /\ Used("api", scope.org)
            /\ \/ Ends_("api", "refused") /\ UNCHANGED currency
               \/ \E read \in Currencies :
                    IF read = None THEN Ends_("usage", "unknown currency") /\ UNCHANGED currency
                    ELSE IF ~UnitFits(read) THEN Ends_("usage", "unit of wallet") /\ UNCHANGED currency
                    ELSE currency' = read /\ pc' = "reserve" /\ UNCHANGED result
    /\ UNCHANGED <<given, scope, target, warned, questions, login, exchanged, reserved, request>>

NoFill ==
    /\ pc = "currency" /\ ~FillsCurrency /\ pc' = "reserve"
    /\ UNCHANGED <<given, scope, target, currency, warned, questions, contacts, login, exchanged, reserved, request, result>>

\* Output::new: a description goes to standard output and reserves nothing.
ReservesFile == given.outputFile /\ (given.kind = "api" => ~Describes)

\* What follows once the output is ready.
Ready ==
    CASE given.kind = "convert" -> "price"
      [] given.kind = "api" -> "build"
      [] OTHER -> "local"

Reserve ==
    /\ pc = "reserve"
    /\ IF ReservesFile
       THEN \/ reserved' = TRUE /\ pc' = Ready /\ UNCHANGED result
            \/ Ends_("output", "file exists") /\ UNCHANGED reserved
       ELSE pc' = Ready /\ UNCHANGED <<reserved, result>>
    /\ UNCHANGED <<given, scope, target, currency, warned, questions, contacts, login, exchanged, request>>

\* body: friendly flags or the object --data brings, checked alike.
Body ==
    CASE given.body = "raw" -> [error |-> Fine, body |-> given.raw]
      [] given.body = "friendly" /\ Operation.name = "create_payment" -> Payment(PaymentFlags, given.alias, scope)
      [] given.body = "friendly" /\ Operation.name = "create_wallet" -> CreateWallet(given.wallet, scope)
      [] given.body = "friendly" /\ Operation.name = "request_a_quote" -> CreateQuote(given.quote)
      [] given.body = "friendly" /\ Operation.name = "create_webhook" -> CreateWebhook(given.hook)
      [] OTHER -> [error |-> IF Operation.needsBody THEN "data" ELSE Fine, body |-> None]

\* Whether there is one.
HasBody ==
    \/ given.body = "raw"
    \/ /\ given.body = "friendly"
       /\ Operation.name \in {"create_payment", "create_wallet", "request_a_quote", "create_webhook"}

\* check_invoice_flags: --qr and --copy, of what has an invoice.
InvoiceFlagsError(body) ==
    LET has == IF given.alias = "receive" THEN ReceiveKind(body) = "bolt11"
               ELSE Operation.name = "get_payment" IN
    IF given.presents /\ ~has THEN "no invoice" ELSE Fine

BuildError ==
    LET body == Body IN
    CASE body.error # Fine -> body.error
      [] HasBody /\ CheckPayload(Operation, given.alias, body.body, scope) # Fine ->
           CheckPayload(Operation, given.alias, body.body, scope)
      [] PathError(Operation, target, scope) # Fine -> PathError(Operation, target, scope)
      [] QueryError(Operation, given.overrides, scope) # Fine -> QueryError(Operation, given.overrides, scope)
      [] OTHER -> InvoiceFlagsError(IF HasBody THEN body.body ELSE <<>>)

\* Request::build.
Build ==
    /\ pc = "build"
    /\ IF BuildError # Fine THEN Ends_("usage", BuildError) /\ UNCHANGED request
       ELSE /\ request' = [path |-> Path(Operation, target, scope),
                           query |-> Query(Operation, given.filters, given.overrides, scope),
                           body |-> Body.body,
                           consequential |-> HasBody /\ IsConsequential(Operation, Body.body)]
            /\ pc' = "execute" /\ UNCHANGED result
    /\ UNCHANGED <<given, scope, target, currency, warned, questions, contacts, login, exchanged, reserved>>

\* SHOWN_FIELDS.
ShownFields ==
    {"id", "wallet_id", "environment_id", "line_of_credit_id", "quote_id", "currency", "amount", "max_fee",
     "type", "payment_kind", "network", "limit", "to", "expiration", "disable", "data"}

\* The values of a body, each at the path of names that leads to it: its own, those of its `data`,
\* and those that lie deeper in what --data brings.
Values(body) ==
    {[path |-> <<f>>, shaped |-> body[f] # NotObject] : f \in DOMAIN body} \cup given.deeper
      \cup (IF Has(body, "data") /\ body.data # NotObject
            THEN {[path |-> <<"data", f>>, shaped |-> body.data[f] # NotObject] : f \in DOMAIN body.data}
            ELSE {})

\* omit_private: a value is shown when every name on its path is, `data` only as an object; the
\* selections of `events` are shown whole.
IsShown(value) ==
    \A i \in DOMAIN value.path :
      LET last == i = Len(value.path) IN
      IF value.path[i] = "events" THEN last /\ value.shaped
      ELSE value.path[i] \in ShownFields /\ (value.path[i] = "data" /\ last => value.shaped)

Shown(body) == {value.path : value \in {v \in Values(body) : IsShown(v)}}

\* dry_run::describe, and the exit that says that nothing was sent.
Describe ==
    /\ pc = "execute" /\ Describes
    /\ Ends_("not executed",
         CASE request.body = None -> {}
           [] given.showSecrets -> {value.path : value \in Values(request.body)}
           [] OTHER -> Shown(request.body))
    /\ UNCHANGED <<given, scope, target, currency, warned, questions, contacts, login, exchanged, reserved, request>>

\* A secret that is shown once needs a place to go before it is asked for.
SecretIsSafe == Operation.oneTimeSecret => (given.outputFile \/ given.showSecrets)

\* Authorization::resolve, then the request.
Send ==
    /\ pc = "execute" /\ ~Describes /\ SecretIsSafe
    /\ Operation.auth = "account"
    /\ IF AuthorizeError # Ok THEN Ends_("auth", AuthorizeError) /\ UNCHANGED contacts
       ELSE Used("api", scope.org) /\ (Ends_("sent", None) \/ Ends_("api", "refused"))
    /\ UNCHANGED <<given, scope, target, currency, warned, questions, login, exchanged, reserved, request>>

\* A checkout operation has a token of its own, which no account credential replaces.
SendCheckout ==
    /\ pc = "execute" /\ ~Describes /\ SecretIsSafe
    /\ Operation.auth = "checkout"
    /\ IF given.token = None THEN Ends_("auth", "token") /\ UNCHANGED contacts
       ELSE /\ contacts' = Append(contacts, [where |-> "api", org |-> None, key |-> given.token, name |-> None])
            /\ (Ends_("sent", None) \/ Ends_("api", "refused"))
    /\ UNCHANGED <<given, scope, target, currency, warned, questions, login, exchanged, reserved, request>>

RefuseSecret ==
    /\ pc = "execute" /\ ~Describes /\ ~SecretIsSafe
    /\ Ends_("usage", "one-time secret")
    /\ UNCHANGED <<given, scope, target, currency, warned, questions, contacts, login, exchanged, reserved, request>>

-----------------------------------------------------------------------------
(* Local commands *)

\* profiles create: what the scope selects, under the account it selects.
CreateProfile ==
    /\ pc = "local" /\ given.kind = "create_profile"
    /\ LET account == SelectAccount(Effective, Settings)
           env == IF Len(scope.envs) = 1 THEN scope.envs[1] ELSE None IN
       IF account.problem # Ok THEN Ends_("usage", account.problem)
       ELSE IF scope.org = None \/ env = None THEN Ends_("usage", "scope")
       ELSE Ends_("profile", [account |-> account.name, org |-> scope.org, env |-> env])
    /\ UNCHANGED <<given, scope, target, currency, warned, questions, contacts, login, exchanged, reserved, request>>

\* `discover` of startup.rs: organizations or environments, or the one the scope selects.  An
\* API key lists neither.
Discover ==
    /\ pc = "local" /\ given.kind = "discover"
    /\ LET what == given.what
           selected == IF what = "org" THEN scope.org
                       ELSE IF Len(scope.envs) = 1 THEN scope.envs[1] ELSE None
           error == IF given.get /\ selected = None THEN "scope"
                    ELSE IF what = "env" /\ AuthorizeError # Ok THEN AuthorizeError
                    ELSE IF Credential.error # Ok THEN Credential.error
                    ELSE IF IsLogin THEN Ok ELSE "needs a login" IN
       IF error # Ok THEN Ends_("usage", error) /\ UNCHANGED contacts
       ELSE /\ Used("auth", IF what = "org" THEN None ELSE scope.org)
            /\ \E listed \in Listings[what] :
                 IF given.get
                 THEN IF selected \in listed THEN Ends_("listed", {selected}) ELSE Ends_("usage", "not visible")
                 ELSE Ends_("listed", listed)
    /\ UNCHANGED <<given, scope, target, currency, warned, questions, login, exchanged, reserved, request>>

\* context, and auth status.
Report ==
    /\ pc = "local" /\ given.kind = "context"
    /\ IF given.flags.authUrl = BadUrl THEN Ends_("usage", "bad URL")
       ELSE Ends_("context", [inspected |-> Inspected(given.flags, given.env, Settings),
                              lines |-> Dotenv(Inspected(given.flags, given.env, Settings)),
                              status |-> Status(given.flags, given.env, Effective, Settings)])
    /\ UNCHANGED <<given, scope, target, currency, warned, questions, contacts, login, exchanged, reserved, request>>

\* The command has ended.
Ended == pc = "ended" /\ UNCHANGED vars

Next ==
    \/ SkipOpen \/ Convert_ \/ Open \/ Pick
    \/ AskCredential \/ AskOrg \/ Exchange \/ AskEnv \/ AskWallet \/ StopAsking
    \/ ListWallets \/ NoShortlist \/ FillCurrency \/ NoFill \/ Reserve
    \/ Build \/ Describe \/ Send \/ SendCheckout \/ RefuseSecret
    \/ CreateProfile \/ Discover \/ Report
    \/ Ended

Spec == Init /\ [][Next]_vars

-----------------------------------------------------------------------------
(* Properties *)

TypeOK ==
    /\ pc \in {"start", "pick", "ask", "stop", "shortlist", "currency", "reserve", "build", "execute",
               "price", "local", "ended"}
    /\ DOMAIN scope = {"org", "envs", "wallet", "webhook"}
    /\ currency \in {None, "btc", "usd"}
    /\ warned \subseteq Variables /\ questions \subseteq {"org", "env", "wallet"}
    /\ login \in BOOLEAN /\ exchanged \in BOOLEAN /\ reserved \in BOOLEAN
    /\ \A i \in DOMAIN contacts : contacts[i].where \in {"auth", "api", "price"}
    /\ pc = "ended" <=> result.kind # "none"

\* The settings are read and the flags select something of them.
IsOpen == pc # "start" /\ given.kind # "convert" /\ ScopeError(given.flags, given.env, Settings) = Ok

Contacts == {contacts[i] : i \in DOMAIN contacts}

\* A variable is reported as ignored exactly when unsetting it would change nothing of the
\* directory, the scope and the credential (ignored_variables of config.rs and auth.rs, against
\* sourced_scope and select, which decide it a second time).
IgnoredIsInert ==
    IsOpen =>
      LET used(env) == [dir |-> Directory(given.flags, env),
                        scope |-> Scope(given.flags, env, Settings),
                        credential |-> Resolved(given.flags, env, Scope(given.flags, env, Settings), Settings)] IN
      \A v \in {w \in Variables : given.env[w] # None} :
        v \in Ignored(given.flags, given.env, Settings)
          <=> used([given.env EXCEPT ![v] = None]) = used(given.env)

\* What a profile pins no variable changes: the organization, the environment and the account
\* are the profile's or a flag's, and the wallet is a flag's or was picked.
ProfilePins ==
    IsOpen /\ given.flags.profile # None =>
      LET profile == Profile(given.flags, Settings) IN
      /\ given.flags.org = None /\ scope # NoScope => scope.org = profile.org
      /\ given.flags.envs = <<>> /\ scope # NoScope => scope.envs = <<profile.env>>
      /\ scope.wallet \in {None, given.flags.wallet} \/ "wallet" \in questions

\* An account that is named, by a flag or by a profile, is the only credential that is used:
\* neither VOLTAGE_API_KEY nor another saved account replaces it.
NamedAccountOnly ==
    IsOpen /\ Operation.auth = "account" =>
      LET named == Scope(given.flags, given.env, Settings).account.value IN
      named # None => \A c \in Contacts : c.key = None /\ c.name = named

\* What `voltage context` would say of the same flags holds of the command: the credential it
\* names is the one that is used, one it finds a problem with is never used, and a login goes
\* to the URL it shows.
ContextTellsTheTruth ==
    IsOpen /\ Operation.auth = "account" =>
      LET told == Inspected(given.flags, given.env, Settings)
          used == Resolved(given.flags, given.env, Scope(given.flags, given.env, Settings), Settings) IN
      /\ \A c \in Contacts : told.problem = Ok /\ c.name = told.account.value
      /\ used.url # None => told.url.value = used.url

\* An API key that is bound to an organization or an environment reaches no other one, by path,
\* filter or listing.
BoundKeyStaysHome ==
    \A c \in Contacts :
      c.name # None /\ Settings.accounts[c.name].kind = "api_key" =>
        LET account == Settings.accounts[c.name] IN
        /\ account.org # None => c.org \in {None, account.org}
        /\ request # None /\ account.env # None =>
             /\ request.path.env \in {None, account.env}
             /\ \A p \in ToSet(request.query) : p[1] = "env" => p[2] = account.env

\* All that one command reads and sends is of one organization, the one of its flag if it has
\* one, and a login sends nothing to the API without one.
OneOrganization ==
    LET orgs == ({c.org : c \in Contacts}
                   \cup (IF request = None THEN {} ELSE {request.path.org})) \ {None} IN
    given.kind # "convert" =>
      /\ Cardinality(orgs) <= 1
      /\ given.flags.org # None => orgs \subseteq {given.flags.org}
      /\ \A c \in Contacts : c.where = "api" /\ c.name # None =>
           (Settings.accounts[c.name].kind = "user" => c.org # None)

\* A change of a wallet acts on the wallet its command line names, never on one that was picked
\* or that a variable or a profile supplies.
ChangesNamedWallet ==
    request # None /\ IsChange /\ Operation.targetsWallet =>
      given.target # None /\ request.path.target = given.target

\* A friendly payment spends from a wallet that was named, or that a person chose, though it be
\* the only one.
SpendsFromNamedWallet ==
    request # None /\ IsFriendlyPayment =>
      request.body["wallet_id"] \in {given.flags.wallet, given.env.wallet} \/ "wallet" \in questions

\* A mistake in a payment's flags that needs no currency to be seen is found before any credential is
\* used, where nobody is asked.
LocalMistakesAskNothing ==
    given.kind = "api" /\ IsFriendlyPayment /\ ~given.canAsk
      /\ CheckPayment(given.payment, given.alias) # Fine => contacts = <<>>

\* Where nobody is asked, a command that its flags or its --data get refused has used no credential,
\* but a payment that had its wallet read for the currency, or the wallets for an invoice without one:
\* its amount, its environment and its quote are checked after that.
RefusalsAskNothing ==
    given.kind = "api" /\ ~given.canAsk /\ result.kind = "usage" /\ contacts # <<>> =>
      IsFriendlyPayment /\ (given.payment.currency = None \/ scope.wallet = None)

\* What is sent has its output file first, and a change that is only described takes no file and
\* sends nothing that changes anything.
ReservedUnlessDescribed ==
    /\ result.kind = "sent" /\ given.outputFile => reserved
    /\ result.kind = "not executed" => IsChange /\ ~reserved /\ ~given.execute

\* A request that was built is of the organization, wallet and environments that flags name,
\* in its path, its filters and its body.
RequestNamesTheFlags ==
    request # None =>
      /\ given.flags.org # None => request.path.org \in {None, given.flags.org}
      /\ given.flags.wallet # None =>
           /\ request.path.wallet \in {None, given.flags.wallet}
           /\ Operation.walletInBody => request.body["wallet_id"] = given.flags.wallet
           /\ \A p \in ToSet(request.query) : p[1] = "wallet" => p[2] = given.flags.wallet
      /\ given.flags.envs # <<>> =>
           /\ request.path.env \in {None, given.flags.envs[1]}
           /\ Operation.name = "create_wallet" => given.flags.envs = <<request.body["environment_id"]>>
           /\ \A p \in ToSet(request.query) : p[1] = "env" => p[2] \in ToSet(given.flags.envs)

\* The amounts of a payment's body, but for its fee.
BodyAmounts(body) ==
    {b.amount : b \in {c \in {body} \cup {body[f] : f \in {"data"} \cap DOMAIN body} : Has(c, "amount")}}

\* A payment whose currency was read from its wallet is denominated in it; in USD only an amount
\* with a unit, and a payment in USD names its quote.
PaymentInItsCurrency ==
    request # None /\ IsFriendlyPayment =>
      /\ given.payment.currency = None =>
           \A a \in BodyAmounts(request.body) :
             a.currency = currency /\ (a.currency = "usd" => given.payment.unit # None)
      /\ Field(request.body, "currency") = "usd" => given.payment.quote # None

\* The base units of a decimal, cross-multiplied so that nothing is divided.
IsExactly(units, amount, unit) ==
    units * Power(Len(amount.digits))
      = (amount.whole * Power(Len(amount.digits)) + Value(amount.digits)) * Power(Scale[unit])

\* A payment is of exactly the amount that was asked for, and one is refused only when no
\* representable amount is it.
AmountsAreExact ==
    given.kind = "api" /\ IsFriendlyPayment /\ given.payment.amount.given /\ currency # None =>
      LET unit == IF given.payment.unit = None THEN BaseUnit(currency) ELSE given.payment.unit IN
      /\ request # None =>
           \A a \in BodyAmounts(request.body) : IsExactly(a.amount, given.payment.amount, unit)
      /\ result.kind = "usage" /\ given.payment.amount.decimal =>
           (result.detail = "amount" => ~\E n \in 0..MaxAmount : IsExactly(n, given.payment.amount, unit))

\* What an invoice's prefix means, by the longest prefix.
PayingNetworks ==
    [letters \in {"bc", "tb", "tbs", "bcrt"} |->
        CASE letters = "bc" -> {"mainnet"} [] letters = "tb" -> {"testnet"}
          [] letters = "tbs" -> {"signet", "mutinynet"} [] OTHER -> {}]

\* An invoice of a known network and a readable amount is read, and only wallets of its network
\* are candidates.
InvoiceIsRead ==
    /\ result.kind = "usage" /\ IsFriendlyPayment =>
         (result.detail = "invoice" =>
            given.invoice.letters \notin DOMAIN PayingNetworks \/ Msats(given.invoice.amount) = Unreadable)
    /\ result.kind = "shortlist" =>
         \A c \in result.detail.candidates : \A w \in result.detail.listed :
           w.id = c.wallet => w.network \in PayingNetworks[given.invoice.letters]

\* A wallet is a candidate exactly when it is active, on the invoice's network, and has a balance
\* of a wanted currency with money or credit, enough for the invoice if it is in bitcoin.
ShortlistCouldPay ==
    result.kind = "shortlist" =>
      LET wanted == IF given.payment.currency = None THEN {"btc", "usd"} ELSE {given.payment.currency}
          money(w, b) == w.limit + (IF b.negative THEN 0 - b.available ELSE b.available) IN
      \A w \in result.detail.listed :
        (\E c \in result.detail.candidates : c.wallet = w.id)
          <=> /\ w.active /\ w.network \in PayingNetworks[given.invoice.letters]
              /\ \E b \in ToSet(w.balances) :
                   /\ b.currency \in wanted /\ money(w, b) > 0
                   /\ b.currency = "btc" => money(w, b) >= Msats(given.invoice.amount)

\* A candidate's flags name the environment of its wallet, and its quote is for exactly the
\* invoice's amount.
CandidateIsComplete ==
    result.kind = "shortlist" =>
      \A c \in result.detail.candidates :
        /\ scope.envs = <<>> => \E w \in result.detail.listed : w.id = c.wallet /\ w.env = c.env
        /\ c.env # None
        /\ c.quote # None /\ Msats(given.invoice.amount) # Unstated =>
             Msats(given.invoice.amount) = c.quote.amount * (IF c.quote.unit = "sats" THEN 1000 ELSE 1)

\* The divisor of a conversion to bitcoin fits its width.
PriceFits(rate) == rate.mantissa * CentsPerUsd <= MaxProduct

\* A conversion is the nearest whole unit to the exact quotient, and does not panic, but for one to
\* bitcoin at a price whose cents do not fit: cents_to_msats multiplies them unchecked (price.rs:98),
\* though the comment on PRICE_FRACTION_DIGITS says that every product fits (price.rs:20).
ConvertedToNearest ==
    LET rate == Rate(given.price)
        unit == given.payment.unit
        amount == Parse(given.payment.amount, unit)
        num == IF CurrencyOf(unit) = "usd" THEN amount * MsatsPerBtc * Power(rate.scale)
               ELSE amount * rate.mantissa * CentsPerUsd
        den == IF CurrencyOf(unit) = "usd" THEN rate.mantissa * CentsPerUsd
               ELSE Power(rate.scale) * MsatsPerBtc
        off == result.detail * den - num IN
    result.kind \in {"converted", "panicked"} /\ (CurrencyOf(unit) = "usd" => PriceFits(rate)) =>
      result.kind = "converted" /\ 2 * off <= den /\ -den <= 2 * off

\* What a description never shows unless it is asked for.
Private == {"description", "metadata", "payment_request", "address", "name", "url"}

\* A description shows no value by the name of a payee, a note, a name, an address or metadata, nor
\* anything within one, however deep a --data file puts it; `data` and `events` it shows only of the
\* shape they have in the contract.
NothingPrivateIsShown ==
    result.kind = "not executed" /\ ~given.showSecrets =>
      \A path \in result.detail :
        /\ \A i \in DOMAIN path : path[i] \notin Private
        /\ path \in {<<"data">>, <<"events">>} => request.body[path[1]] # NotObject

\* The paging that flags ask for is what is sent, alone; a list without any pages by cursor.
AskedPagingIsKept ==
    request # None /\ "pagination" \in Operation.filters =>
      LET paging == {p \in ToSet(request.query) : p[1] \in {"pagination", "offset"}}
          asked == {p \in ToSet(given.filters \o given.overrides) : p[1] \in {"pagination", "offset"}} IN
      /\ paging = IF asked = {} THEN {<<"pagination", "cursor">>} ELSE asked
      /\ (\E p \in asked : p[1] = "offset") => Mode(request.query) = "offset"

(* What the runs check of a prepared command, in three statements. *)

\* Whose request it is: the organization, the environment, the account, the key and the services are
\* those the flags, the profile or the variables name and `context` reports, from the first request to
\* the last; what is said to be ignored is (ScopeSources, AccountChoice, Resolver::resolve, context).
ScopeIsRight ==
    /\ TypeOK
    /\ IgnoredIsInert /\ ProfilePins /\ NamedAccountOnly
    /\ ContextTellsTheTruth /\ BoundKeyStaysHome /\ OneOrganization

\* What it asks for: the wallet that was named or picked, the amount that was written, in the currency
\* its wallet holds, with every flag and nothing else, however the missing parts were filled in
\* (Request::build, wallet_currency::fill, wallet_shortlist, pick).
RequestIsRight ==
    /\ ChangesNamedWallet /\ SpendsFromNamedWallet /\ RequestNamesTheFlags /\ AskedPagingIsKept
    /\ PaymentInItsCurrency /\ AmountsAreExact /\ ConvertedToNearest
    /\ InvoiceIsRead /\ ShortlistCouldPay /\ CandidateIsComplete

\* When: off a terminal no credential is used for a mistake that shows without the wallet, or for any
\* other but of a payment that had to read it; no file is taken for what is only described, and a
\* description shows nothing by a private name (check_payment and fill of wallet_currency, Output::new,
\* omit_private).
NothingTooSoon ==
    LocalMistakesAskNothing /\ RefusalsAskNothing /\ ReservedUnlessDescribed /\ NothingPrivateIsShown

=============================================================================
